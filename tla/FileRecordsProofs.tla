--------------------------- MODULE FileRecordsProofs ---------------------------
(***************************************************************************)
(* What the engines write down about files: proofs about the quarantine    *)
(* and its index (Quarantine), the cache of white files (ScanCache) and    *)
(* the file monitor (DefenEngine).                                         *)
(*                                                                         *)
(* First what Kept leaves of a list, by induction in the form of a fact    *)
(* about sets of numbers.  Then each model has an inductive invariant,     *)
(* which is proved action by action, and the theorems that follow from it. *)
(***************************************************************************)
EXTENDS Quarantine, ScanCache, DefenEngine, FiniteSetTheorems, WellFoundedInduction,
        SequenceTheorems, TLAPS

\* A non-empty set of numbers has a least one.
LEMMA LeastExists ==
  ASSUME NEW G \in SUBSET Nat, G # {}
  PROVE  \E m \in G : \A n \in G : m <= n
<1> DEFINE R == {p \in Nat \X Nat : p[1] < p[2]}
<1>1. IsWellFoundedOn(R, Nat)
  BY NatLessThanWellFounded DEF OpToRel
<1>2. \A t, m \in Nat : t < m => <<t, m>> \in R
  OBVIOUS
<1> HIDE DEF R
<1>3. PICK m \in G : \A t \in G : ~ (<<t, m>> \in R)
  BY <1>1, WFMin
<1>4. \A t \in G : ~ (t < m)
  BY <1>2, <1>3
<1> QED BY <1>4

\* Induction, as a fact about a set.
LEMMA NatInduct ==
  ASSUME NEW G, 0 \in G, \A n \in Nat : n \in G => n + 1 \in G
  PROVE  Nat \subseteq G
<1> SUFFICES ASSUME Nat \ G # {} PROVE FALSE
  OBVIOUS
<1>1. PICK m \in Nat \ G : \A t \in Nat \ G : m <= t
  BY LeastExists
<1>2. m # 0 /\ m - 1 \in Nat /\ m - 1 < m
  OBVIOUS
<1>3. m - 1 \in G
  BY <1>1, <1>2
<1>4. (m - 1) + 1 \in G
  BY <1>2, <1>3
<1> QED BY <1>1, <1>4

\* The function behind Kept, on the first k elements of s.
Element(s, S, u, n) ==
  IF n = 0 THEN <<>> ELSE IF s[n] \in S THEN Append(u[n - 1], s[n]) ELSE u[n - 1]
UpTo(s, S, u, k) == u = [n \in 0 .. k |-> Element(s, S, u, n)]

LEMMA UpToExists == ASSUME NEW s, NEW S, NEW k \in Nat PROVE \E u : UpTo(s, S, u, k)
<1> DEFINE G == {m \in Nat : \E u : UpTo(s, S, u, m)}
<1>1. \E u : UpTo(s, S, u, 0)
  <2>1. UpTo(s, S, [n \in 0 .. 0 |-> <<>>], 0)
    BY DEF UpTo, Element
  <2> QED BY <2>1
<1>2. ASSUME NEW m \in Nat, NEW v, UpTo(s, S, v, m)
      PROVE  \E u : UpTo(s, S, u, m + 1)
  <2> DEFINE u == [n \in 0 .. m + 1 |-> IF n <= m THEN v[n]
                     ELSE IF s[n] \in S THEN Append(v[m], s[n]) ELSE v[m]]
  <2>1. ASSUME NEW n \in 0 .. m + 1
        PROVE  u[n] = Element(s, S, u, n)
    <3>1. CASE n <= m
      <4>1. v[n] = Element(s, S, v, n)
        BY <1>2, <3>1 DEF UpTo
      <4>2. u[n] = v[n] /\ (n # 0 => u[n - 1] = v[n - 1])
        BY <3>1
      <4> QED BY <4>1, <4>2 DEF Element
    <3>2. CASE n = m + 1
      BY <3>2 DEF Element
    <3> QED BY <3>1, <3>2
  <2>2. UpTo(s, S, u, m + 1)
    <3>1. u = [n \in 0 .. m + 1 |-> u[n]]
      OBVIOUS
    <3> HIDE DEF u
    <3> QED BY <2>1, <3>1 DEF UpTo
  <2> QED BY <2>2
<1> HIDE DEF UpTo
<1>3. 0 \in G /\ \A m \in Nat : m \in G => m + 1 \in G
  BY <1>1, <1>2
<1> HIDE DEF G
<1>4. k \in G
  BY <1>3, NatInduct
<1> QED BY <1>4 DEF G

LEMMA KeptUpTo ==
  ASSUME NEW s, NEW S, Len(s) \in Nat
  PROVE  \E u : UpTo(s, S, u, Len(s)) /\ Kept(s, S) = u[Len(s)]
<1> DEFINE v == CHOOSE u : UpTo(s, S, u, Len(s))
<1>1. UpTo(s, S, v, Len(s))
  BY UpToExists
<1>2. Kept(s, S) = v[Len(s)]
  BY DEF UpTo, Element, Kept
<1> QED BY <1>1, <1>2

LEMMA UpToAt ==
  ASSUME NEW s, NEW S, NEW k, NEW u, UpTo(s, S, u, k), NEW n \in 0 .. k
  PROVE  u[n] = Element(s, S, u, n)
  BY DEF UpTo

\* It is determined by the first elements.
LEMMA UpToUnique ==
  ASSUME NEW s, NEW t, NEW S, NEW k \in Nat, NEW l \in Nat, k <= l, NEW u, NEW v,
         UpTo(s, S, u, k), UpTo(t, S, v, l), \A n \in 1 .. k : s[n] = t[n]
  PROVE  u[k] = v[k]
<1> DEFINE G == {n \in Nat : n <= k => u[n] = v[n]}
<1>0. /\ \A n \in 0 .. k : u[n] = Element(s, S, u, n)
      /\ \A n \in 0 .. k : v[n] = Element(t, S, v, n)
  <2>1. \A n \in 0 .. k : u[n] = Element(s, S, u, n)
    BY UpToAt
  <2>2. \A n \in 0 .. k : n \in 0 .. l /\ v[n] = Element(t, S, v, n)
    BY UpToAt
  <2> QED BY <2>1, <2>2
<1>1. 0 \in G
  BY <1>0 DEF Element
<1>2. ASSUME NEW n \in Nat, n \in G PROVE n + 1 \in G
  <2>1. SUFFICES ASSUME n + 1 <= k PROVE u[n + 1] = v[n + 1]
    OBVIOUS
  <2>2. u[n] = v[n] /\ s[n + 1] = t[n + 1]
    BY <1>2, <2>1
  <2>3. u[n + 1] = Element(s, S, u, n + 1) /\ v[n + 1] = Element(t, S, v, n + 1)
    BY <1>0, <2>1
  <2> QED BY <2>2, <2>3 DEF Element
<1> HIDE DEF G
<1>3. k \in G
  BY <1>1, <1>2, NatInduct
<1> QED BY <1>3 DEF G

\* Element by element.
LEMMA KeptStep ==
  ASSUME NEW E, NEW s \in Seq(E), NEW e \in E, NEW S
  PROVE  /\ Kept(<<>>, S) = <<>>
         /\ Kept(Append(s, e), S) = IF e \in S THEN Append(Kept(s, S), e) ELSE Kept(s, S)
<1> DEFINE t == Append(s, e)
<1>1. /\ Len(s) \in Nat /\ Len(t) = Len(s) + 1 /\ t[Len(s) + 1] = e
      /\ \A n \in 1 .. Len(s) : s[n] = t[n]
  OBVIOUS
<1>2. Kept(<<>>, S) = <<>>
  <2>1. PICK u : UpTo(<<>>, S, u, 0) /\ Kept(<<>>, S) = u[0]
    BY KeptUpTo
  <2> QED BY <2>1 DEF UpTo, Element
<1>3. PICK u : UpTo(s, S, u, Len(s)) /\ Kept(s, S) = u[Len(s)]
  BY <1>1, KeptUpTo
<1> HIDE DEF t
<1>4. PICK v : UpTo(t, S, v, Len(t)) /\ Kept(t, S) = v[Len(t)]
  BY <1>1, KeptUpTo
<1>5. u[Len(s)] = v[Len(s)]
  BY <1>1, <1>3, <1>4, UpToUnique
<1>6. v[Len(s) + 1] = Element(t, S, v, Len(s) + 1)
  BY <1>1, <1>4, UpToAt
<1>7. Kept(t, S) = IF e \in S THEN Append(Kept(s, S), e) ELSE Kept(s, S)
  BY <1>1, <1>3, <1>4, <1>5, <1>6 DEF Element
<1> QED BY <1>2, <1>7 DEF t

\* Induction on lists.
LEMMA SeqInduct ==
  ASSUME NEW E, NEW G, <<>> \in G, \A s \in Seq(E), e \in E : s \in G => Append(s, e) \in G
  PROVE  Seq(E) \subseteq G
<1> DEFINE N == {n \in Nat : \A s \in Seq(E) : Len(s) = n => s \in G}
<1>1. 0 \in N
  OBVIOUS
<1>2. ASSUME NEW n \in N PROVE n + 1 \in N
  <2> SUFFICES ASSUME NEW s \in Seq(E), Len(s) = n + 1 PROVE s \in G
    OBVIOUS
  <2>1. s # <<>>
    OBVIOUS
  <2>2. PICK t \in Seq(E), e \in E : s = Append(t, e)
    <3> DEFINE t == SubSeq(s, 1, n)
    <3>1. t \in Seq(E) /\ s[n + 1] \in E /\ s = Append(t, s[n + 1])
      OBVIOUS
    <3> QED BY <3>1
  <2>3. Len(t) = n
    BY <2>2
  <2> QED BY <2>2, <2>3
<1> HIDE DEF N
<1>3. Nat \subseteq N
  BY <1>1, <1>2, NatInduct
<1> QED BY <1>3 DEF N

\* The elements of a list.
LEMMA Elements ==
  ASSUME NEW E, NEW s \in Seq(E)
  PROVE  /\ ToSet(<<>>) = {} /\ IsInjective(<<>>)
         /\ \A x : x \in ToSet(s) <=> \E i \in 1 .. Len(s) : s[i] = x
         /\ ToSet(s) \subseteq E /\ (ToSet(s) = {} <=> s = <<>>)
         /\ \A e \in E : ToSet(Append(s, e)) = ToSet(s) \cup {e}
         /\ \A e \in E : IsInjective(Append(s, e)) <=> IsInjective(s) /\ e \notin ToSet(s)
<1>1. ToSet(<<>>) = {} /\ IsInjective(<<>>)
  BY DEF ToSet, IsInjective
<1>2. \A x : x \in ToSet(s) <=> \E i \in 1 .. Len(s) : s[i] = x
  BY DEF ToSet
<1>3. ToSet(s) \subseteq E /\ (ToSet(s) = {} <=> s = <<>>)
  BY <1>2
<1>4. ASSUME NEW e \in E
      PROVE  /\ ToSet(Append(s, e)) = ToSet(s) \cup {e}
             /\ IsInjective(Append(s, e)) <=> IsInjective(s) /\ e \notin ToSet(s)
  <2> DEFINE q == Append(s, e)
  <2>1. /\ q \in Seq(E) /\ Len(q) = Len(s) + 1 /\ q[Len(s) + 1] = e
        /\ \A i \in 1 .. Len(s) : q[i] = s[i]
        /\ Len(s) \in Nat /\ DOMAIN s = 1 .. Len(s) /\ DOMAIN q = 1 .. Len(q)
    OBVIOUS
  <2> HIDE DEF q
  <2>2. \A x : x \in ToSet(q) <=> \E i \in 1 .. Len(q) : q[i] = x
    BY <2>1 DEF ToSet
  <2>3. \A x : x \in ToSet(q) <=> x \in ToSet(s) \cup {e}
    BY <1>2, <2>1, <2>2
  <2>4. ASSUME IsInjective(q) PROVE IsInjective(s) /\ e \notin ToSet(s)
    BY <1>2, <2>1, <2>4 DEF IsInjective
  <2>5. ASSUME IsInjective(s), e \notin ToSet(s) PROVE IsInjective(q)
    BY <1>2, <2>1, <2>5 DEF IsInjective
  <2> QED BY <2>3, <2>4, <2>5 DEF q
<1> QED BY <1>1, <1>2, <1>3, <1>4

\* What is kept: in order, and each as often as before.
LEMMA KeptIs ==
  ASSUME NEW E, NEW s \in Seq(E), NEW S
  PROVE  /\ Kept(s, S) \in Seq(E) /\ Len(Kept(s, S)) <= Len(s)
         /\ ToSet(Kept(s, S)) = ToSet(s) \cap S
         /\ IsInjective(s) => IsInjective(Kept(s, S))
<1> DEFINE P(r) == /\ Kept(r, S) \in Seq(E) /\ Len(Kept(r, S)) <= Len(r)
                   /\ ToSet(Kept(r, S)) = ToSet(r) \cap S
                   /\ IsInjective(r) => IsInjective(Kept(r, S))
           G == {r \in Seq(E) : P(r)}
<1>0. \A r \in Seq(E), e \in E :
         /\ Kept(<<>>, S) = <<>>
         /\ Kept(Append(r, e), S) = IF e \in S THEN Append(Kept(r, S), e) ELSE Kept(r, S)
  BY KeptStep
<1>1. <<>> \in G
  <2>1. Kept(<<>>, S) = <<>>
    BY KeptUpTo DEF UpTo, Element
  <2>2. ToSet(<<>>) = {} /\ IsInjective(<<>>)
    BY Elements
  <2>3. <<>> \in Seq(E) /\ Len(<<>>) = 0 /\ 0 <= 0 /\ {} = {} \cap S
    OBVIOUS
  <2>4. P(<<>>)
    <3> DEFINE o == <<>>
    <3>1. o \in Seq(E) /\ Len(o) <= Len(o) /\ ToSet(o) = ToSet(o) \cap S /\ IsInjective(o) /\ Kept(o, S) = o
      BY <2>1, <2>2, <2>3
    <3> HIDE DEF o
    <3>2. P(o)
      BY <3>1
    <3> QED BY <3>2 DEF o
  <2> HIDE DEF P
  <2> QED BY <2>3, <2>4
<1>2. ASSUME NEW r \in Seq(E), NEW e \in E, r \in G PROVE Append(r, e) \in G
  <2> DEFINE k == Kept(r, S)
             q == Append(r, e)
  <2>1. /\ k \in Seq(E) /\ Len(k) <= Len(r) /\ ToSet(k) = ToSet(r) \cap S
        /\ IsInjective(r) => IsInjective(k)
        /\ Kept(q, S) = IF e \in S THEN Append(k, e) ELSE k
    BY <1>0, <1>2
  <2> HIDE DEF k
  <2>2. q \in Seq(E) /\ Len(q) = Len(r) + 1 /\ ToSet(q) = ToSet(r) \cup {e}
    BY Elements
  <2>3. /\ Append(k, e) \in Seq(E) /\ Len(Append(k, e)) = Len(k) + 1
        /\ ToSet(Append(k, e)) = ToSet(k) \cup {e}
    BY <2>1, Elements
  <2>4. IsInjective(q) => IsInjective(r) /\ e \notin ToSet(r)
    BY Elements
  <2>5. IsInjective(k) /\ e \notin ToSet(k) => IsInjective(Append(k, e))
    BY <2>1, Elements
  <2>6. P(q)
    <3> HIDE DEF q
    <3>1. CASE e \in S
      BY <2>1, <2>2, <2>3, <2>4, <2>5, <3>1
    <3>2. CASE e \notin S
      BY <2>1, <2>2, <2>4, <3>2
    <3> QED BY <3>1, <3>2
  <2> HIDE DEF P
  <2> QED BY <2>2, <2>6
<1> HIDE DEF G
<1>3. s \in G
  BY <1>1, <1>2, SeqInduct
<1> QED BY <1>3 DEF G

\* Only which elements of the list are kept matters.
LEMMA KeptSame ==
  ASSUME NEW E, NEW s \in Seq(E), NEW S, NEW T, ToSet(s) \cap S = ToSet(s) \cap T
  PROVE  Kept(s, S) = Kept(s, T)
<1> DEFINE G == {r \in Seq(E) : ToSet(r) \cap S = ToSet(r) \cap T => Kept(r, S) = Kept(r, T)}
<1>1. <<>> \in G
  BY KeptUpTo DEF UpTo, Element
<1>2. ASSUME NEW r \in Seq(E), NEW e \in E, r \in G PROVE Append(r, e) \in G
  <2>1. ToSet(Append(r, e)) = ToSet(r) \cup {e}
    BY Elements
  <2>2. /\ Kept(Append(r, e), S) = IF e \in S THEN Append(Kept(r, S), e) ELSE Kept(r, S)
        /\ Kept(Append(r, e), T) = IF e \in T THEN Append(Kept(r, T), e) ELSE Kept(r, T)
    BY KeptStep
  <2>3. ASSUME ToSet(Append(r, e)) \cap S = ToSet(Append(r, e)) \cap T
        PROVE  Kept(Append(r, e), S) = Kept(Append(r, e), T)
    <3>1. e \in S <=> e \in T
      BY <2>1, <2>3
    <3>2. \A x \in ToSet(r) : x \in S <=> x \in T
      BY <2>1, <2>3
    <3>3. ToSet(r) \cap S = ToSet(r) \cap T
      BY <3>2
    <3>4. Kept(r, S) = Kept(r, T)
      BY <1>2, <3>3
    <3> QED BY <2>2, <3>1, <3>4
  <2>4. Append(r, e) \in Seq(E)
    OBVIOUS
  <2> QED BY <2>3, <2>4
<1> HIDE DEF G
<1>3. s \in G
  BY <1>1, <1>2, SeqInduct
<1> QED BY <1>3 DEF G
-----------------------------------------------------------------------------
(* The quarantine: the inductive invariant.                                *)

Index == [next : Nat, names : Seq(Names)]
Marked == [name : Names, valid : BOOLEAN]
Row == [id : Nat, file : Paths, name : Names \cup {Null}, repair : BOOLEAN]
FinderPcs == {"idle", "found", "copy", "index", "rename", "log", "remove", "nocopy"}
UserPcs == {"idle", "copy", "index", "rename", "unlink", "check", "delete"}

QuaTypes ==
  /\ viruses \subseteq Paths /\ store \in [Names -> Paths \cup {Null}]
  /\ indexFile # Null => indexFile \in Index
  /\ tmp # Null => tmp \in Index
  /\ mem # Null => mem \in Seq(Marked)
  /\ next \in Nat /\ lastId \in Nat /\ found \in 0 .. MaxFound
  /\ rows \subseteq Row /\ \A r \in rows : r.id \in 1 .. lastId
  /\ foreign \subseteq Paths /\ harm \subseteq Harms
  /\ fpc \in [Finders -> FinderPcs] /\ upc \in UserPcs
  /\ ffile \in [Finders -> Paths \cup {Null}] /\ fname \in [Finders -> Names \cup {Null}]
  /\ \A p \in Finders : /\ fpc[p] # "idle" => ffile[p] \in Paths
                        /\ fpc[p] \in {"copy", "index", "rename"} => fname[p] \in Names
  /\ upc # "idle" => urow \in Row /\ urow.id <= lastId
  /\ upc \in {"copy", "index", "rename", "unlink", "check"} => urow.name \in Names

\* The numbers do not run ahead of the files that were found.
Pending == {p \in Finders : fpc[p] \in {"found", "copy", "index"}}
Numbers ==
  /\ next + Cardinality(Pending) <= found
  /\ indexFile # Null => indexFile.next + Cardinality(Pending) <= found
  /\ tmp # Null => tmp.next + Cardinality(Pending) <= found

\* A row is known by its number.
Ids ==
  /\ \A r, s \in rows : r.id = s.id => r = s
  /\ upc # "idle" => \A r \in rows : r.id = urow.id => r.name = urow.name

Renames == upc = "rename" \/ \E p \in Finders : fpc[p] = "rename"
Sound(x) == IsInjective(x.names) /\ \A i \in 1 .. Len(x.names) : x.names[i] < x.next

\* The index in memory is that of the file, but for its marks, and for its number
\* if it could not be written.
Mirror ==
  /\ indexFile # Null /\ indexFile.next <= next /\ Len(mem) = Len(indexFile.names)
  /\ "index" \notin harm => next = indexFile.next
  /\ \A i \in 1 .. Len(mem) : mem[i].name = indexFile.names[i]

\* As long as no two threads were in the index at a time.
Alone ==
  /\ \A p, q \in Finders :
       fpc[p] \in {"copy", "index", "rename"} /\ fpc[q] \in {"copy", "index", "rename"} => p = q
  /\ upc \in {"copy", "index", "rename", "unlink"} =>
       \A p \in Finders : fpc[p] \notin {"copy", "index", "rename"}
  /\ Renames => tmp # Null /\ indexFile = Null /\ Sound(tmp)
  /\ indexFile # Null => Sound(indexFile)
  /\ ~ Renames /\ mem # Null => Mirror
  /\ \A p \in Finders : fpc[p] \in {"copy", "index"} =>
       fname[p] = next /\ (mem = Null => indexFile = Null /\ next = 0)
  /\ upc \in {"copy", "index"} => mem # Null

\* The names in the index, wherever it is, and the number of the next copy.
CurrentNames ==
  IF Renames THEN ToSet(tmp.names) ELSE IF mem # Null THEN ToSet(Valid(mem))
  ELSE IF indexFile # Null THEN ToSet(indexFile.names) ELSE {}
CurrentNext ==
  IF Renames THEN tmp.next ELSE IF mem # Null THEN next
  ELSE IF indexFile # Null THEN indexFile.next ELSE 0

\* Rows with a copy that the user's command does not work on; finders whose copy
\* is in the index and not yet in a row.
Settled == {r \in rows : r.name # Null /\ ~ (upc # "idle" /\ r.id = urow.id)}
Logging == {p \in Finders : fpc[p] \in {"rename", "log"} /\ fname[p] # Null}

\* What is being restored is no longer in the index.
Out == upc \in {"copy", "index", "rename", "unlink"} => urow.name \notin CurrentNames

\* Nothing was lost by a crash either.
Stale == tmp # Null => Renames

\* The numbers have not started again either: the next copy takes no one's place.
Below ==
  /\ \A r \in Settled : r.name < CurrentNext /\ store[r.name] \in {Null, r.file}
  /\ \A p \in Logging : fname[p] < CurrentNext /\ store[fname[p]] \in {Null, ffile[p]}
  /\ \A p \in Finders : fpc[p] = "index" => store[fname[p]] \in {Null, ffile[p]}

\* Nothing was evicted either: what a row names is in the index, and its own.
Listed ==
  /\ \A r \in Settled : r.name \in CurrentNames
  /\ \A p \in Logging : fname[p] \in CurrentNames
  /\ \A r, s \in Settled : r.name = s.name => r.id = s.id
  /\ \A r \in Settled, p \in Logging : r.name # fname[p]
  /\ \A p, q \in Logging : fname[p] = fname[q] => p = q
  /\ upc \in {"copy", "index", "rename", "unlink"} =>
       /\ \A r \in Settled : r.name # urow.name
       /\ \A p \in Logging : fname[p] # urow.name

\* Nothing of what is known to do harm has happened.
InOrder ==
  /\ \A r \in rows : r.name # Null
  /\ \A r \in Settled : store[r.name] = r.file
  /\ \A p \in Finders : fpc[p] \in {"index", "rename", "log"} =>
       fname[p] # Null /\ store[fname[p]] = ffile[p]
  /\ mem # Null => \A i \in 1 .. Len(mem) :
       mem[i].valid \/ (upc \in {"copy", "index", "rename"} /\ mem[i].name = urow.name)

Without(H) == harm \cap H = {}
QuaInv ==
  /\ QuaTypes /\ Numbers /\ Ids
  /\ "restart" \in harm => "full" \in harm
  /\ Without({"overlap"}) => Alone
  /\ Without({"overlap", "index"}) => Out
  /\ Without({"overlap", "crash"}) => Stale
  /\ Without({"overlap", "crash", "restart", "index"}) => Below
  /\ Without({"overlap", "crash", "full", "index"}) => Listed
  /\ harm = {} => InOrder

\* As long as nobody was overtaken, the copy of a file still to be removed is
\* there and its number taken.
Saved == Without({"overlap", "early", "vanished", "full", "index"}) => \A p \in Finders :
  /\ fpc[p] \in {"index", "rename", "log", "remove"} =>
       fname[p] \in Names /\ store[fname[p]] = ffile[p]
  /\ fpc[p] \in {"rename", "log", "remove"} =>
       fname[p] \in CurrentNames /\ fname[p] < CurrentNext

-----------------------------------------------------------------------------
(* The index.                                                              *)

\* What Valid leaves of an index.
LEMMA ValidIs ==
  ASSUME NEW m, m # Null => m \in Seq(Marked)
  PROVE  /\ Valid(m) \in Seq(Names)
         /\ m = Null => Valid(m) = <<>>
         /\ m # Null => /\ ToSet(Valid(m)) = {m[i].name : i \in {j \in 1 .. Len(m) : m[j].valid}}
                        /\ (\A i, j \in 1 .. Len(m) : m[i].name = m[j].name => i = j)
                             => IsInjective(Valid(m))
<1>1. CASE m = Null
  BY <1>1 DEF Valid
<1>2. CASE m # Null
  <2> DEFINE V == {e \in ToSet(m) : e.valid}
             v == Kept(m, V)
             w == [i \in 1 .. Len(v) |-> v[i].name]
  <2>0. m \in Seq(Marked)
    BY <1>2
  <2>1. /\ \A x : x \in ToSet(m) <=> \E i \in 1 .. Len(m) : m[i] = x
        /\ ToSet(m) \subseteq Marked
    BY <2>0, Elements
  <2>2. /\ v \in Seq(Marked) /\ Len(v) \in Nat /\ ToSet(v) = ToSet(m) \cap V
        /\ IsInjective(m) => IsInjective(v)
    BY <2>0, KeptIs
  <2>3. Valid(m) = w
    BY <1>2 DEF Valid
  <2>4. \A x : x \in V <=> \E i \in 1 .. Len(m) : m[i] = x /\ m[i].valid
    BY <2>1
  <2> HIDE DEF V, v
  <2>5. \A x : x \in ToSet(v) <=> \E i \in 1 .. Len(v) : v[i] = x
    BY <2>2, Elements
  <2>6. w \in Seq(Names) /\ Len(w) = Len(v) /\ \A i \in 1 .. Len(v) : w[i] = v[i].name /\ v[i] \in Marked
    <3>1. \A i \in 1 .. Len(v) : v[i] \in Marked
      BY <2>2
    <3>2. \A i \in 1 .. Len(v) : v[i].name \in Names
      BY <3>1 DEF Marked
    <3> QED BY <2>2, <3>1, <3>2
  <2> HIDE DEF w
  <2>7. \A x : x \in ToSet(w) <=> \E i \in 1 .. Len(w) : w[i] = x
    BY <2>6, Elements
  <2>8. \A x : x \in ToSet(v) <=> \E i \in 1 .. Len(m) : m[i] = x /\ m[i].valid
    BY <2>1, <2>2, <2>4
  <2>9. \A x : x \in ToSet(w) <=> \E i \in 1 .. Len(m) : m[i].valid /\ m[i].name = x
    <3>1. ASSUME NEW x \in ToSet(w) PROVE \E i \in 1 .. Len(m) : m[i].valid /\ m[i].name = x
      <4>1. PICK a \in 1 .. Len(v) : v[a].name = x
        BY <2>6, <2>7
      <4> QED BY <2>5, <2>8, <4>1
    <3>2. ASSUME NEW i \in 1 .. Len(m), m[i].valid PROVE m[i].name \in ToSet(w)
      <4>1. PICK a \in 1 .. Len(v) : v[a] = m[i]
        BY <2>5, <2>8, <3>2
      <4> QED BY <2>6, <2>7, <4>1
    <3> QED BY <3>1, <3>2
  <2>10. ASSUME \A i, j \in 1 .. Len(m) : m[i].name = m[j].name => i = j PROVE IsInjective(w)
    <3>1. IsInjective(m)
      BY <2>0, <2>10 DEF IsInjective
    <3>2. IsInjective(v)
      BY <2>2, <3>1
    <3>3. ASSUME NEW a \in 1 .. Len(v), NEW b \in 1 .. Len(v), w[a] = w[b] PROVE a = b
      <4>1. v[a] \in ToSet(v) /\ v[b] \in ToSet(v)
        BY <2>5
      <4>2. PICK i \in 1 .. Len(m) : m[i] = v[a]
        BY <2>8, <4>1
      <4>3. PICK j \in 1 .. Len(m) : m[j] = v[b]
        BY <2>8, <4>1
      <4>4. m[i].name = m[j].name
        BY <2>6, <3>3, <4>2, <4>3
      <4>5. v[a] = v[b]
        BY <2>10, <4>2, <4>3, <4>4
      <4> QED BY <2>2, <3>2, <4>5 DEF IsInjective
    <3>4. DOMAIN w = 1 .. Len(v)
      BY <2>6
    <3> QED BY <3>3, <3>4 DEF IsInjective
  <2> QED BY <1>2, <2>3, <2>6, <2>9, <2>10
<1> QED BY <1>1, <1>2

\* Where Position finds a name.
LEMMA PositionIs ==
  ASSUME NEW m, m # Null => m \in Seq(Marked), NEW n
  PROVE  /\ Position(m, n) \in Nat
         /\ Position(m, n) # 0 => m # Null /\ Position(m, n) \in 1 .. Len(m) /\ m[Position(m, n)].name = n
         /\ m # Null /\ (\E i \in 1 .. Len(m) : m[i].name = n) => Position(m, n) # 0
<1>1. CASE m = Null
  BY <1>1 DEF Position
<1>2. CASE m # Null
  <2> DEFINE I == {i \in 1 .. Len(m) : m[i].name = n}
  <2>0. m \in Seq(Marked) /\ Len(m) \in Nat
    BY <1>2
  <2>1. Position(m, n) = IF I # {} THEN Min(I) ELSE 0
    BY <1>2 DEF Position, SelectInSeq
  <2>2. I # {} => Min(I) \in I
    <3>1. I \in SUBSET Nat
      BY <2>0
    <3> HIDE DEF I
    <3>2. I # {} => \E x \in I : \A y \in I : x <= y
      BY <3>1, LeastExists
    <3> QED BY <3>2 DEF Min
  <2> QED BY <1>2, <2>0, <2>1, <2>2
<1> QED BY <1>1, <1>2

\* What is read is an index in memory.
LEMMA ReadIs ==
  ASSUME QuaTypes
  PROVE  /\ ReadMem # Null => ReadMem \in Seq(Marked)
         /\ ReadNext \in Nat
         /\ mem # Null => ReadMem = mem /\ ReadNext = next
         /\ mem = Null /\ indexFile = Null => ReadMem = Null /\ ReadNext = 0
         /\ mem = Null /\ indexFile # Null =>
              /\ ReadMem # Null /\ ReadNext = indexFile.next
              /\ Len(ReadMem) = Len(indexFile.names) /\ Len(ReadMem) \in Nat
              /\ \A i \in 1 .. Len(ReadMem) :
                   ReadMem[i] = [name |-> indexFile.names[i], valid |-> TRUE]
<1> DEFINE L == [i \in 1 .. Len(indexFile.names) |-> [name |-> indexFile.names[i], valid |-> TRUE]]
<1>1. CASE mem = Null /\ indexFile # Null
  <2>1. indexFile \in Index
    BY <1>1 DEF QuaTypes
  <2>2. indexFile.next \in Nat /\ indexFile.names \in Seq(Names) /\ Len(indexFile.names) \in Nat
    BY <2>1 DEF Index
  <2>3. /\ L \in Seq(Marked) /\ Len(L) = Len(indexFile.names)
        /\ \A i \in 1 .. Len(L) : L[i] = [name |-> indexFile.names[i], valid |-> TRUE]
    <3>1. \A i \in 1 .. Len(indexFile.names) : indexFile.names[i] \in Names
      BY <2>2
    <3>2. \A i \in 1 .. Len(indexFile.names) : [name |-> indexFile.names[i], valid |-> TRUE] \in Marked
      BY <3>1 DEF Marked
    <3> QED BY <2>2, <3>2
  <2>4. ReadMem = L /\ ReadNext = indexFile.next
    BY <1>1 DEF ReadMem, ReadNext
  <2>5. L # Null
    <3>1. Null \notin Seq([name : Nat, valid : BOOLEAN])
      BY QuarantineConstants
    <3>2. Marked \subseteq [name : Nat, valid : BOOLEAN]
      BY DEF Marked, Names
    <3>3. L \in Seq([name : Nat, valid : BOOLEAN])
      BY <2>3, <3>2, SeqMonotonic
    <3> QED BY <3>1, <3>3
  <2> HIDE DEF L
  <2> QED BY <1>1, <2>2, <2>3, <2>4, <2>5
<1>2. CASE ~ (mem = Null /\ indexFile # Null)
  BY <1>2 DEF QuaTypes, ReadMem, ReadNext
<1> QED BY <1>1, <1>2

EvictIn(m, k) == [i \in 1 .. Len(m) |-> [m[i] EXCEPT !.valid = @ /\ i > k]]
MarkIn(m, j) == [m EXCEPT ![j].valid = FALSE]

\* What BackUpBegin leaves in memory: the first k entries are marked.
LEMMA EvictIs ==
  ASSUME NEW m \in Seq(Marked), NEW k \in Int
  PROVE  LET w == EvictIn(m, k) IN
         /\ w \in Seq(Marked) /\ w # Null /\ Len(w) = Len(m) /\ Len(m) \in Nat
         /\ \A i \in 1 .. Len(m) : w[i].name = m[i].name /\ (w[i].valid <=> m[i].valid /\ i > k)
<1> DEFINE w == EvictIn(m, k)
<1>1. \A i \in 1 .. Len(m) : m[i] \in Marked
  OBVIOUS
<1>2. ASSUME NEW i \in 1 .. Len(m)
      PROVE  /\ [m[i] EXCEPT !.valid = @ /\ i > k] \in Marked
             /\ [m[i] EXCEPT !.valid = @ /\ i > k].name = m[i].name
             /\ [m[i] EXCEPT !.valid = @ /\ i > k].valid = (m[i].valid /\ i > k)
  <2>1. m[i] \in Marked
    BY <1>1
  <2> QED BY <2>1 DEF Marked
<1>3. w \in Seq(Marked) /\ Len(w) = Len(m) /\ Len(m) \in Nat
  BY <1>2 DEF EvictIn
<1>4. w # Null
  <2>1. Null \notin Seq([name : Nat, valid : BOOLEAN])
    BY QuarantineConstants
  <2>2. Marked \subseteq [name : Nat, valid : BOOLEAN]
    BY DEF Marked, Names
  <2>3. w \in Seq([name : Nat, valid : BOOLEAN])
    BY <1>3, <2>2, SeqMonotonic
  <2> QED BY <2>1, <2>3
<1> QED BY <1>2, <1>3, <1>4 DEF EvictIn

\* What RestoreBegin leaves there: one entry is marked.
LEMMA MarkIs ==
  ASSUME NEW m \in Seq(Marked), NEW j \in 1 .. Len(m)
  PROVE  LET w == MarkIn(m, j) IN
         /\ w \in Seq(Marked) /\ w # Null /\ Len(w) = Len(m) /\ Len(m) \in Nat
         /\ \A i \in 1 .. Len(m) : w[i].name = m[i].name /\ (w[i].valid <=> m[i].valid /\ i # j)
<1> DEFINE w == MarkIn(m, j)
<1>1. \A i \in 1 .. Len(m) : m[i] \in Marked
  OBVIOUS
<1>2. /\ [m[j] EXCEPT !.valid = FALSE] \in Marked
      /\ [m[j] EXCEPT !.valid = FALSE].name = m[j].name
      /\ [m[j] EXCEPT !.valid = FALSE].valid = FALSE
  BY <1>1 DEF Marked
<1>3. w \in Seq(Marked) /\ Len(w) = Len(m) /\ Len(m) \in Nat
  BY <1>2 DEF MarkIn
<1>4. w # Null
  <2>1. Null \notin Seq([name : Nat, valid : BOOLEAN])
    BY QuarantineConstants
  <2>2. Marked \subseteq [name : Nat, valid : BOOLEAN]
    BY DEF Marked, Names
  <2>3. w \in Seq([name : Nat, valid : BOOLEAN])
    BY <1>3, <2>2, SeqMonotonic
  <2> QED BY <2>1, <2>3
<1> QED BY <1>1, <1>2, <1>3, <1>4 DEF MarkIn

\* No number read runs ahead of the files that were found.
LEMMA PendingIs ==
  /\ Cardinality(Pending) \in Nat
  /\ QuaTypes /\ Numbers => ReadNext + Cardinality(Pending) <= found /\ ReadNext \in Names
<1>1. IsFiniteSet(Finders) /\ Pending \subseteq Finders
  BY QuarantineConstants DEF Pending
<1>2. Cardinality(Pending) \in Nat
  BY <1>1, FS_Subset, FS_CardinalityType
<1>3. ASSUME QuaTypes, Numbers PROVE ReadNext + Cardinality(Pending) <= found /\ ReadNext \in Names
  <2>1. ReadNext \in Nat /\ found \in 0 .. MaxFound /\ next \in Nat /\ MaxFound \in Nat
    BY <1>3, ReadIs, QuarantineConstants DEF QuaTypes
  <2>2. Cardinality(Pending) <= found
    BY <1>2, <1>3, <2>1 DEF Numbers
  <2>3. ReadNext + Cardinality(Pending) <= found
    BY <1>2, <1>3, <2>2 DEF Numbers, ReadNext
  <2> QED BY <1>2, <2>1, <2>3 DEF Names
<1> QED BY <1>2, <1>3

\* Types are kept.
LEMMA TypesStep ==
  ASSUME QuaTypes, Numbers, [QuaNext]_quaVars
  PROVE  QuaTypes'
<1>1. ASSUME NEW p \in Finders, NEW f \in Paths, Find(p, f) PROVE QuaTypes'
  <2>1. found' \in 0 .. MaxFound
    BY <1>1, QuarantineConstants DEF Find, QuaTypes
  <2>2. fpc' \in [Finders -> FinderPcs] /\ ffile' \in [Finders -> Paths \cup {Null}]
    BY <1>1 DEF Find, Goto, QuaTypes, FinderPcs
  <2>3. \A q \in Finders :
          /\ fpc'[q] # "idle" => ffile'[q] \in Paths
          /\ fpc'[q] \in {"copy", "index", "rename"} => fname'[q] \in Names
    BY <1>1 DEF Find, Goto, QuaTypes, FinderPcs
  <2>4. UNCHANGED <<viruses, store, indexFile, tmp, mem, next, rows, lastId, fname, harm, foreign, upc, urow>>
    BY <1>1 DEF Find, FinderSame, index, table, user
  <2> QED BY <2>1, <2>2, <2>3, <2>4 DEF QuaTypes
<1>2. ASSUME NEW p \in Finders, BackUpMissing(p) PROVE QuaTypes'
  BY <1>2 DEF QuaTypes, FinderPcs, UserPcs, Harms, BackUpMissing, FinderSame, Goto, index,
     table, finder, user, counts
<1>3. ASSUME NEW p \in Finders, BackUpRefused(p) PROVE QuaTypes'
  BY <1>3 DEF QuaTypes, FinderPcs, UserPcs, Harms, BackUpRefused, FinderSame, Goto, index,
     table, finder, user, counts
<1>4. ASSUME NEW p \in Finders, BackUpBegin(p) PROVE QuaTypes'
  <2>1. mem' # Null => mem' \in Seq(Marked)
    <3>1. CASE ReadMem = Null
      BY <1>4, <3>1 DEF BackUpBegin
    <3>2. CASE ReadMem # Null
      <4>1. mem' = EvictIn(ReadMem, Evicted(ReadMem))
        BY <1>4, <3>2 DEF BackUpBegin, EvictIn
      <4>2. ReadMem \in Seq(Marked) /\ Evicted(ReadMem) \in Int
        BY <3>2, ReadIs, QuarantineConstants DEF Evicted
      <4> HIDE DEF ReadMem
      <4> QED BY <4>1, <4>2, EvictIs
    <3> QED BY <3>1, <3>2
  <2>2. next' \in Nat /\ next' \in Names /\ next' = ReadNext
    BY <1>4, ReadIs, PendingIs DEF BackUpBegin
  <2>3. store' \in [Names -> Paths \cup {Null}]
    <3> DEFINE Dropped(n) == \E i \in 1 .. Evicted(ReadMem) : ReadMem[i].name = n
    <3>1. store' = [n \in Names |-> IF Dropped(n) THEN Null ELSE store[n]]
      BY <1>4 DEF BackUpBegin
    <3> HIDE DEF Dropped
    <3> QED BY <3>1 DEF QuaTypes
  <2>4. harm' \subseteq Harms
    BY <1>4 DEF BackUpBegin, QuaTypes, Overlap, Harms
  <2>5. fpc' \in [Finders -> FinderPcs] /\ fname' \in [Finders -> Names \cup {Null}]
    BY <1>4, <2>2 DEF BackUpBegin, Goto, QuaTypes, FinderPcs
  <2>6. \A q \in Finders :
          /\ fpc'[q] # "idle" => ffile'[q] \in Paths
          /\ fpc'[q] \in {"copy", "index", "rename"} => fname'[q] \in Names
    BY <1>4, <2>2 DEF BackUpBegin, Goto, QuaTypes, FinderPcs
  <2>7. UNCHANGED <<viruses, indexFile, tmp, rows, lastId, ffile, found, foreign, upc, urow>>
    BY <1>4 DEF BackUpBegin, FinderSame, table, user
  <2> QED BY <2>1, <2>2, <2>3, <2>4, <2>5, <2>6, <2>7 DEF QuaTypes
<1>5. ASSUME NEW p \in Finders, BackUpCopy(p) PROVE QuaTypes'
  BY <1>5 DEF QuaTypes, FinderPcs, UserPcs, Harms, BackUpCopy, FinderSame, Goto, index,
     table, finder, user, counts
<1>6. ASSUME NEW p \in Finders, BackUpCopyFails(p) PROVE QuaTypes'
  BY <1>6 DEF QuaTypes, FinderPcs, UserPcs, Harms, BackUpCopyFails, FinderSame, Goto, index,
     table, finder, user, counts
<1>7. ASSUME NEW p \in Finders, BackUpIndex(p) PROVE QuaTypes'
  <2>1. fname[p] \in Names /\ Valid(mem) \in Seq(Names)
    BY <1>7, ValidIs DEF BackUpIndex, QuaTypes
  <2>2. Append(Valid(mem), fname[p]) \in Seq(Names)
    BY <2>1
  <2>3. tmp' \in Index /\ next' \in Nat /\ indexFile' = Null /\ (mem' # Null => mem' = mem)
    BY <1>7, <2>2 DEF BackUpIndex, WriteIndex, Written, Index, QuaTypes
  <2> QED BY <1>7, <2>3 DEF BackUpIndex, FinderSame, Goto, QuaTypes, FinderPcs, table, user
<1>8. ASSUME NEW p \in Finders, BackUpRename(p) PROVE QuaTypes'
  BY <1>8 DEF QuaTypes, FinderPcs, UserPcs, Harms, BackUpRename, FinderSame, Goto,
     RenameIndex, index, table, finder, user, counts
<1>9. ASSUME NEW p \in Finders, BackUpLog(p) PROVE QuaTypes'
  <2> DEFINE s == [id |-> lastId + 1, file |-> ffile[p], name |-> fname[p], repair |-> FALSE]
  <2>1. s \in Row /\ s.id = lastId + 1
    BY <1>9 DEF BackUpLog, QuaTypes, Row
  <2>5. lastId \in Nat /\ lastId' = lastId + 1 /\ rows' = rows \cup {s}
    BY <1>9 DEF BackUpLog, QuaTypes
  <2>6. rows \subseteq Row /\ \A r \in rows : r.id \in 1 .. lastId
    BY DEF QuaTypes
  <2> HIDE DEF s
  <2>2. rows' \subseteq Row /\ \A r \in rows' : r.id \in 1 .. lastId'
    BY <2>1, <2>5, <2>6
  <2>3. fpc' \in [Finders -> FinderPcs] /\ lastId' \in Nat
    BY <1>9 DEF BackUpLog, Goto, QuaTypes, FinderPcs
  <2>4. upc' # "idle" => urow' \in Row /\ urow'.id <= lastId'
    BY <1>9 DEF BackUpLog, FinderSame, QuaTypes, user, Row
  <2> QED BY <1>9, <2>2, <2>3, <2>4 DEF BackUpLog, FinderSame, Goto, QuaTypes, FinderPcs,
             index, user
<1>10. ASSUME NEW p \in Finders, RemoveOriginal(p) PROVE QuaTypes'
  BY <1>10 DEF QuaTypes, FinderPcs, UserPcs, Harms, RemoveOriginal, FinderSame, Goto, Done,
     index, table, finder, user, counts
<1>11. ASSUME NEW p \in Finders, GiveUp(p) PROVE QuaTypes'
  BY <1>11 DEF QuaTypes, FinderPcs, UserPcs, Harms, GiveUp, FinderSame, Goto, Done, index,
     table, finder, user, counts
<1>12. ASSUME NEW r \in rows, RestoreRefused(r) PROVE QuaTypes'
  <2>9. urow' = r /\ r \in Row /\ r.id <= lastId' /\ lastId' = lastId
    BY <1>12 DEF RestoreRefused, Command, QuaTypes, table
  <2>1. (mem' # Null => mem' \in Seq(Marked)) /\ next' \in Nat
    BY <1>12, ReadIs DEF RestoreRefused, index, QuaTypes
  <2>2. UNCHANGED <<indexFile, tmp>>
    BY <1>12 DEF RestoreRefused, index
  <2> QED BY <1>12, <2>1, <2>2, <2>9 DEF RestoreRefused, UserSame, QuaTypes, UserPcs,
             finder, table
<1>13. ASSUME NEW r \in rows, RestoreBegin(r) PROVE QuaTypes'
  <2>9. urow' = r /\ r \in Row /\ r.id <= lastId' /\ lastId' = lastId
    BY <1>13 DEF RestoreBegin, Command, QuaTypes, table
  <2>1. mem' # Null => mem' \in Seq(Marked)
    <3>1. ReadMem \in Seq(Marked) /\ Position(ReadMem, r.name) \in 1 .. Len(ReadMem)
      BY <1>13, ReadIs, PositionIs DEF RestoreBegin
    <3>2. mem' = MarkIn(ReadMem, Position(ReadMem, r.name))
      BY <1>13 DEF RestoreBegin, MarkIn
    <3> HIDE DEF ReadMem, Position
    <3> QED BY <3>1, <3>2, MarkIs
  <2>2. next' \in Nat
    BY <1>13, ReadIs DEF RestoreBegin
  <2>3. harm' \subseteq Harms
    BY <1>13 DEF RestoreBegin, QuaTypes, Overlap, Early, Harms
  <2>4. r.name \in Names
    BY <1>13, <2>9 DEF RestoreBegin, Row
  <2> QED BY <1>13, <2>1, <2>2, <2>3, <2>4, <2>9 DEF RestoreBegin, UserSame, QuaTypes,
             UserPcs, finder, table
<1>14. ASSUME NEW r \in rows, Delete(r) PROVE QuaTypes'
  BY <1>14 DEF QuaTypes, FinderPcs, UserPcs, Harms, Delete, UserSame, Command, index, table,
     finder, user, counts
<1>15. CASE RestoreCopy
  BY <1>15 DEF QuaTypes, FinderPcs, UserPcs, Harms, RestoreCopy, UserSame, index, table,
     finder, user, counts
<1>16. CASE RestoreCopyFails
  BY <1>16 DEF QuaTypes, FinderPcs, UserPcs, Harms, RestoreCopyFails, UserSame, index,
     table, finder, user, counts
<1>17. CASE RestoreIndex
  <2>1. Valid(mem) \in Seq(Names)
    BY ValidIs DEF QuaTypes
  <2>2. /\ tmp' # Null => tmp' \in Index
        /\ next' \in Nat /\ indexFile' \in {Null, indexFile} /\ (mem' # Null => mem' = mem)
    BY <1>17, <2>1 DEF RestoreIndex, WriteIndex, WriteIndexFails, Written, Index, QuaTypes
  <2>3. harm' \subseteq Harms
    BY <1>17 DEF RestoreIndex, QuaTypes, Harms
  <2>4. upc' \in {"unlink", "rename"} /\ upc = "index"
    BY <1>17 DEF RestoreIndex
  <2> QED BY <1>17, <2>2, <2>3, <2>4 DEF RestoreIndex, UserSame, QuaTypes, UserPcs, finder,
             table
<1>18. CASE RestoreRename
  BY <1>18 DEF QuaTypes, FinderPcs, UserPcs, Harms, RestoreRename, UserSame, RenameIndex,
     index, table, finder, user, counts
<1>19. CASE RestoreUnlink
  BY <1>19 DEF QuaTypes, FinderPcs, UserPcs, Harms, RestoreUnlink, UserSame, index, table,
     finder, user, counts
<1>20. CASE CheckRight
  BY <1>20 DEF QuaTypes, FinderPcs, UserPcs, Harms, CheckRight, UserSame, NoRow, index,
     table, finder, user, counts
<1>21. CASE CheckWrong
  <2> DEFINE Repair(r) == [r EXCEPT !.repair = @ \/ r.id = urow.id]
  <2>1. \A r \in rows : Repair(r) \in Row /\ Repair(r).id = r.id
    <3>1. \A r \in rows : r \in Row
      BY DEF QuaTypes
    <3> QED BY <3>1 DEF Row
  <2>4. rows' = {Repair(r) : r \in rows} /\ \A r \in rows : r.id \in 1 .. lastId
    BY <1>21 DEF CheckWrong, QuaTypes
  <2> HIDE DEF Repair
  <2>2. rows' \subseteq Row /\ \A r \in rows' : r.id \in 1 .. lastId
    BY <2>1, <2>4
  <2>3. urow.file \in Paths
    BY <1>21 DEF CheckWrong, QuaTypes, Row
  <2> QED BY <1>21, <2>2, <2>3 DEF CheckWrong, UserSame, QuaTypes, UserPcs, index, finder
<1>22. CASE DeleteRow
  BY <1>22 DEF QuaTypes, FinderPcs, UserPcs, Harms, DeleteRow, UserSame, NoRow, index,
     table, finder, user, counts
<1>23. ASSUME NEW r \in rows, Rechown(r) PROVE QuaTypes'
  BY <1>23 DEF QuaTypes, FinderPcs, UserPcs, Harms, Rechown, index, table, finder, user,
     counts
<1>24. CASE DaemonDies
  BY <1>24 DEF QuaTypes, FinderPcs, UserPcs, Harms, DaemonDies, AtRest, index, table,
     finder, user, counts
<1>25. CASE UNCHANGED quaVars
  BY <1>25 DEF QuaTypes, FinderPcs, UserPcs, Harms, quaVars, index, table, finder, user,
     counts
<1>26. ASSUME NEW p \in Finders, BackUpIndexFails(p) PROVE QuaTypes'
  <2>1. /\ mem' # Null => mem' = mem
        /\ tmp' # Null => tmp' = tmp
        /\ next' = next + 1 /\ indexFile' = indexFile /\ harm' = harm \cup {"index"}
        /\ fpc' = [fpc EXCEPT ![p] = "log"] /\ fpc[p] = "index"
        /\ UNCHANGED <<viruses, store, rows, lastId, ffile, fname, found, foreign, upc, urow>>
    BY <1>26 DEF BackUpIndexFails, WriteIndexFails, FinderSame, Goto, table, user
  <2> QED BY <2>1 DEF QuaTypes, FinderPcs, Harms
<1> QED BY <1>1, <1>2, <1>3, <1>4, <1>5, <1>6, <1>7, <1>8, <1>9, <1>10, <1>11, <1>12, <1>13,
           <1>14, <1>15, <1>16, <1>17, <1>18, <1>19, <1>20, <1>21, <1>22, <1>23, <1>24,
           <1>25, <1>26 DEF QuaNext, FinderStep, UserStep

\* Unless a file is found or an index written, the numbers stay behind.
LEMMA FewerPending ==
  ASSUME QuaTypes, Numbers, Pending' \subseteq Pending, found' = found,
         next' \in {0, next, ReadNext}, tmp' # Null => tmp' = tmp \/ tmp'.next = next,
         indexFile' # Null => indexFile' = indexFile \/ (tmp # Null /\ indexFile' = tmp)
  PROVE  Numbers'
<1>1. IsFiniteSet(Pending)
  <2>1. Pending \subseteq Finders
    BY DEF Pending
  <2> QED BY <2>1, QuarantineConstants, FS_Subset
<1>2. Cardinality(Pending') \in Nat /\ Cardinality(Pending') <= Cardinality(Pending)
  BY <1>1, FS_Subset, FS_CardinalityType
<1>3. Cardinality(Pending) \in Nat /\ ReadNext + Cardinality(Pending) <= found /\ ReadNext \in Nat
  BY PendingIs DEF Names
<1>4. /\ next \in Nat /\ found \in Nat
      /\ indexFile # Null => indexFile.next \in Nat
      /\ tmp # Null => tmp.next \in Nat
  BY DEF QuaTypes, Index
<1>5. next' \in Nat /\ next' + Cardinality(Pending') <= found'
  BY <1>2, <1>3, <1>4 DEF Numbers
<1>6. tmp' # Null => tmp'.next + Cardinality(Pending') <= found'
  BY <1>2, <1>3, <1>4 DEF Numbers
<1>7. indexFile' # Null => indexFile'.next + Cardinality(Pending') <= found'
  BY <1>2, <1>3, <1>4 DEF Numbers
<1> QED BY <1>5, <1>6, <1>7 DEF Numbers

\* The numbers stay behind.
LEMMA NumbersStep ==
  ASSUME QuaTypes, Numbers, [QuaNext]_quaVars
  PROVE  Numbers'
<1>1. ASSUME NEW p \in Finders, NEW f \in Paths, Find(p, f) PROVE Numbers'
  <2>1. Pending' \in {Pending, Pending \cup {p}} /\ p \notin Pending
    BY <1>1 DEF Find, Goto, Pending, QuaTypes
  <2>2. /\ Cardinality(Pending) \in Nat
        /\ Cardinality(Pending') \in {Cardinality(Pending), Cardinality(Pending) + 1}
    <3>1. IsFiniteSet(Pending)
      BY QuarantineConstants, FS_Subset DEF Pending
    <3> QED BY <2>1, <3>1, FS_AddElement, FS_CardinalityType
  <2>3. found' = found + 1 /\ UNCHANGED <<next, indexFile, tmp>>
    BY <1>1 DEF Find, index
  <2>4. /\ next \in Nat /\ found \in Nat
        /\ indexFile # Null => indexFile.next \in Nat
        /\ tmp # Null => tmp.next \in Nat
    BY DEF QuaTypes, Index
  <2> QED BY <2>2, <2>3, <2>4 DEF Numbers
<1>2. ASSUME NEW p \in Finders, BackUpMissing(p) PROVE Numbers'
  <2>1. /\ Pending' \subseteq Pending /\ found' = found
        /\ next' \in {0, next, ReadNext} /\ (tmp' # Null => tmp' = tmp \/ tmp'.next = next)
        /\ (indexFile' # Null => indexFile' = indexFile \/ (tmp # Null /\ indexFile' = tmp))
    BY <1>2 DEF Pending, QuaTypes, FinderPcs, BackUpMissing, FinderSame, Goto, index, table,
       finder, user, counts
  <2> QED BY <2>1, FewerPending
<1>3. ASSUME NEW p \in Finders, BackUpRefused(p) PROVE Numbers'
  <2>1. /\ Pending' \subseteq Pending /\ found' = found
        /\ next' \in {0, next, ReadNext} /\ (tmp' # Null => tmp' = tmp \/ tmp'.next = next)
        /\ (indexFile' # Null => indexFile' = indexFile \/ (tmp # Null /\ indexFile' = tmp))
    BY <1>3 DEF Pending, QuaTypes, FinderPcs, BackUpRefused, FinderSame, Goto, index, table,
       finder, user, counts
  <2> QED BY <2>1, FewerPending
<1>4. ASSUME NEW p \in Finders, BackUpBegin(p) PROVE Numbers'
  <2>1. /\ Pending' \subseteq Pending /\ found' = found
        /\ next' \in {0, next, ReadNext} /\ (tmp' # Null => tmp' = tmp \/ tmp'.next = next)
        /\ (indexFile' # Null => indexFile' = indexFile \/ (tmp # Null /\ indexFile' = tmp))
    BY <1>4 DEF Pending, QuaTypes, FinderPcs, BackUpBegin, FinderSame, Goto, Overlap, index,
       table, finder, user, counts
  <2> QED BY <2>1, FewerPending
<1>5. ASSUME NEW p \in Finders, BackUpCopy(p) PROVE Numbers'
  <2>1. /\ Pending' \subseteq Pending /\ found' = found
        /\ next' \in {0, next, ReadNext} /\ (tmp' # Null => tmp' = tmp \/ tmp'.next = next)
        /\ (indexFile' # Null => indexFile' = indexFile \/ (tmp # Null /\ indexFile' = tmp))
    BY <1>5 DEF Pending, QuaTypes, FinderPcs, BackUpCopy, FinderSame, Goto, index, table,
       finder, user, counts
  <2> QED BY <2>1, FewerPending
<1>6. ASSUME NEW p \in Finders, BackUpCopyFails(p) PROVE Numbers'
  <2>1. /\ Pending' \subseteq Pending /\ found' = found
        /\ next' \in {0, next, ReadNext} /\ (tmp' # Null => tmp' = tmp \/ tmp'.next = next)
        /\ (indexFile' # Null => indexFile' = indexFile \/ (tmp # Null /\ indexFile' = tmp))
    BY <1>6 DEF Pending, QuaTypes, FinderPcs, BackUpCopyFails, FinderSame, Goto, index,
       table, finder, user, counts
  <2> QED BY <2>1, FewerPending
<1>7. ASSUME NEW p \in Finders, BackUpIndex(p) PROVE Numbers'
  <2>1. Pending' = Pending \ {p} /\ p \in Pending
    BY <1>7 DEF BackUpIndex, Goto, Pending, QuaTypes
  <2>2. Cardinality(Pending') = Cardinality(Pending) - 1 /\ Cardinality(Pending) \in Nat
    <3>1. IsFiniteSet(Pending)
      BY QuarantineConstants, FS_Subset DEF Pending
    <3> QED BY <2>1, <3>1, FS_RemoveElement, FS_CardinalityType
  <2>3. /\ found' = found /\ next' = next + 1 /\ indexFile' = Null /\ tmp'.next = next + 1
        /\ next \in Nat /\ found \in Nat
    BY <1>7 DEF BackUpIndex, WriteIndex, Written, QuaTypes
  <2> QED BY <2>2, <2>3 DEF Numbers
<1>8. ASSUME NEW p \in Finders, BackUpRename(p) PROVE Numbers'
  <2>1. /\ Pending' \subseteq Pending /\ found' = found
        /\ next' \in {0, next, ReadNext} /\ (tmp' # Null => tmp' = tmp \/ tmp'.next = next)
        /\ (indexFile' # Null => indexFile' = indexFile \/ (tmp # Null /\ indexFile' = tmp))
    BY <1>8 DEF Pending, QuaTypes, FinderPcs, BackUpRename, FinderSame, Goto, RenameIndex,
       index, table, finder, user, counts
  <2> QED BY <2>1, FewerPending
<1>9. ASSUME NEW p \in Finders, BackUpLog(p) PROVE Numbers'
  <2>1. /\ Pending' \subseteq Pending /\ found' = found
        /\ next' \in {0, next, ReadNext} /\ (tmp' # Null => tmp' = tmp \/ tmp'.next = next)
        /\ (indexFile' # Null => indexFile' = indexFile \/ (tmp # Null /\ indexFile' = tmp))
    BY <1>9 DEF Pending, QuaTypes, FinderPcs, BackUpLog, FinderSame, Goto, index, table,
       finder, user, counts
  <2> QED BY <2>1, FewerPending
<1>10. ASSUME NEW p \in Finders, RemoveOriginal(p) PROVE Numbers'
  <2>1. /\ Pending' \subseteq Pending /\ found' = found
        /\ next' \in {0, next, ReadNext} /\ (tmp' # Null => tmp' = tmp \/ tmp'.next = next)
        /\ (indexFile' # Null => indexFile' = indexFile \/ (tmp # Null /\ indexFile' = tmp))
    BY <1>10 DEF Pending, QuaTypes, FinderPcs, RemoveOriginal, FinderSame, Goto, Done,
       index, table, finder, user, counts
  <2> QED BY <2>1, FewerPending
<1>11. ASSUME NEW p \in Finders, GiveUp(p) PROVE Numbers'
  <2>1. /\ Pending' \subseteq Pending /\ found' = found
        /\ next' \in {0, next, ReadNext} /\ (tmp' # Null => tmp' = tmp \/ tmp'.next = next)
        /\ (indexFile' # Null => indexFile' = indexFile \/ (tmp # Null /\ indexFile' = tmp))
    BY <1>11 DEF Pending, QuaTypes, FinderPcs, GiveUp, FinderSame, Goto, Done, index, table,
       finder, user, counts
  <2> QED BY <2>1, FewerPending
<1>12. ASSUME NEW r \in rows, RestoreRefused(r) PROVE Numbers'
  <2>1. /\ Pending' \subseteq Pending /\ found' = found
        /\ next' \in {0, next, ReadNext} /\ (tmp' # Null => tmp' = tmp \/ tmp'.next = next)
        /\ (indexFile' # Null => indexFile' = indexFile \/ (tmp # Null /\ indexFile' = tmp))
    BY <1>12 DEF Pending, QuaTypes, FinderPcs, RestoreRefused, UserSame, Command, index,
       table, finder, user, counts
  <2> QED BY <2>1, FewerPending
<1>13. ASSUME NEW r \in rows, RestoreBegin(r) PROVE Numbers'
  <2>1. /\ Pending' \subseteq Pending /\ found' = found
        /\ next' \in {0, next, ReadNext} /\ (tmp' # Null => tmp' = tmp \/ tmp'.next = next)
        /\ (indexFile' # Null => indexFile' = indexFile \/ (tmp # Null /\ indexFile' = tmp))
    BY <1>13 DEF Pending, QuaTypes, FinderPcs, RestoreBegin, UserSame, Command, Overlap,
       Early, index, table, finder, user, counts
  <2> QED BY <2>1, FewerPending
<1>14. ASSUME NEW r \in rows, Delete(r) PROVE Numbers'
  <2>1. /\ Pending' \subseteq Pending /\ found' = found
        /\ next' \in {0, next, ReadNext} /\ (tmp' # Null => tmp' = tmp \/ tmp'.next = next)
        /\ (indexFile' # Null => indexFile' = indexFile \/ (tmp # Null /\ indexFile' = tmp))
    BY <1>14 DEF Pending, QuaTypes, FinderPcs, Delete, UserSame, Command, index, table,
       finder, user, counts
  <2> QED BY <2>1, FewerPending
<1>15. CASE RestoreCopy
  <2>1. /\ Pending' \subseteq Pending /\ found' = found
        /\ next' \in {0, next, ReadNext} /\ (tmp' # Null => tmp' = tmp \/ tmp'.next = next)
        /\ (indexFile' # Null => indexFile' = indexFile \/ (tmp # Null /\ indexFile' = tmp))
    BY <1>15 DEF Pending, QuaTypes, FinderPcs, RestoreCopy, UserSame, index, table, finder,
       user, counts
  <2> QED BY <2>1, FewerPending
<1>16. CASE RestoreCopyFails
  <2>1. /\ Pending' \subseteq Pending /\ found' = found
        /\ next' \in {0, next, ReadNext} /\ (tmp' # Null => tmp' = tmp \/ tmp'.next = next)
        /\ (indexFile' # Null => indexFile' = indexFile \/ (tmp # Null /\ indexFile' = tmp))
    BY <1>16 DEF Pending, QuaTypes, FinderPcs, RestoreCopyFails, UserSame, index, table,
       finder, user, counts
  <2> QED BY <2>1, FewerPending
<1>17. CASE RestoreIndex
  <2>1. /\ Pending' \subseteq Pending /\ found' = found
        /\ next' \in {0, next, ReadNext} /\ (tmp' # Null => tmp' = tmp \/ tmp'.next = next)
        /\ (indexFile' # Null => indexFile' = indexFile \/ (tmp # Null /\ indexFile' = tmp))
    BY <1>17 DEF Pending, QuaTypes, FinderPcs, RestoreIndex, UserSame, WriteIndex,
       WriteIndexFails, Written, index, table, finder, user, counts
  <2> QED BY <2>1, FewerPending
<1>18. CASE RestoreRename
  <2>1. /\ Pending' \subseteq Pending /\ found' = found
        /\ next' \in {0, next, ReadNext} /\ (tmp' # Null => tmp' = tmp \/ tmp'.next = next)
        /\ (indexFile' # Null => indexFile' = indexFile \/ (tmp # Null /\ indexFile' = tmp))
    BY <1>18 DEF Pending, QuaTypes, FinderPcs, RestoreRename, UserSame, RenameIndex, index,
       table, finder, user, counts
  <2> QED BY <2>1, FewerPending
<1>19. CASE RestoreUnlink
  <2>1. /\ Pending' \subseteq Pending /\ found' = found
        /\ next' \in {0, next, ReadNext} /\ (tmp' # Null => tmp' = tmp \/ tmp'.next = next)
        /\ (indexFile' # Null => indexFile' = indexFile \/ (tmp # Null /\ indexFile' = tmp))
    BY <1>19 DEF Pending, QuaTypes, FinderPcs, RestoreUnlink, UserSame, index, table,
       finder, user, counts
  <2> QED BY <2>1, FewerPending
<1>20. CASE CheckRight
  <2>1. /\ Pending' \subseteq Pending /\ found' = found
        /\ next' \in {0, next, ReadNext} /\ (tmp' # Null => tmp' = tmp \/ tmp'.next = next)
        /\ (indexFile' # Null => indexFile' = indexFile \/ (tmp # Null /\ indexFile' = tmp))
    BY <1>20 DEF Pending, QuaTypes, FinderPcs, CheckRight, UserSame, NoRow, index, table,
       finder, user, counts
  <2> QED BY <2>1, FewerPending
<1>21. CASE CheckWrong
  <2>1. /\ Pending' \subseteq Pending /\ found' = found
        /\ next' \in {0, next, ReadNext} /\ (tmp' # Null => tmp' = tmp \/ tmp'.next = next)
        /\ (indexFile' # Null => indexFile' = indexFile \/ (tmp # Null /\ indexFile' = tmp))
    BY <1>21 DEF Pending, QuaTypes, FinderPcs, CheckWrong, UserSame, index, table, finder,
       user, counts
  <2> QED BY <2>1, FewerPending
<1>22. CASE DeleteRow
  <2>1. /\ Pending' \subseteq Pending /\ found' = found
        /\ next' \in {0, next, ReadNext} /\ (tmp' # Null => tmp' = tmp \/ tmp'.next = next)
        /\ (indexFile' # Null => indexFile' = indexFile \/ (tmp # Null /\ indexFile' = tmp))
    BY <1>22 DEF Pending, QuaTypes, FinderPcs, DeleteRow, UserSame, NoRow, index, table,
       finder, user, counts
  <2> QED BY <2>1, FewerPending
<1>23. ASSUME NEW r \in rows, Rechown(r) PROVE Numbers'
  <2>1. /\ Pending' \subseteq Pending /\ found' = found
        /\ next' \in {0, next, ReadNext} /\ (tmp' # Null => tmp' = tmp \/ tmp'.next = next)
        /\ (indexFile' # Null => indexFile' = indexFile \/ (tmp # Null /\ indexFile' = tmp))
    BY <1>23 DEF Pending, QuaTypes, FinderPcs, Rechown, index, table, finder, user, counts
  <2> QED BY <2>1, FewerPending
<1>24. CASE DaemonDies
  <2>1. /\ Pending' \subseteq Pending /\ found' = found
        /\ next' \in {0, next, ReadNext} /\ (tmp' # Null => tmp' = tmp \/ tmp'.next = next)
        /\ (indexFile' # Null => indexFile' = indexFile \/ (tmp # Null /\ indexFile' = tmp))
    BY <1>24 DEF Pending, QuaTypes, FinderPcs, DaemonDies, AtRest, index, table, finder,
       user, counts
  <2> QED BY <2>1, FewerPending
<1>25. CASE UNCHANGED quaVars
  <2>1. /\ Pending' \subseteq Pending /\ found' = found
        /\ next' \in {0, next, ReadNext} /\ (tmp' # Null => tmp' = tmp \/ tmp'.next = next)
        /\ (indexFile' # Null => indexFile' = indexFile \/ (tmp # Null /\ indexFile' = tmp))
    BY <1>25 DEF Pending, QuaTypes, FinderPcs, quaVars, index, table, finder, user, counts
  <2> QED BY <2>1, FewerPending
<1>26. ASSUME NEW p \in Finders, BackUpIndexFails(p) PROVE Numbers'
  <2>1. Pending' = Pending \ {p} /\ p \in Pending
    BY <1>26 DEF BackUpIndexFails, Goto, Pending, QuaTypes
  <2>2. Cardinality(Pending') = Cardinality(Pending) - 1 /\ Cardinality(Pending) \in Nat
    <3>1. IsFiniteSet(Pending)
      BY QuarantineConstants, FS_Subset DEF Pending
    <3> QED BY <2>1, <3>1, FS_RemoveElement, FS_CardinalityType
  <2>3. /\ found' = found /\ next' = next + 1 /\ indexFile' = indexFile
        /\ tmp' # Null => tmp' = tmp
    BY <1>26 DEF BackUpIndexFails, WriteIndexFails
  <2>4. /\ next \in Nat /\ found \in Nat
        /\ indexFile # Null => indexFile.next \in Nat
        /\ tmp # Null => tmp.next \in Nat
    BY DEF QuaTypes, Index
  <2> QED BY <2>2, <2>3, <2>4 DEF Numbers
<1> QED BY <1>1, <1>2, <1>3, <1>4, <1>5, <1>6, <1>7, <1>8, <1>9, <1>10, <1>11, <1>12, <1>13,
           <1>14, <1>15, <1>16, <1>17, <1>18, <1>19, <1>20, <1>21, <1>22, <1>23, <1>24,
           <1>25, <1>26 DEF QuaNext, FinderStep, UserStep

\* A row stays known by its number.
LEMMA IdsStep ==
  ASSUME QuaTypes, Ids, [QuaNext]_quaVars
  PROVE  Ids'
<1>1. ASSUME NEW p \in Finders, NEW f \in Paths, Find(p, f) PROVE Ids'
  BY <1>1 DEF Ids, Find, FinderSame, Goto, index, table, finder, user, counts
<1>2. ASSUME NEW p \in Finders, BackUpMissing(p) PROVE Ids'
  BY <1>2 DEF Ids, BackUpMissing, FinderSame, Goto, index, table, finder, user, counts
<1>3. ASSUME NEW p \in Finders, BackUpRefused(p) PROVE Ids'
  BY <1>3 DEF Ids, BackUpRefused, FinderSame, Goto, index, table, finder, user, counts
<1>4. ASSUME NEW p \in Finders, BackUpBegin(p) PROVE Ids'
  BY <1>4 DEF Ids, BackUpBegin, FinderSame, Goto, Overlap, index, table, finder, user,
     counts
<1>5. ASSUME NEW p \in Finders, BackUpCopy(p) PROVE Ids'
  BY <1>5 DEF Ids, BackUpCopy, FinderSame, Goto, index, table, finder, user, counts
<1>6. ASSUME NEW p \in Finders, BackUpCopyFails(p) PROVE Ids'
  BY <1>6 DEF Ids, BackUpCopyFails, FinderSame, Goto, index, table, finder, user, counts
<1>7. ASSUME NEW p \in Finders, BackUpIndex(p) PROVE Ids'
  BY <1>7 DEF Ids, BackUpIndex, FinderSame, Goto, WriteIndex, Written, index, table, finder,
     user, counts
<1>8. ASSUME NEW p \in Finders, BackUpRename(p) PROVE Ids'
  BY <1>8 DEF Ids, BackUpRename, FinderSame, Goto, RenameIndex, index, table, finder, user,
     counts
<1>9. ASSUME NEW p \in Finders, BackUpLog(p) PROVE Ids'
  <2> DEFINE s == [id |-> lastId + 1, file |-> ffile[p], name |-> fname[p], repair |-> FALSE]
  <2>1. s.id = lastId + 1 /\ lastId \in Nat
    BY DEF QuaTypes
  <2>2. rows' = rows \cup {s} /\ UNCHANGED <<upc, urow>>
    BY <1>9 DEF BackUpLog, FinderSame, user
  <2>3. (\A r \in rows : r.id \in 1 .. lastId) /\ (upc # "idle" => urow.id <= lastId /\ urow.id \in Nat)
    BY DEF QuaTypes, Row
  <2> HIDE DEF s
  <2> QED BY <2>1, <2>2, <2>3 DEF Ids
<1>10. ASSUME NEW p \in Finders, RemoveOriginal(p) PROVE Ids'
  BY <1>10 DEF Ids, RemoveOriginal, FinderSame, Goto, Done, index, table, finder, user,
     counts
<1>11. ASSUME NEW p \in Finders, GiveUp(p) PROVE Ids'
  BY <1>11 DEF Ids, GiveUp, FinderSame, Goto, Done, index, table, finder, user, counts
<1>12. ASSUME NEW r \in rows, RestoreRefused(r) PROVE Ids'
  BY <1>12 DEF Ids, RestoreRefused, UserSame, Command, index, table, finder, user, counts
<1>13. ASSUME NEW r \in rows, RestoreBegin(r) PROVE Ids'
  BY <1>13 DEF Ids, RestoreBegin, UserSame, Command, Overlap, Early, index, table, finder,
     user, counts
<1>14. ASSUME NEW r \in rows, Delete(r) PROVE Ids'
  BY <1>14 DEF Ids, Delete, UserSame, Command, index, table, finder, user, counts
<1>15. CASE RestoreCopy
  BY <1>15 DEF Ids, RestoreCopy, UserSame, index, table, finder, user, counts
<1>16. CASE RestoreCopyFails
  BY <1>16 DEF Ids, RestoreCopyFails, UserSame, index, table, finder, user, counts
<1>17. CASE RestoreIndex
  BY <1>17 DEF Ids, RestoreIndex, UserSame, table, user
<1>18. CASE RestoreRename
  BY <1>18 DEF Ids, RestoreRename, UserSame, RenameIndex, index, table, finder, user, counts
<1>19. CASE RestoreUnlink
  BY <1>19 DEF Ids, RestoreUnlink, UserSame, index, table, finder, user, counts
<1>20. CASE CheckRight
  BY <1>20 DEF Ids, CheckRight, UserSame, NoRow, index, table, finder, user, counts
<1>21. CASE CheckWrong
  <2> DEFINE Repair(r) == [r EXCEPT !.repair = @ \/ r.id = urow.id]
  <2>1. \A r \in rows : Repair(r).id = r.id /\ Repair(r).name = r.name
    <3>1. \A r \in rows : r \in Row
      BY DEF QuaTypes
    <3> QED BY <3>1 DEF Row
  <2>2. rows' = {Repair(r) : r \in rows} /\ upc # "idle" /\ urow' = urow
    BY <1>21 DEF CheckWrong
  <2>3. \A r, s \in rows : Repair(r).id = Repair(s).id => Repair(r) = Repair(s)
    BY <2>1 DEF Ids
  <2> HIDE DEF Repair
  <2> QED BY <2>1, <2>2, <2>3 DEF Ids
<1>22. CASE DeleteRow
  BY <1>22 DEF Ids, DeleteRow, UserSame, NoRow, index, table, finder, user, counts
<1>23. ASSUME NEW r \in rows, Rechown(r) PROVE Ids'
  BY <1>23 DEF Ids, Rechown, index, table, finder, user, counts
<1>24. CASE DaemonDies
  BY <1>24 DEF Ids, DaemonDies, AtRest, index, table, finder, user, counts
<1>25. CASE UNCHANGED quaVars
  BY <1>25 DEF Ids, quaVars, index, table, finder, user, counts
<1>26. ASSUME NEW p \in Finders, BackUpIndexFails(p) PROVE Ids'
  BY <1>26 DEF Ids, BackUpIndexFails, FinderSame, Goto, table, user
<1> QED BY <1>1, <1>2, <1>3, <1>4, <1>5, <1>6, <1>7, <1>8, <1>9, <1>10, <1>11, <1>12, <1>13,
           <1>14, <1>15, <1>16, <1>17, <1>18, <1>19, <1>20, <1>21, <1>22, <1>23, <1>24,
           <1>25, <1>26 DEF QuaNext, FinderStep, UserStep

\* What is known to do harm is not forgotten.
LEMMA HarmGrows == ASSUME [QuaNext]_quaVars PROVE harm \subseteq harm'
<1>1. ASSUME NEW p \in Finders, FinderStep(p) PROVE harm \subseteq harm'
  BY <1>1 DEF FinderStep, Find, BackUpMissing, BackUpRefused, BackUpBegin, BackUpCopy,
     BackUpCopyFails, BackUpIndex, BackUpIndexFails, BackUpRename, BackUpLog, RemoveOriginal, GiveUp
<1>2. CASE UserStep
  BY <1>2 DEF UserStep, RestoreRefused, RestoreBegin, Delete, RestoreCopy, RestoreCopyFails,
     RestoreIndex, RestoreRename, RestoreUnlink, CheckRight, CheckWrong, DeleteRow
<1>3. CASE DaemonDies
  BY <1>3 DEF DaemonDies
<1>4. CASE \E r \in rows : Rechown(r)
  BY <1>4 DEF Rechown
<1>5. CASE UNCHANGED quaVars
  BY <1>5 DEF quaVars
<1> QED BY <1>1, <1>2, <1>3, <1>4, <1>5 DEF QuaNext

\* Who finds nobody in the index is alone in it.
LEMMA NoOverlap ==
  ASSUME Overlap \subseteq harm', "overlap" \notin harm'
  PROVE  /\ \A p \in Finders : fpc[p] \notin {"copy", "index", "rename"}
         /\ upc \notin {"copy", "index", "rename", "unlink"} /\ ~ Renames
<1>1. InIndex = {}
  BY DEF Overlap
<1> QED BY <1>1 DEF InIndex, Renames

\* What is read mirrors the index file.
LEMMA ReadMirror ==
  ASSUME QuaTypes, Alone, ~ Renames, ReadMem # Null
  PROVE  /\ indexFile # Null /\ Len(ReadMem) = Len(indexFile.names)
         /\ indexFile.next <= ReadNext /\ ("index" \notin harm => ReadNext = indexFile.next)
         /\ \A i \in 1 .. Len(ReadMem) : ReadMem[i].name = indexFile.names[i]
<1>1. CASE mem # Null
  <2>1. ReadMem = mem /\ ReadNext = next
    BY <1>1, ReadIs
  <2>2. Mirror
    BY <1>1 DEF Alone
  <2>3. Len(mem) \in Nat
    BY <1>1 DEF QuaTypes
  <2> HIDE DEF ReadMem, ReadNext
  <2> QED BY <2>1, <2>2, <2>3 DEF Mirror
<1>2. CASE mem = Null
  <2>1. indexFile # Null /\ Len(ReadMem) = Len(indexFile.names) /\ ReadNext = indexFile.next
        /\ ReadNext \in Nat
    BY <1>2, ReadIs
  <2>2. \A i \in 1 .. Len(ReadMem) : ReadMem[i] = [name |-> indexFile.names[i], valid |-> TRUE]
    BY <1>2, <2>1, ReadIs
  <2>3. ASSUME NEW i \in 1 .. Len(ReadMem) PROVE ReadMem[i].name = indexFile.names[i]
    <3>1. ReadMem[i] = [name |-> indexFile.names[i], valid |-> TRUE]
      BY <2>2
    <3> QED BY <3>1
  <2> QED BY <2>1, <2>3
<1> QED BY <1>1, <1>2

\* The valid names are different ones and below the next.
LEMMA ValidSound ==
  ASSUME QuaTypes, Alone, ~ Renames
  PROVE  IsInjective(Valid(mem)) /\ Valid(mem) \in Seq(Names) /\ \A x \in ToSet(Valid(mem)) : x < next
<1>0. Valid(mem) \in Seq(Names)
  BY ValidIs DEF QuaTypes
<1>1. CASE mem = Null
  <2>1. Valid(mem) = <<>>
    BY <1>1, ValidIs
  <2> QED BY <1>0, <2>1 DEF IsInjective, ToSet
<1>2. CASE mem # Null
  <2>1. /\ Mirror /\ Sound(indexFile) /\ mem \in Seq(Marked) /\ indexFile.names \in Seq(Names)
        /\ indexFile.next \in Nat /\ next \in Nat
    BY <1>2 DEF Alone, Mirror, QuaTypes, Index
  <2>2. \A i, j \in 1 .. Len(mem) : mem[i].name = mem[j].name => i = j
    BY <2>1 DEF Mirror, Sound, IsInjective
  <2>3. \A i \in 1 .. Len(mem) : mem[i].name < next
    <3>1. \A i \in 1 .. Len(indexFile.names) : indexFile.names[i] \in Names
      BY <2>1
    <3>2. Names \subseteq Nat
      BY DEF Names
    <3>3. ASSUME NEW i \in 1 .. Len(mem) PROVE mem[i].name < next
      <4>1. /\ i \in 1 .. Len(indexFile.names) /\ mem[i].name = indexFile.names[i]
            /\ indexFile.next <= next
        BY <2>1 DEF Mirror
      <4>2. indexFile.names[i] < indexFile.next /\ indexFile.names[i] \in Nat
        BY <2>1, <3>1, <3>2, <4>1 DEF Sound
      <4> QED BY <2>1, <4>1, <4>2
    <3> QED BY <3>3
  <2>4. ToSet(Valid(mem)) = {mem[i].name : i \in {j \in 1 .. Len(mem) : mem[j].valid}}
    BY <1>2, <2>1, ValidIs
  <2>5. IsInjective(Valid(mem))
    BY <1>2, <2>1, <2>2, ValidIs
  <2> QED BY <1>0, <2>3, <2>4, <2>5
<1> QED BY <1>1, <1>2

\* Nobody overtaken, the index stays in one place.
LEMMA AloneStep ==
  ASSUME QuaTypes, Alone, "overlap" \notin harm', [QuaNext]_quaVars
  PROVE  Alone'
<1>1. ASSUME NEW p \in Finders, NEW f \in Paths, Find(p, f) PROVE Alone'
  BY <1>1 DEF QuaTypes, Alone, Renames, Mirror, Find, FinderSame, Goto, index, table,
     finder, user, counts
<1>2. ASSUME NEW p \in Finders, BackUpMissing(p) PROVE Alone'
  BY <1>2 DEF QuaTypes, Alone, Renames, Mirror, BackUpMissing, FinderSame, Goto, index,
     table, finder, user, counts
<1>3. ASSUME NEW p \in Finders, BackUpRefused(p) PROVE Alone'
  BY <1>3 DEF QuaTypes, Alone, Renames, Mirror, BackUpRefused, FinderSame, Goto, index,
     table, finder, user, counts
<1>4. ASSUME NEW p \in Finders, BackUpBegin(p) PROVE Alone'
  <2>1. Overlap \subseteq harm' /\ UNCHANGED <<indexFile, tmp, upc>>
    BY <1>4 DEF BackUpBegin, FinderSame, user
  <2>2. (\A q \in Finders : fpc[q] \notin {"copy", "index", "rename"})
        /\ upc \notin {"copy", "index", "rename", "unlink"} /\ ~ Renames
    BY <2>1, NoOverlap
  <2>3. /\ fpc[p] = "found" /\ next' = ReadNext
        /\ fpc' = [fpc EXCEPT ![p] = "copy"] /\ fname' = [fname EXCEPT ![p] = ReadNext]
    BY <1>4 DEF BackUpBegin, Goto
  <2>4. fpc' [p] = "copy" /\ fname'[p] = next' /\ \A q \in Finders \ {p} : fpc'[q] = fpc[q]
    BY <2>3 DEF QuaTypes
  <2>5. ~ Renames'
    BY <2>1, <2>2, <2>4 DEF Renames
  <2>6. mem' = Null => ReadMem = Null
    <3>1. CASE ReadMem # Null
      <4>1. mem' = EvictIn(ReadMem, Evicted(ReadMem))
        BY <1>4, <3>1 DEF BackUpBegin, EvictIn
      <4>2. ReadMem \in Seq(Marked) /\ Evicted(ReadMem) \in Int
        BY <3>1, ReadIs, QuarantineConstants DEF Evicted
      <4> HIDE DEF ReadMem
      <4> QED BY <4>1, <4>2, EvictIs
    <3> QED BY <3>1
  <2>7. ReadMem = Null => indexFile = Null /\ ReadNext = 0
    <3>1. mem = Null \/ ReadMem # Null
      BY ReadIs
    <3> QED BY <3>1, ReadIs
  <2>8. mem' # Null => Mirror'
    <3> SUFFICES ASSUME mem' # Null PROVE Mirror'
      OBVIOUS
    <3>1. ReadMem # Null
      BY <1>4 DEF BackUpBegin
    <3>2. mem' = EvictIn(ReadMem, Evicted(ReadMem))
      BY <1>4, <3>1 DEF BackUpBegin, EvictIn
    <3>3. ReadMem \in Seq(Marked) /\ Evicted(ReadMem) \in Int
      BY <3>1, ReadIs, QuarantineConstants DEF Evicted
    <3>4. /\ Len(mem') = Len(ReadMem)
          /\ \A i \in 1 .. Len(ReadMem) : mem'[i].name = ReadMem[i].name
      <4> HIDE DEF ReadMem
      <4> QED BY <3>2, <3>3, EvictIs
    <3>5. /\ indexFile # Null /\ Len(ReadMem) = Len(indexFile.names)
          /\ indexFile.next <= ReadNext /\ ("index" \notin harm => ReadNext = indexFile.next)
          /\ \A i \in 1 .. Len(ReadMem) : ReadMem[i].name = indexFile.names[i]
      BY <2>2, <3>1, ReadMirror
    <3> HIDE DEF ReadMem, ReadNext
    <3> QED BY <2>1, <2>3, <3>4, <3>5, HarmGrows DEF Mirror
  <2>9. indexFile' # Null => Sound(indexFile')
    BY <2>1 DEF Alone
  <2>10. \A q \in Finders : fpc'[q] \in {"copy", "index", "rename"} => q = p
    BY <2>2, <2>4
  <2> HIDE DEF ReadMem, ReadNext
  <2> QED BY <2>1, <2>2, <2>3, <2>4, <2>5, <2>6, <2>7, <2>8, <2>9, <2>10 DEF Alone
<1>5. ASSUME NEW p \in Finders, BackUpCopy(p) PROVE Alone'
  BY <1>5 DEF QuaTypes, Alone, Renames, Mirror, BackUpCopy, FinderSame, Goto, index, table,
     finder, user, counts
<1>6. ASSUME NEW p \in Finders, BackUpCopyFails(p) PROVE Alone'
  BY <1>6 DEF QuaTypes, Alone, Renames, Mirror, BackUpCopyFails, FinderSame, Goto, index,
     table, finder, user, counts
<1>7. ASSUME NEW p \in Finders, BackUpIndex(p) PROVE Alone'
  <2>1. /\ fpc[p] = "index" /\ fpc' = [fpc EXCEPT ![p] = "rename"] /\ UNCHANGED <<fname, upc>>
        /\ tmp' = Written(next + 1, Append(Valid(mem), fname[p])) /\ indexFile' = Null
    BY <1>7 DEF BackUpIndex, WriteIndex, Goto, FinderSame, user
  <2>2. /\ upc \notin {"copy", "index", "rename", "unlink"}
        /\ \A q \in Finders \ {p} : fpc[q] \notin {"copy", "index", "rename"}
        /\ fname[p] = next /\ next \in Nat
    BY <2>1 DEF Alone, QuaTypes
  <2>3. ~ Renames
    BY <2>1, <2>2 DEF Renames
  <2>4. IsInjective(Valid(mem)) /\ Valid(mem) \in Seq(Names) /\ \A x \in ToSet(Valid(mem)) : x < next
    BY <2>3, ValidSound
  <2>5. fname[p] \in Names
    BY <2>1 DEF QuaTypes
  <2> DEFINE v == Valid(mem)
             w == Append(v, fname[p])
  <2>6. /\ w \in Seq(Names) /\ IsInjective(w) /\ ToSet(w) = ToSet(v) \cup {fname[p]}
        /\ \A x : x \in ToSet(w) <=> \E i \in 1 .. Len(w) : w[i] = x
    <3>1. fname[p] \notin ToSet(v)
      BY <2>2, <2>4
    <3>2. w \in Seq(Names)
      BY <2>4, <2>5
    <3>3. v \in Seq(Names) /\ IsInjective(v)
      BY <2>4
    <3> HIDE DEF v
    <3>4. ToSet(w) = ToSet(v) \cup {fname[p]} /\ IsInjective(w)
      BY <2>5, <3>1, <3>3, Elements
    <3> HIDE DEF w
    <3>5. \A x : x \in ToSet(w) <=> \E i \in 1 .. Len(w) : w[i] = x
      BY <3>2, Elements
    <3> QED BY <3>2, <3>4, <3>5
  <2>7. \A x \in ToSet(w) : x < next + 1
    <3>1. \A x \in ToSet(v) : x \in Int /\ x < next
      <4>1. ToSet(v) \subseteq Names
        BY <2>4, Elements
      <4> QED BY <2>4, <4>1 DEF Names
    <3> HIDE DEF v, w
    <3> QED BY <2>2, <2>6, <3>1
  <2> HIDE DEF v, w
  <2>8. Sound(tmp') /\ tmp' # Null
    <3>1. tmp'.next = next + 1 /\ tmp'.names = w
      BY <2>1 DEF Written, w, v
    <3>2. Sound(tmp')
      BY <2>6, <2>7, <3>1 DEF Sound
    <3>3. Null \notin [next : Nat, names : Seq(Nat)]
      BY QuarantineConstants
    <3>4. w \in Seq(Nat)
      <4>1. Names \subseteq Nat
        BY DEF Names
      <4> QED BY <2>6, <4>1, SeqMonotonic
    <3>5. tmp' \in [next : Nat, names : Seq(Nat)]
      BY <2>1, <2>2, <3>4 DEF Written, w, v
    <3> QED BY <3>2, <3>3, <3>5
  <2>9. fpc'[p] = "rename" /\ \A q \in Finders \ {p} : fpc'[q] = fpc[q]
    BY <2>1 DEF QuaTypes
  <2>10. Renames'
    BY <2>9 DEF Renames
  <2>11. \A q \in Finders : fpc'[q] \in {"copy", "index", "rename"} => q = p
    BY <2>2, <2>9
  <2> QED BY <2>1, <2>2, <2>8, <2>9, <2>10, <2>11 DEF Alone
<1>8. ASSUME NEW p \in Finders, BackUpRename(p) PROVE Alone'
  BY <1>8 DEF QuaTypes, Alone, Renames, Mirror, BackUpRename, FinderSame, Goto, RenameIndex,
     index, table, finder, user, counts
<1>9. ASSUME NEW p \in Finders, BackUpLog(p) PROVE Alone'
  BY <1>9 DEF QuaTypes, Alone, Renames, Mirror, BackUpLog, FinderSame, Goto, index, table,
     finder, user, counts
<1>10. ASSUME NEW p \in Finders, RemoveOriginal(p) PROVE Alone'
  BY <1>10 DEF QuaTypes, Alone, Renames, Mirror, RemoveOriginal, FinderSame, Goto, Done,
     index, table, finder, user, counts
<1>11. ASSUME NEW p \in Finders, GiveUp(p) PROVE Alone'
  BY <1>11 DEF QuaTypes, Alone, Renames, Mirror, GiveUp, FinderSame, Goto, Done, index,
     table, finder, user, counts
<1>12. ASSUME NEW r \in rows, RestoreRefused(r) PROVE Alone'
  <2>1. /\ UNCHANGED <<indexFile, tmp, fpc, fname>> /\ upc = "idle" /\ upc' = "delete"
        /\ UNCHANGED <<mem, next>> \/ (mem' = ReadMem /\ next' = ReadNext)
    BY <1>12 DEF RestoreRefused, UserSame, Command, finder, index
  <2>2. Renames' <=> Renames
    BY <2>1 DEF Renames
  <2>3. CASE UNCHANGED <<mem, next>>
    BY <2>1, <2>2, <2>3, HarmGrows DEF Alone, Mirror
  <2>4. CASE mem' = ReadMem /\ next' = ReadNext
    <3>1. ~ Renames' /\ mem' # Null => Mirror'
      <4> SUFFICES ASSUME ~ Renames', mem' # Null PROVE Mirror'
        OBVIOUS
      <4>1. /\ indexFile # Null /\ Len(ReadMem) = Len(indexFile.names)
            /\ indexFile.next <= ReadNext /\ ("index" \notin harm => ReadNext = indexFile.next)
            /\ \A i \in 1 .. Len(ReadMem) : ReadMem[i].name = indexFile.names[i]
        BY <2>2, <2>4, ReadMirror
      <4> HIDE DEF ReadMem, ReadNext
      <4> QED BY <2>1, <2>4, <4>1, HarmGrows DEF Mirror
    <3>2. ASSUME NEW p \in Finders, fpc[p] \in {"copy", "index"}
          PROVE  next' = next /\ (mem' = Null => indexFile = Null /\ next = 0)
      <4>1. mem = Null => indexFile = Null /\ next = 0
        BY <3>2 DEF Alone
      <4>2. mem # Null => ReadMem = mem /\ ReadNext = next
        BY ReadIs
      <4>3. mem = Null => ReadMem = Null /\ ReadNext = 0
        BY <4>1, ReadIs
      <4> HIDE DEF ReadMem, ReadNext
      <4> QED BY <2>4, <4>1, <4>2, <4>3
    <3> HIDE DEF ReadMem, ReadNext
    <3> QED BY <2>1, <2>2, <3>1, <3>2 DEF Alone
  <2> QED BY <2>1, <2>3, <2>4
<1>13. ASSUME NEW r \in rows, RestoreBegin(r) PROVE Alone'
  <2>1. Overlap \subseteq harm' /\ UNCHANGED <<indexFile, tmp, fpc, fname>> /\ upc' = "copy"
    BY <1>13 DEF RestoreBegin, UserSame, finder
  <2>2. (\A q \in Finders : fpc[q] \notin {"copy", "index", "rename"})
        /\ upc \notin {"copy", "index", "rename", "unlink"} /\ ~ Renames
    BY <2>1, NoOverlap
  <2>3. ReadMem # Null /\ ReadMem \in Seq(Marked) /\ Position(ReadMem, r.name) \in 1 .. Len(ReadMem)
    BY <1>13, ReadIs, PositionIs DEF RestoreBegin
  <2>4. mem' = MarkIn(ReadMem, Position(ReadMem, r.name)) /\ next' = ReadNext
    BY <1>13 DEF RestoreBegin, MarkIn
  <2>5. /\ mem' # Null /\ Len(mem') = Len(ReadMem)
        /\ \A i \in 1 .. Len(ReadMem) : mem'[i].name = ReadMem[i].name
    <3> HIDE DEF ReadMem, Position
    <3> QED BY <2>3, <2>4, MarkIs
  <2>6. /\ indexFile # Null /\ Len(ReadMem) = Len(indexFile.names)
        /\ indexFile.next <= ReadNext /\ ("index" \notin harm => ReadNext = indexFile.next)
        /\ \A i \in 1 .. Len(ReadMem) : ReadMem[i].name = indexFile.names[i]
    BY <2>2, <2>3, ReadMirror
  <2>7. Mirror'
    <3> HIDE DEF ReadMem, ReadNext
    <3> QED BY <2>1, <2>4, <2>5, <2>6, HarmGrows DEF Mirror
  <2>8. ~ Renames'
    BY <2>1, <2>2 DEF Renames
  <2>9. indexFile' # Null => Sound(indexFile')
    BY <2>1 DEF Alone
  <2> QED BY <2>1, <2>2, <2>5, <2>7, <2>8, <2>9 DEF Alone
<1>14. ASSUME NEW r \in rows, Delete(r) PROVE Alone'
  BY <1>14 DEF QuaTypes, Alone, Renames, Mirror, Delete, UserSame, Command, index, table,
     finder, user, counts
<1>15. CASE RestoreCopy
  BY <1>15 DEF QuaTypes, Alone, Renames, Mirror, RestoreCopy, UserSame, index, table,
     finder, user, counts
<1>16. CASE RestoreCopyFails
  BY <1>16 DEF QuaTypes, Alone, Renames, Mirror, RestoreCopyFails, UserSame, index, table,
     finder, user, counts
<1>17. CASE RestoreIndex
  <2>1. /\ upc = "index" /\ UNCHANGED <<fpc, fname>>
        /\ indexFile' = Null \/ (indexFile' = indexFile /\ upc' = "unlink")
    BY <1>17 DEF RestoreIndex, WriteIndex, WriteIndexFails, UserSame, finder
  <2>2. (\A q \in Finders : fpc[q] \notin {"copy", "index", "rename"}) /\ mem # Null /\ ~ Renames
    BY <2>1 DEF Alone, Renames
  <2>3. CASE upc' = "unlink"
    <3>1. mem' # Null =>
            mem' = mem /\ next' = next /\ indexFile' = indexFile /\ "index" \in harm'
      BY <1>17, <2>3 DEF RestoreIndex, WriteIndexFails
    <3>2. ~ Renames'
      BY <2>1, <2>2, <2>3 DEF Renames
    <3>3. mem' # Null => Mirror'
      BY <2>2, <3>1 DEF Alone, Mirror
    <3> QED BY <2>1, <2>2, <2>3, <3>2, <3>3 DEF Alone
  <2>4. CASE upc' = "rename"
    <3>1. tmp' = Written(next, Valid(mem)) /\ indexFile' = Null
      BY <1>17, <2>4 DEF RestoreIndex, WriteIndex
    <3>2. IsInjective(Valid(mem)) /\ Valid(mem) \in Seq(Names) /\ \A x \in ToSet(Valid(mem)) : x < next
      BY <2>2, ValidSound
    <3> DEFINE v == Valid(mem)
    <3>3. \A x : x \in ToSet(v) <=> \E i \in 1 .. Len(v) : v[i] = x
      BY <3>2, Elements
    <3> HIDE DEF v
    <3>4. tmp'.next = next /\ tmp'.names = v
      BY <3>1 DEF Written, v
    <3>5. Sound(tmp')
      BY <3>2, <3>3, <3>4 DEF Sound, v
    <3>6. tmp' # Null
      <4>1. Null \notin [next : Nat, names : Seq(Nat)]
        BY QuarantineConstants
      <4>2. Valid(mem) \in Seq(Nat)
        <5>1. Names \subseteq Nat
          BY DEF Names
        <5> QED BY <3>2, <5>1, SeqMonotonic
      <4>3. tmp' \in [next : Nat, names : Seq(Nat)]
        BY <3>1, <4>2 DEF Written, QuaTypes
      <4> QED BY <4>1, <4>3
    <3>7. Renames'
      BY <2>4 DEF Renames
    <3> QED BY <2>1, <2>2, <2>4, <3>1, <3>5, <3>6, <3>7 DEF Alone
  <2> QED BY <1>17, <2>3, <2>4 DEF RestoreIndex
<1>18. CASE RestoreRename
  BY <1>18 DEF QuaTypes, Alone, Renames, Mirror, RestoreRename, UserSame, RenameIndex,
     index, table, finder, user, counts
<1>19. CASE RestoreUnlink
  BY <1>19 DEF QuaTypes, Alone, Renames, Mirror, RestoreUnlink, UserSame, index, table,
     finder, user, counts
<1>20. CASE CheckRight
  BY <1>20 DEF QuaTypes, Alone, Renames, Mirror, CheckRight, UserSame, NoRow, index, table,
     finder, user, counts
<1>21. CASE CheckWrong
  BY <1>21 DEF QuaTypes, Alone, Renames, Mirror, CheckWrong, UserSame, index, table, finder,
     user, counts
<1>22. CASE DeleteRow
  BY <1>22 DEF QuaTypes, Alone, Renames, Mirror, DeleteRow, UserSame, NoRow, index, table,
     finder, user, counts
<1>23. ASSUME NEW r \in rows, Rechown(r) PROVE Alone'
  BY <1>23 DEF QuaTypes, Alone, Renames, Mirror, Rechown, index, table, finder, user, counts
<1>24. CASE DaemonDies
  BY <1>24 DEF QuaTypes, Alone, Renames, Mirror, DaemonDies, AtRest, index, table, finder,
     user, counts
<1>25. CASE UNCHANGED quaVars
  BY <1>25 DEF QuaTypes, Alone, Renames, Mirror, quaVars, index, table, finder, user, counts
<1>26. ASSUME NEW p \in Finders, BackUpIndexFails(p) PROVE Alone'
  <2>1. /\ fpc[p] = "index" /\ fpc' = [fpc EXCEPT ![p] = "log"] /\ UNCHANGED <<fname, upc>>
        /\ indexFile' = indexFile /\ next' = next + 1 /\ (mem' # Null => mem' = mem)
        /\ "index" \in harm'
    BY <1>26 DEF BackUpIndexFails, WriteIndexFails, Goto, FinderSame, user
  <2>2. /\ upc \notin {"copy", "index", "rename", "unlink"}
        /\ \A q \in Finders : fpc'[q] \notin {"copy", "index", "rename"}
        /\ ~ Renames
    BY <2>1 DEF Alone, Renames, QuaTypes
  <2>3. ~ Renames'
    BY <2>1, <2>2 DEF Renames
  <2>4. mem' # Null => Mirror'
    BY <2>1, <2>2 DEF Alone, Mirror, QuaTypes, Index
  <2> QED BY <2>1, <2>2, <2>3, <2>4 DEF Alone
<1> QED BY <1>1, <1>2, <1>3, <1>4, <1>5, <1>6, <1>7, <1>8, <1>9, <1>10, <1>11, <1>12, <1>13,
           <1>14, <1>15, <1>16, <1>17, <1>18, <1>19, <1>20, <1>21, <1>22, <1>23, <1>24,
           <1>25, <1>26 DEF QuaNext, FinderStep, UserStep

\* The index as it is read.
LEMMA ReadCurrent ==
  ASSUME QuaTypes, ~ Renames
  PROVE  /\ ToSet(Valid(ReadMem)) = CurrentNames /\ ReadNext \in Nat
         /\ mem # Null \/ indexFile # Null => ReadNext = CurrentNext
<1>0. ReadNext \in Nat /\ (ReadMem # Null => ReadMem \in Seq(Marked))
  BY ReadIs
<1>1. CASE mem # Null
  <2>1. ReadMem = mem /\ ReadNext = next
    BY <1>1, ReadIs
  <2> QED BY <1>0, <1>1, <2>1 DEF CurrentNames, CurrentNext
<1>2. CASE mem = Null /\ indexFile = Null
  <2>1. ReadMem = Null
    BY <1>2, ReadIs
  <2>2. Valid(ReadMem) = <<>>
    BY <2>1, ValidIs
  <2> QED BY <1>0, <1>2, <2>2 DEF CurrentNames, ToSet
<1>3. CASE mem = Null /\ indexFile # Null
  <2>1. /\ ReadMem # Null /\ ReadNext = indexFile.next
        /\ Len(ReadMem) = Len(indexFile.names) /\ Len(ReadMem) \in Nat
        /\ \A i \in 1 .. Len(ReadMem) : ReadMem[i] = [name |-> indexFile.names[i], valid |-> TRUE]
    BY <1>3, ReadIs
  <2>2. \A i \in 1 .. Len(ReadMem) : ReadMem[i].valid /\ ReadMem[i].name = indexFile.names[i]
    <3>1. ASSUME NEW i \in 1 .. Len(ReadMem) PROVE ReadMem[i].valid /\ ReadMem[i].name = indexFile.names[i]
      <4>1. ReadMem[i] = [name |-> indexFile.names[i], valid |-> TRUE]
        BY <2>1
      <4> QED BY <4>1
    <3> QED BY <3>1
  <2>3. indexFile.names \in Seq(Names)
    BY <1>3 DEF QuaTypes, Index
  <2>4. \A x : x \in ToSet(indexFile.names) <=> \E i \in 1 .. Len(indexFile.names) : indexFile.names[i] = x
    BY <2>3, Elements
  <2>5. ToSet(Valid(ReadMem)) = {ReadMem[i].name : i \in {j \in 1 .. Len(ReadMem) : ReadMem[j].valid}}
    BY <1>0, <2>1, ValidIs
  <2>6. ToSet(Valid(ReadMem)) = ToSet(indexFile.names)
    BY <2>1, <2>2, <2>4, <2>5
  <2> QED BY <1>0, <1>3, <2>1, <2>6 DEF CurrentNames, CurrentNext
<1> QED BY <1>1, <1>2, <1>3

\* What the index is counted up to.
LEMMA CurrentIs == ASSUME QuaTypes, Alone PROVE CurrentNext \in Nat /\ CurrentNames \subseteq Names
<1>1. CurrentNext \in Nat
  BY DEF QuaTypes, Alone, CurrentNext, Index
<1>2. CASE Renames
  <2>1. tmp.names \in Seq(Names)
    BY <1>2 DEF Alone, QuaTypes, Index
  <2> QED BY <1>1, <1>2, <2>1, Elements DEF CurrentNames
<1>3. CASE ~ Renames
  <2>1. CurrentNames = ToSet(Valid(ReadMem))
    BY <1>3, ReadCurrent
  <2>2. Valid(ReadMem) \in Seq(Names)
    BY ReadIs, ValidIs
  <2> QED BY <1>1, <2>1, <2>2, Elements
<1> QED BY <1>2, <1>3

\* Whoever makes a copy has read the index.
LEMMA CopyNext ==
  ASSUME QuaTypes, Alone, NEW p \in Finders, fpc[p] \in {"copy", "index"}
  PROVE  ~ Renames /\ CurrentNext = next /\ fname[p] = next /\ CurrentNames = ToSet(Valid(mem))
<1>1. ~ Renames
  BY DEF Alone, Renames
<1>2. fname[p] = next /\ (mem = Null => indexFile = Null /\ next = 0)
  BY DEF Alone
<1>3. CurrentNext = next
  BY <1>1, <1>2 DEF CurrentNext
<1>4. ReadMem = mem
  BY <1>2, ReadIs
<1> QED BY <1>1, <1>2, <1>3, <1>4, ReadCurrent

\* Its copy comes into the index.
LEMMA IndexCurrent ==
  ASSUME QuaTypes, Alone, NEW p \in Finders, BackUpIndex(p)
  PROVE  /\ CurrentNext = next /\ fname[p] = next /\ next \in Nat /\ CurrentNext' = next + 1
         /\ CurrentNames' = CurrentNames \cup {next}
<1>1. /\ fpc[p] = "index" /\ fpc' = [fpc EXCEPT ![p] = "rename"]
      /\ tmp' = Written(next + 1, Append(Valid(mem), fname[p]))
  BY DEF BackUpIndex, WriteIndex, Goto
<1>2. CurrentNext = next /\ fname[p] = next /\ CurrentNames = ToSet(Valid(mem))
  BY <1>1, CopyNext
<1>3. Renames'
  BY <1>1 DEF Renames, QuaTypes
<1>4. CurrentNext' = next + 1 /\ CurrentNames' = ToSet(Append(Valid(mem), fname[p]))
  BY <1>1, <1>3 DEF CurrentNext, CurrentNames, Written
<1>5. Valid(mem) \in Seq(Names) /\ fname[p] \in Names /\ next \in Nat
  BY <1>1, ValidIs DEF QuaTypes
<1>6. ToSet(Append(Valid(mem), fname[p])) = ToSet(Valid(mem)) \cup {fname[p]}
  BY <1>5, Elements
<1> QED BY <1>2, <1>4, <1>5, <1>6

NextKept == CurrentNext <= CurrentNext' \/ (upc = "index" /\ upc' = "unlink" /\ CurrentNames = {})
NamesKept ==
  \/ CurrentNames \subseteq CurrentNames'
  \/ "full" \in harm'
  \/ upc = "idle" /\ upc' = "copy" /\ CurrentNames \ {urow'.name} \subseteq CurrentNames'
OutKept ==
  \/ CurrentNames' \subseteq CurrentNames
  \/ upc' = "idle"
  \/ \E p \in Finders : fpc[p] = "index"
CurrentKept == NextKept /\ NamesKept /\ OutKept

\* How the index changes.
LEMMA CurrentStep ==
  ASSUME QuaTypes, Alone, "overlap" \notin harm', "index" \notin harm', DaemonDies => AtRest,
         [QuaNext]_quaVars
  PROVE  CurrentKept
<1>1. ASSUME NEW p \in Finders, NEW f \in Paths, Find(p, f) PROVE CurrentKept
  <2>1. CurrentNext' = CurrentNext /\ CurrentNames' = CurrentNames
    BY <1>1 DEF CurrentNext, CurrentNames, Renames, QuaTypes, Find, FinderSame, Goto, index,
       table, finder, user, counts
  <2>2. CurrentNext \in Nat
    BY CurrentIs
  <2> QED BY <2>1, <2>2 DEF CurrentKept, NextKept, NamesKept, OutKept
<1>2. ASSUME NEW p \in Finders, BackUpMissing(p) PROVE CurrentKept
  <2>1. CurrentNext' = CurrentNext /\ CurrentNames' = CurrentNames
    BY <1>2 DEF CurrentNext, CurrentNames, Renames, QuaTypes, BackUpMissing, FinderSame,
       Goto, index, table, finder, user, counts
  <2>2. CurrentNext \in Nat
    BY CurrentIs
  <2> QED BY <2>1, <2>2 DEF CurrentKept, NextKept, NamesKept, OutKept
<1>3. ASSUME NEW p \in Finders, BackUpRefused(p) PROVE CurrentKept
  <2>1. CurrentNext' = CurrentNext /\ CurrentNames' = CurrentNames
    BY <1>3 DEF CurrentNext, CurrentNames, Renames, QuaTypes, BackUpRefused, FinderSame,
       Goto, index, table, finder, user, counts
  <2>2. CurrentNext \in Nat
    BY CurrentIs
  <2> QED BY <2>1, <2>2 DEF CurrentKept, NextKept, NamesKept, OutKept
<1>4. ASSUME NEW p \in Finders, BackUpBegin(p) PROVE CurrentKept
  <2>1. Overlap \subseteq harm' /\ UNCHANGED <<indexFile, tmp, upc>>
    BY <1>4 DEF BackUpBegin, FinderSame, user
  <2>2. ~ Renames
    BY <2>1, NoOverlap
  <2>3. fpc' = [fpc EXCEPT ![p] = "copy"] /\ fpc[p] = "found"
    BY <1>4 DEF BackUpBegin, Goto
  <2>4. ~ Renames'
    BY <2>1, <2>2, <2>3 DEF Renames, QuaTypes
  <2>5. ToSet(Valid(ReadMem)) = CurrentNames /\ ReadNext \in Nat
    BY <2>2, ReadCurrent
  <2>6. CASE ReadMem = Null
    <3>1. mem' = Null /\ mem = Null /\ indexFile = Null
      <4>1. mem' = Null
        BY <1>4, <2>6 DEF BackUpBegin
      <4> QED BY <2>6, <4>1, ReadIs
    <3>2. CurrentNames' = {} /\ CurrentNext' = 0 /\ CurrentNames = {} /\ CurrentNext = 0
      BY <2>1, <2>2, <2>4, <3>1 DEF CurrentNames, CurrentNext
    <3> QED BY <3>2 DEF CurrentKept, NextKept, NamesKept, OutKept
  <2>7. CASE ReadMem # Null
    <3>1. mem # Null \/ indexFile # Null
      BY <2>7, ReadIs
    <3>2. ReadNext = CurrentNext
      BY <2>2, <3>1, ReadCurrent
    <3>3. mem' = EvictIn(ReadMem, Evicted(ReadMem)) /\ next' = ReadNext
      BY <1>4, <2>7 DEF BackUpBegin, EvictIn
    <3>4. ReadMem \in Seq(Marked) /\ Evicted(ReadMem) \in Int
      BY <2>7, ReadIs, QuarantineConstants DEF Evicted
    <3>5. /\ mem' \in Seq(Marked) /\ mem' # Null /\ Len(mem') = Len(ReadMem) /\ Len(ReadMem) \in Nat
          /\ \A i \in 1 .. Len(ReadMem) : mem'[i].name = ReadMem[i].name
          /\ \A i \in 1 .. Len(ReadMem) : mem'[i].valid <=> ReadMem[i].valid /\ i > Evicted(ReadMem)
      <4> HIDE DEF ReadMem, Evicted
      <4> QED BY <3>3, <3>4, EvictIs
    <3>6. CurrentNext' = ReadNext /\ CurrentNames' = ToSet(Valid(mem'))
      BY <2>4, <3>3, <3>5 DEF CurrentNext, CurrentNames
    <3>7. ToSet(Valid(mem')) = {mem'[i].name : i \in {j \in 1 .. Len(mem') : mem'[j].valid}}
      BY <3>5, ValidIs
    <3>8. ToSet(Valid(ReadMem)) = {ReadMem[i].name : i \in {j \in 1 .. Len(ReadMem) : ReadMem[j].valid}}
      BY <2>7, <3>4, ValidIs
    <3>9. CurrentNames' \subseteq CurrentNames
      BY <2>5, <3>5, <3>6, <3>7, <3>8
    <3>10. Evicted(ReadMem) > 0 => "full" \in harm'
      BY <1>4 DEF BackUpBegin
    <3>11. ~ Evicted(ReadMem) > 0 => CurrentNames \subseteq CurrentNames'
      BY <2>5, <3>4, <3>5, <3>6, <3>7, <3>8
    <3> QED BY <2>5, <3>2, <3>6, <3>9, <3>10, <3>11 DEF CurrentKept, NextKept, NamesKept,
               OutKept
  <2> QED BY <2>6, <2>7
<1>5. ASSUME NEW p \in Finders, BackUpCopy(p) PROVE CurrentKept
  <2>1. CurrentNext' = CurrentNext /\ CurrentNames' = CurrentNames
    BY <1>5 DEF CurrentNext, CurrentNames, Renames, QuaTypes, BackUpCopy, FinderSame, Goto,
       index, table, finder, user, counts
  <2>2. CurrentNext \in Nat
    BY CurrentIs
  <2> QED BY <2>1, <2>2 DEF CurrentKept, NextKept, NamesKept, OutKept
<1>6. ASSUME NEW p \in Finders, BackUpCopyFails(p) PROVE CurrentKept
  <2>1. CurrentNext' = CurrentNext /\ CurrentNames' = CurrentNames
    BY <1>6 DEF CurrentNext, CurrentNames, Renames, QuaTypes, BackUpCopyFails, FinderSame,
       Goto, index, table, finder, user, counts
  <2>2. CurrentNext \in Nat
    BY CurrentIs
  <2> QED BY <2>1, <2>2 DEF CurrentKept, NextKept, NamesKept, OutKept
<1>7. ASSUME NEW p \in Finders, BackUpIndex(p) PROVE CurrentKept
  <2>1. /\ CurrentNext = next /\ next \in Nat /\ CurrentNext' = next + 1
        /\ CurrentNames \subseteq CurrentNames'
    BY <1>7, IndexCurrent
  <2>2. fpc[p] = "index"
    BY <1>7 DEF BackUpIndex
  <2> QED BY <2>1, <2>2 DEF CurrentKept, NextKept, NamesKept, OutKept
<1>8. ASSUME NEW p \in Finders, BackUpRename(p) PROVE CurrentKept
  <2>1. Renames /\ tmp # Null /\ indexFile' = tmp /\ mem' = Null
    BY <1>8 DEF BackUpRename, RenameIndex, Renames, Alone
  <2>2. ~ Renames'
    BY <1>8 DEF BackUpRename, Goto, FinderSame, user, Alone, Renames, QuaTypes
  <2>3. CurrentNext' = CurrentNext /\ CurrentNames' = CurrentNames
    BY <2>1, <2>2 DEF CurrentNext, CurrentNames
  <2>4. CurrentNext \in Nat
    BY CurrentIs
  <2> QED BY <2>3, <2>4 DEF CurrentKept, NextKept, NamesKept, OutKept
<1>9. ASSUME NEW p \in Finders, BackUpLog(p) PROVE CurrentKept
  <2>1. CurrentNext' = CurrentNext /\ CurrentNames' = CurrentNames
    BY <1>9 DEF CurrentNext, CurrentNames, Renames, QuaTypes, BackUpLog, FinderSame, Goto,
       index, table, finder, user, counts
  <2>2. CurrentNext \in Nat
    BY CurrentIs
  <2> QED BY <2>1, <2>2 DEF CurrentKept, NextKept, NamesKept, OutKept
<1>10. ASSUME NEW p \in Finders, RemoveOriginal(p) PROVE CurrentKept
  <2>1. CurrentNext' = CurrentNext /\ CurrentNames' = CurrentNames
    BY <1>10 DEF CurrentNext, CurrentNames, Renames, QuaTypes, RemoveOriginal, FinderSame,
       Goto, Done, index, table, finder, user, counts
  <2>2. CurrentNext \in Nat
    BY CurrentIs
  <2> QED BY <2>1, <2>2 DEF CurrentKept, NextKept, NamesKept, OutKept
<1>11. ASSUME NEW p \in Finders, GiveUp(p) PROVE CurrentKept
  <2>1. CurrentNext' = CurrentNext /\ CurrentNames' = CurrentNames
    BY <1>11 DEF CurrentNext, CurrentNames, Renames, QuaTypes, GiveUp, FinderSame, Goto,
       Done, index, table, finder, user, counts
  <2>2. CurrentNext \in Nat
    BY CurrentIs
  <2> QED BY <2>1, <2>2 DEF CurrentKept, NextKept, NamesKept, OutKept
<1>12. ASSUME NEW r \in rows, RestoreRefused(r) PROVE CurrentKept
  <2>1. /\ UNCHANGED <<indexFile, tmp, fpc>> /\ upc = "idle" /\ upc' = "delete"
        /\ UNCHANGED <<mem, next>> \/ (mem' = ReadMem /\ next' = ReadNext)
    BY <1>12 DEF RestoreRefused, UserSame, Command, finder, index
  <2>2. Renames' <=> Renames
    BY <2>1 DEF Renames
  <2>3. CurrentNext' = CurrentNext /\ CurrentNames' = CurrentNames
    <3>1. CASE Renames \/ UNCHANGED <<mem, next>>
      BY <2>1, <2>2, <3>1 DEF CurrentNext, CurrentNames
    <3>2. CASE ~ Renames /\ mem' = ReadMem /\ next' = ReadNext
      <4>1. ToSet(Valid(ReadMem)) = CurrentNames /\ (mem # Null \/ indexFile # Null => ReadNext = CurrentNext)
        BY <3>2, ReadCurrent
      <4>2. CASE mem = Null /\ indexFile = Null
        <5>1. mem' = Null
          BY <3>2, <4>2, ReadIs
        <5> QED BY <2>1, <2>2, <3>2, <4>2, <5>1 DEF CurrentNext, CurrentNames
      <4>3. CASE mem # Null \/ indexFile # Null
        <5>1. mem' # Null
          BY <3>2, <4>3, ReadIs
        <5> QED BY <2>2, <3>2, <4>1, <4>3, <5>1 DEF CurrentNext, CurrentNames
      <4> QED BY <4>2, <4>3
    <3> QED BY <2>1, <3>1, <3>2
  <2>4. CurrentNext \in Nat
    BY CurrentIs
  <2> QED BY <2>3, <2>4 DEF CurrentKept, NextKept, NamesKept, OutKept
<1>13. ASSUME NEW r \in rows, RestoreBegin(r) PROVE CurrentKept
  <2>1. /\ Overlap \subseteq harm' /\ UNCHANGED <<indexFile, tmp, fpc>>
        /\ upc = "idle" /\ upc' = "copy" /\ urow' = r
    BY <1>13 DEF RestoreBegin, Command, UserSame, finder
  <2>2. ~ Renames
    BY <2>1, NoOverlap
  <2>3. ~ Renames'
    BY <2>1, <2>2 DEF Renames
  <2>4. ReadMem # Null /\ ReadMem \in Seq(Marked) /\ Position(ReadMem, r.name) \in 1 .. Len(ReadMem)
        /\ ReadMem[Position(ReadMem, r.name)].name = r.name
    BY <1>13, ReadIs, PositionIs DEF RestoreBegin
  <2>5. mem # Null \/ indexFile # Null
    BY <2>4, ReadIs
  <2>6. ToSet(Valid(ReadMem)) = CurrentNames /\ ReadNext = CurrentNext /\ ReadNext \in Nat
    BY <2>2, <2>5, ReadCurrent
  <2>7. mem' = MarkIn(ReadMem, Position(ReadMem, r.name)) /\ next' = ReadNext
    BY <1>13 DEF RestoreBegin, MarkIn
  <2>8. /\ mem' \in Seq(Marked) /\ mem' # Null /\ Len(mem') = Len(ReadMem) /\ Len(ReadMem) \in Nat
        /\ \A i \in 1 .. Len(ReadMem) : mem'[i].name = ReadMem[i].name
        /\ \A i \in 1 .. Len(ReadMem) : mem'[i].valid <=> ReadMem[i].valid /\ i # Position(ReadMem, r.name)
    <3> HIDE DEF ReadMem, Position
    <3> QED BY <2>4, <2>7, MarkIs
  <2>9. CurrentNext' = ReadNext /\ CurrentNames' = ToSet(Valid(mem'))
    BY <2>3, <2>7, <2>8 DEF CurrentNext, CurrentNames
  <2>10. ToSet(Valid(mem')) = {mem'[i].name : i \in {j \in 1 .. Len(mem') : mem'[j].valid}}
    BY <2>8, ValidIs
  <2>11. ToSet(Valid(ReadMem)) = {ReadMem[i].name : i \in {j \in 1 .. Len(ReadMem) : ReadMem[j].valid}}
    BY <2>4, ValidIs
  <2>12. CurrentNames' \subseteq CurrentNames
    BY <2>6, <2>8, <2>9, <2>10, <2>11
  <2>13. CurrentNames \ {r.name} \subseteq CurrentNames'
    BY <2>4, <2>6, <2>8, <2>9, <2>10, <2>11
  <2> QED BY <2>1, <2>6, <2>9, <2>12, <2>13 DEF CurrentKept, NextKept, NamesKept, OutKept
<1>14. ASSUME NEW r \in rows, Delete(r) PROVE CurrentKept
  <2>1. CurrentNext' = CurrentNext /\ CurrentNames' = CurrentNames
    BY <1>14 DEF CurrentNext, CurrentNames, Renames, QuaTypes, Delete, UserSame, Command,
       index, table, finder, user, counts
  <2>2. CurrentNext \in Nat
    BY CurrentIs
  <2> QED BY <2>1, <2>2 DEF CurrentKept, NextKept, NamesKept, OutKept
<1>15. CASE RestoreCopy
  <2>1. CurrentNext' = CurrentNext /\ CurrentNames' = CurrentNames
    BY <1>15 DEF CurrentNext, CurrentNames, Renames, QuaTypes, RestoreCopy, UserSame, index,
       table, finder, user, counts
  <2>2. CurrentNext \in Nat
    BY CurrentIs
  <2> QED BY <2>1, <2>2 DEF CurrentKept, NextKept, NamesKept, OutKept
<1>16. CASE RestoreCopyFails
  <2>1. CurrentNext' = CurrentNext /\ CurrentNames' = CurrentNames
    BY <1>16 DEF CurrentNext, CurrentNames, Renames, QuaTypes, RestoreCopyFails, UserSame,
       index, table, finder, user, counts
  <2>2. CurrentNext \in Nat
    BY CurrentIs
  <2> QED BY <2>1, <2>2 DEF CurrentKept, NextKept, NamesKept, OutKept
<1>17. CASE RestoreIndex
  <2>1. /\ upc = "index" /\ UNCHANGED fpc
        /\ \/ upc' = "unlink" /\ Valid(mem) = <<>>
           \/ upc' = "rename" /\ tmp' = Written(next, Valid(mem))
    BY <1>17 DEF RestoreIndex, WriteIndex, UserSame, finder
  <2>2. mem # Null /\ ~ Renames
    BY <2>1 DEF Alone, Renames
  <2>3. CurrentNext = next /\ CurrentNames = ToSet(Valid(mem)) /\ next \in Nat
    BY <2>2 DEF CurrentNext, CurrentNames, QuaTypes
  <2>4. CASE upc' = "unlink" /\ Valid(mem) = <<>>
    <3>1. indexFile' = Null /\ mem' = Null
      BY <1>17, <2>4 DEF RestoreIndex
    <3>2. ~ Renames'
      BY <2>1, <2>2, <2>4 DEF Renames
    <3>3. CurrentNames' = {} /\ CurrentNames = {}
      <4>1. ToSet(<<>>) = {}
        BY DEF ToSet
      <4> QED BY <2>3, <2>4, <3>1, <3>2, <4>1 DEF CurrentNames
    <3> QED BY <2>1, <2>4, <3>3 DEF CurrentKept, NextKept, NamesKept, OutKept
  <2>5. CASE upc' = "rename" /\ tmp' = Written(next, Valid(mem))
    <3>1. Renames'
      BY <2>5 DEF Renames
    <3>2. CurrentNext' = next /\ CurrentNames' = ToSet(Valid(mem))
      BY <2>5, <3>1 DEF CurrentNext, CurrentNames, Written
    <3> QED BY <2>3, <3>2 DEF CurrentKept, NextKept, NamesKept, OutKept
  <2> QED BY <2>1, <2>4, <2>5
<1>18. CASE RestoreRename
  <2>1. Renames /\ tmp # Null /\ indexFile' = tmp /\ mem' = Null
    BY <1>18 DEF RestoreRename, RenameIndex, Renames, Alone
  <2>2. ~ Renames'
    BY <1>18 DEF RestoreRename, UserSame, finder, Alone, Renames, QuaTypes
  <2>3. CurrentNext' = CurrentNext /\ CurrentNames' = CurrentNames
    BY <2>1, <2>2 DEF CurrentNext, CurrentNames
  <2>4. CurrentNext \in Nat
    BY CurrentIs
  <2> QED BY <2>3, <2>4 DEF CurrentKept, NextKept, NamesKept, OutKept
<1>19. CASE RestoreUnlink
  <2>1. CurrentNext' = CurrentNext /\ CurrentNames' = CurrentNames
    BY <1>19 DEF CurrentNext, CurrentNames, Renames, QuaTypes, RestoreUnlink, UserSame,
       index, table, finder, user, counts
  <2>2. CurrentNext \in Nat
    BY CurrentIs
  <2> QED BY <2>1, <2>2 DEF CurrentKept, NextKept, NamesKept, OutKept
<1>20. CASE CheckRight
  <2>1. CurrentNext' = CurrentNext /\ CurrentNames' = CurrentNames
    BY <1>20 DEF CurrentNext, CurrentNames, Renames, QuaTypes, CheckRight, UserSame, NoRow,
       index, table, finder, user, counts
  <2>2. CurrentNext \in Nat
    BY CurrentIs
  <2> QED BY <2>1, <2>2 DEF CurrentKept, NextKept, NamesKept, OutKept
<1>21. CASE CheckWrong
  <2>1. CurrentNext' = CurrentNext /\ CurrentNames' = CurrentNames
    BY <1>21 DEF CurrentNext, CurrentNames, Renames, QuaTypes, CheckWrong, UserSame, index,
       table, finder, user, counts
  <2>2. CurrentNext \in Nat
    BY CurrentIs
  <2> QED BY <2>1, <2>2 DEF CurrentKept, NextKept, NamesKept, OutKept
<1>22. CASE DeleteRow
  <2>1. CurrentNext' = CurrentNext /\ CurrentNames' = CurrentNames
    BY <1>22 DEF CurrentNext, CurrentNames, Renames, QuaTypes, DeleteRow, UserSame, NoRow,
       index, table, finder, user, counts
  <2>2. CurrentNext \in Nat
    BY CurrentIs
  <2> QED BY <2>1, <2>2 DEF CurrentKept, NextKept, NamesKept, OutKept
<1>23. ASSUME NEW r \in rows, Rechown(r) PROVE CurrentKept
  <2>1. CurrentNext' = CurrentNext /\ CurrentNames' = CurrentNames
    BY <1>23 DEF CurrentNext, CurrentNames, Renames, QuaTypes, Rechown, index, table,
       finder, user, counts
  <2>2. CurrentNext \in Nat
    BY CurrentIs
  <2> QED BY <2>1, <2>2 DEF CurrentKept, NextKept, NamesKept, OutKept
<1>24. CASE DaemonDies
  <2>1. /\ AtRest /\ mem' = Null /\ upc' = "idle" /\ UNCHANGED <<indexFile, tmp>>
        /\ \A p \in Finders : fpc'[p] = "idle"
    BY <1>24 DEF DaemonDies
  <2>2. ~ Renames /\ ~ Renames'
    BY <2>1 DEF AtRest, Renames
  <2>3. CurrentNext \in Nat
    BY CurrentIs
  <2>4. CASE mem = Null
    <3>1. CurrentNext' = CurrentNext /\ CurrentNames' = CurrentNames
      BY <2>1, <2>2, <2>4 DEF CurrentNext, CurrentNames
    <3> QED BY <2>3, <3>1 DEF CurrentKept, NextKept, NamesKept, OutKept
  <2>5. CASE mem # Null
    <3>1. Mirror /\ mem \in Seq(Marked) /\ indexFile.names \in Seq(Names)
      BY <2>2, <2>5 DEF Alone, Mirror, QuaTypes, Index
    <3>2. ToSet(Valid(mem)) = {mem[i].name : i \in {j \in 1 .. Len(mem) : mem[j].valid}}
      BY <2>5, <3>1, ValidIs
    <3>3. \A x : x \in ToSet(indexFile.names) <=> \E i \in 1 .. Len(indexFile.names) : indexFile.names[i] = x
      BY <3>1, Elements
    <3>4. ToSet(Valid(mem)) \subseteq ToSet(indexFile.names)
      BY <3>1, <3>2, <3>3 DEF Mirror
    <3>5. CurrentNext' = indexFile.next /\ CurrentNames' = ToSet(indexFile.names)
      BY <2>1, <2>2, <3>1 DEF CurrentNext, CurrentNames, Mirror
    <3>6. CurrentNext = indexFile.next /\ CurrentNames = ToSet(Valid(mem))
      BY <2>2, <2>5, <3>1, HarmGrows DEF CurrentNext, CurrentNames, Mirror
    <3> QED BY <2>1, <2>3, <3>4, <3>5, <3>6 DEF CurrentKept, NextKept, NamesKept, OutKept
  <2> QED BY <2>4, <2>5
<1>25. CASE UNCHANGED quaVars
  <2>1. CurrentNext' = CurrentNext /\ CurrentNames' = CurrentNames
    BY <1>25 DEF CurrentNext, CurrentNames, Renames, QuaTypes, quaVars, index, table,
       finder, user, counts
  <2>2. CurrentNext \in Nat
    BY CurrentIs
  <2> QED BY <2>1, <2>2 DEF CurrentKept, NextKept, NamesKept, OutKept
<1>26. ASSUME NEW p \in Finders, BackUpIndexFails(p) PROVE CurrentKept
  BY <1>26 DEF BackUpIndexFails
<1> QED BY <1>1, <1>2, <1>3, <1>4, <1>5, <1>6, <1>7, <1>8, <1>9, <1>10, <1>11, <1>12, <1>13,
           <1>14, <1>15, <1>16, <1>17, <1>18, <1>19, <1>20, <1>21, <1>22, <1>23, <1>24,
           <1>25, <1>26 DEF QuaNext, FinderStep, UserStep

-----------------------------------------------------------------------------
(* What a step of the quarantine can do.                                   *)

NewRow(p) == [id |-> lastId + 1, file |-> ffile[p], name |-> fname[p], repair |-> FALSE]

\* Rows come from finders that log.
LEMMA RowStep ==
  ASSUME QuaTypes, DaemonDies => AtRest, [QuaNext]_quaVars
  PROVE  \/ /\ Settled' \subseteq Settled
            /\ \A s \in rows' : \E r \in rows : r.name = s.name
         \/ \E p \in Finders :
              /\ fpc[p] = "log" /\ fpc' = [fpc EXCEPT ![p] = "remove"]
              /\ UNCHANGED <<ffile, fname, store, upc, urow>>
              /\ rows' = rows \cup {NewRow(p)} /\ Settled' \subseteq Settled \cup {NewRow(p)}
<1>1. ASSUME NEW p \in Finders, BackUpLog(p)
      PROVE  /\ fpc[p] = "log" /\ fpc' = [fpc EXCEPT ![p] = "remove"]
             /\ UNCHANGED <<ffile, fname, store, upc, urow>>
             /\ rows' = rows \cup {NewRow(p)} /\ Settled' \subseteq Settled \cup {NewRow(p)}
  <2>1. /\ fpc[p] = "log" /\ fpc' = [fpc EXCEPT ![p] = "remove"]
        /\ UNCHANGED <<ffile, fname, store, upc, urow>> /\ rows' = rows \cup {NewRow(p)}
    BY <1>1 DEF BackUpLog, Goto, FinderSame, user, NewRow
  <2> QED BY <2>1 DEF Settled
<1> DEFINE Fewer == Settled' \subseteq Settled /\ \A s \in rows' : \E r \in rows : r.name = s.name
<1>2. ASSUME NEW p \in Finders, FinderStep(p), ~ BackUpLog(p) PROVE Fewer
  <2>1. UNCHANGED <<rows, upc, urow>>
    BY <1>2 DEF FinderStep, Find, BackUpMissing, BackUpRefused, BackUpBegin, BackUpCopy,
       BackUpCopyFails, BackUpIndex, BackUpIndexFails, BackUpRename, RemoveOriginal, GiveUp, FinderSame,
       table, user
  <2> QED BY <2>1 DEF Settled
<1>3. ASSUME NEW r \in rows, RestoreRefused(r) \/ RestoreBegin(r) \/ Delete(r) PROVE Fewer
  <2>1. rows' = rows /\ upc = "idle"
    BY <1>3 DEF RestoreRefused, RestoreBegin, Delete, Command, table
  <2> QED BY <2>1 DEF Settled
<1>4. ASSUME RestoreCopy \/ RestoreCopyFails \/ RestoreIndex \/ RestoreRename \/ RestoreUnlink PROVE Fewer
  <2>1. rows' = rows /\ upc # "idle" /\ upc' # "idle" /\ urow' = urow
    BY <1>4 DEF RestoreCopy, RestoreCopyFails, RestoreIndex, RestoreRename, RestoreUnlink,
       table
  <2> QED BY <2>1 DEF Settled
<1>5. ASSUME CheckRight \/ DeleteRow PROVE Fewer
  <2>1. rows' = {r \in rows : r.id # urow.id} /\ upc # "idle"
    BY <1>5 DEF CheckRight, DeleteRow, NoRow
  <2> QED BY <2>1 DEF Settled
<1>6. ASSUME CheckWrong PROVE Fewer
  <2> DEFINE Repair(r) == [r EXCEPT !.repair = @ \/ r.id = urow.id]
  <2>1. \A r \in rows : /\ Repair(r).id = r.id /\ Repair(r).name = r.name
                        /\ r.id # urow.id => Repair(r) = r
    <3>1. \A r \in rows : r \in Row
      BY DEF QuaTypes
    <3> QED BY <3>1 DEF Row
  <2>2. rows' = {Repair(r) : r \in rows} /\ upc # "idle" /\ upc' # "idle" /\ urow' = urow
    BY <1>6 DEF CheckWrong
  <2> HIDE DEF Repair
  <2>3. \A s \in rows' : \E r \in rows : r.name = s.name
    BY <2>1, <2>2
  <2>4. Settled' \subseteq Settled
    BY <2>1, <2>2 DEF Settled
  <2> QED BY <2>3, <2>4
<1>7. ASSUME NEW r \in rows, Rechown(r) PROVE Fewer
  <2>1. rows' = rows \ {r} /\ UNCHANGED <<upc, urow>>
    BY <1>7 DEF Rechown, user
  <2> QED BY <2>1 DEF Settled
<1>8. ASSUME DaemonDies PROVE Fewer
  <2>1. rows' = rows /\ upc = "idle"
    BY <1>8 DEF DaemonDies, AtRest, table
  <2> QED BY <2>1 DEF Settled
<1>9. ASSUME UNCHANGED quaVars PROVE Fewer
  BY <1>9 DEF quaVars, table, user, Settled
<1> HIDE DEF Fewer
<1>10. Fewer \/ \E p \in Finders : BackUpLog(p)
  BY <1>2, <1>3, <1>4, <1>5, <1>6, <1>7, <1>8, <1>9 DEF QuaNext, UserStep, FinderStep
<1> QED BY <1>1, <1>10 DEF Fewer

\* Copies come from finders that copy.
LEMMA StoreStep ==
  ASSUME QuaTypes, [QuaNext]_quaVars, NEW n \in Names
  PROVE  \/ store'[n] = store[n]
         \/ store'[n] = Null /\ "full" \in harm'
         \/ store'[n] = Null /\ upc = "unlink" /\ n = urow.name
         \/ \E p \in Finders :
              fpc[p] = "copy" /\ n = fname[p] /\ (store'[n] = ffile[p] \/ (store'[n] = Null /\ "copy" \in harm'))
<1>1. ASSUME NEW p \in Finders, BackUpBegin(p)
      PROVE  store'[n] = store[n] \/ (store'[n] = Null /\ "full" \in harm')
  <2> DEFINE k == Evicted(ReadMem)
             Dropped(x) == \E i \in 1 .. k : ReadMem[i].name = x
  <2>1. store' = [x \in Names |-> IF Dropped(x) THEN Null ELSE store[x]] /\ (k > 0 => "full" \in harm')
    BY <1>1 DEF BackUpBegin
  <2>2. k \in Int
    BY ReadIs, QuarantineConstants DEF Evicted
  <2>3. Dropped(n) => k > 0
    <3> HIDE DEF k
    <3> QED BY <2>2
  <2> HIDE DEF Dropped, k
  <2> QED BY <2>1, <2>3
<1>2. ASSUME NEW p \in Finders, BackUpCopy(p) \/ BackUpCopyFails(p)
      PROVE  \/ store'[n] = store[n]
             \/ fpc[p] = "copy" /\ n = fname[p] /\ (store'[n] = ffile[p] \/ (store'[n] = Null /\ "copy" \in harm'))
  BY <1>2 DEF BackUpCopy, BackUpCopyFails, QuaTypes
<1>3. CASE RestoreUnlink
  BY <1>3 DEF RestoreUnlink, QuaTypes
<1>4. ASSUME NEW p \in Finders, FinderStep(p), ~ BackUpBegin(p), ~ BackUpCopy(p), ~ BackUpCopyFails(p)
      PROVE  store' = store
  BY <1>4 DEF FinderStep, Find, BackUpMissing, BackUpRefused, BackUpIndex, BackUpIndexFails, BackUpRename,
     BackUpLog, RemoveOriginal, GiveUp
<1>5. CASE UserStep /\ ~ RestoreUnlink
  <2>1. store' = store
    BY <1>5 DEF UserStep, RestoreRefused, RestoreBegin, Delete, RestoreCopy,
       RestoreCopyFails, RestoreIndex, RestoreRename, CheckRight, CheckWrong, DeleteRow
  <2> QED BY <2>1
<1>6. CASE DaemonDies \/ (\E r \in rows : Rechown(r)) \/ UNCHANGED quaVars
  BY <1>6 DEF DaemonDies, Rechown, quaVars
<1> QED BY <1>1, <1>2, <1>3, <1>4, <1>5, <1>6 DEF QuaNext

\* Who holds a copy has made it, unless the file was gone.
LEMMA HolderStep ==
  ASSUME QuaTypes, [QuaNext]_quaVars, NEW p \in Finders,
         fpc'[p] \in {"index", "rename", "log", "remove"}
  PROVE  \/ /\ fpc[p] \in {"index", "rename", "log", "remove"}
            /\ fname'[p] = fname[p] /\ ffile'[p] = ffile[p]
            /\ \/ fpc'[p] = fpc[p]
               \/ fpc[p] = "index" /\ BackUpIndex(p) /\ fpc'[p] = "rename"
               \/ fpc[p] = "index" /\ fpc'[p] = "log" /\ "index" \in harm'
               \/ fpc[p] = "rename" /\ fpc'[p] = "log"
               \/ fpc[p] = "log" /\ fpc'[p] = "remove"
         \/ /\ fpc[p] = "copy" /\ fpc'[p] = "index"
            /\ fname'[p] = fname[p] /\ ffile'[p] = ffile[p] /\ store'[fname[p]] = ffile[p]
         \/ "vanished" \in harm' /\ fname'[p] = Null /\ fpc'[p] = "log"
<1>1. ASSUME NEW q \in Finders, FinderStep(q), q # p
      PROVE  fpc'[p] = fpc[p] /\ fname'[p] = fname[p] /\ ffile'[p] = ffile[p]
  BY <1>1 DEF FinderStep, Find, BackUpMissing, BackUpRefused, BackUpBegin, BackUpCopy,
     BackUpCopyFails, BackUpIndex, BackUpIndexFails, BackUpRename, BackUpLog, RemoveOriginal, GiveUp, Done,
     Goto, QuaTypes
<1>2. CASE BackUpIndex(p) \/ BackUpIndexFails(p)
  BY <1>2 DEF BackUpIndex, BackUpIndexFails, Goto, QuaTypes
<1>3. CASE BackUpCopy(p)
  BY <1>3 DEF BackUpCopy, Goto, QuaTypes
<1>4. CASE BackUpMissing(p)
  BY <1>4 DEF BackUpMissing, Goto, QuaTypes
<1>5. CASE BackUpRename(p) \/ BackUpLog(p)
  BY <1>5 DEF BackUpRename, BackUpLog, Goto, QuaTypes
<1>6. CASE FinderStep(p) /\ ~ (BackUpIndex(p) \/ BackUpIndexFails(p) \/ BackUpCopy(p)
                              \/ BackUpMissing(p) \/ BackUpRename(p) \/ BackUpLog(p))
  BY <1>6 DEF FinderStep, Find, BackUpRefused, BackUpBegin, BackUpCopyFails, RemoveOriginal,
     GiveUp, Done, Goto, QuaTypes
<1>7. CASE UserStep \/ (\E r \in rows : Rechown(r)) \/ UNCHANGED quaVars
  <2>1. UNCHANGED finder
    BY <1>7 DEF UserStep, RestoreRefused, RestoreBegin, Delete, RestoreCopy,
       RestoreCopyFails, RestoreIndex, RestoreRename, RestoreUnlink, CheckRight, CheckWrong,
       DeleteRow, Rechown, UserSame, quaVars
  <2> QED BY <2>1 DEF finder
<1>8. CASE DaemonDies
  BY <1>8 DEF DaemonDies
<1> QED BY <1>1, <1>2, <1>3, <1>4, <1>5, <1>6, <1>7, <1>8 DEF QuaNext

\* A restoration begins with a row's copy that is in the index.
LEMMA RestoreStep ==
  ASSUME QuaTypes, [QuaNext]_quaVars, upc' \in {"copy", "index", "rename", "unlink"}
  PROVE  \/ upc \in {"copy", "index", "rename", "unlink"} /\ urow' = urow
         \/ /\ upc = "idle" /\ upc' = "copy" /\ urow' \in rows /\ RestoreBegin(urow')
            /\ rows' = rows /\ UNCHANGED finder
<1>1. ASSUME NEW p \in Finders, FinderStep(p) PROVE UNCHANGED <<upc, urow>>
  BY <1>1 DEF FinderStep, Find, BackUpMissing, BackUpRefused, BackUpBegin, BackUpCopy,
     BackUpCopyFails, BackUpIndex, BackUpIndexFails, BackUpRename, BackUpLog, RemoveOriginal, GiveUp,
     FinderSame, user
<1>2. ASSUME NEW r \in rows, RestoreBegin(r)
      PROVE  upc = "idle" /\ upc' = "copy" /\ urow' = r /\ rows' = rows /\ UNCHANGED finder
  BY <1>2 DEF RestoreBegin, Command, UserSame, table
<1>3. ASSUME NEW r \in rows, RestoreRefused(r) \/ Delete(r) PROVE FALSE
  BY <1>3 DEF RestoreRefused, Delete
<1>4. CASE RestoreCopy \/ RestoreCopyFails \/ RestoreIndex \/ RestoreRename \/ RestoreUnlink
           \/ CheckRight \/ CheckWrong \/ DeleteRow
  BY <1>4 DEF RestoreCopy, RestoreCopyFails, RestoreIndex, RestoreRename, RestoreUnlink,
     CheckRight, CheckWrong, DeleteRow, table
<1>5. CASE DaemonDies
  BY <1>5 DEF DaemonDies
<1>6. CASE (\E r \in rows : Rechown(r)) \/ UNCHANGED quaVars
  BY <1>6 DEF Rechown, quaVars, user
<1> QED BY <1>1, <1>2, <1>3, <1>4, <1>5, <1>6 DEF QuaNext, UserStep

\* Numbers that start again where rows may be left are not forgotten.
LEMMA RestartStep ==
  ASSUME [QuaNext]_quaVars
  PROVE  /\ upc = "index" /\ upc' = "unlink" =>
              "full" \notin harm \/ "restart" \in harm' \/ "index" \in harm'
         /\ "restart" \in harm' /\ "restart" \notin harm => "full" \in harm
         /\ DaemonDies /\ ~ AtRest => "crash" \in harm'
<1> DEFINE Told == /\ upc = "index" /\ upc' = "unlink" =>
                        "full" \notin harm \/ "restart" \in harm' \/ "index" \in harm'
                   /\ "restart" \in harm' /\ "restart" \notin harm => "full" \in harm
<1>1. ASSUME NEW p \in Finders, FinderStep(p)
      PROVE  Told
  BY <1>1 DEF FinderStep, Find, BackUpMissing, BackUpRefused, BackUpBegin, BackUpCopy,
     BackUpCopyFails, BackUpIndex, BackUpIndexFails, BackUpRename, BackUpLog, RemoveOriginal, GiveUp,
     FinderSame, user, Overlap
<1>2. ASSUME RestoreIndex PROVE Told
  BY <1>2 DEF RestoreIndex
<1>3. ASSUME UserStep /\ ~ RestoreIndex PROVE Told
  <2>1. upc' # "unlink" \/ upc # "index"
    BY <1>3 DEF UserStep, RestoreRefused, RestoreBegin, Delete, RestoreCopy,
       RestoreCopyFails, RestoreRename, RestoreUnlink, CheckRight, CheckWrong, DeleteRow,
       Command
  <2>2. "restart" \in harm' => "restart" \in harm
    <3>1. ASSUME NEW r \in rows, RestoreBegin(r) PROVE "restart" \in harm' => "restart" \in harm
      BY <3>1 DEF RestoreBegin, Overlap, Early
    <3>2. CASE ~ \E r \in rows : RestoreBegin(r)
      BY <1>3, <3>2 DEF UserStep, RestoreRefused, Delete, RestoreCopy, RestoreCopyFails,
         RestoreRename, RestoreUnlink, CheckRight, CheckWrong, DeleteRow
    <3> QED BY <3>1, <3>2
  <2> QED BY <2>1, <2>2
<1>4. ASSUME DaemonDies PROVE Told
  BY <1>4 DEF DaemonDies, AtRest
<1>5. ASSUME (\E r \in rows : Rechown(r)) \/ UNCHANGED quaVars PROVE Told
  BY <1>5 DEF Rechown, quaVars, user
<1>6. DaemonDies /\ ~ AtRest => "crash" \in harm'
  BY DEF DaemonDies
<1> HIDE DEF Told
<1>7. Told
  BY <1>1, <1>2, <1>3, <1>4, <1>5 DEF QuaNext
<1> QED BY <1>6, <1>7 DEF Told

-----------------------------------------------------------------------------
(* The parts of the invariant.                                             *)

\* No temporary index is left behind.
LEMMA StaleStep ==
  ASSUME QuaTypes, Alone, Stale, "overlap" \notin harm', DaemonDies => AtRest, [QuaNext]_quaVars
  PROVE  Stale'
<1>1. ASSUME NEW p \in Finders, NEW f \in Paths, Find(p, f) PROVE Stale'
  BY <1>1 DEF QuaTypes, Alone, Stale, Renames, Find, FinderSame, Goto, index, table, finder,
     user, counts
<1>2. ASSUME NEW p \in Finders, BackUpMissing(p) PROVE Stale'
  BY <1>2 DEF QuaTypes, Alone, Stale, Renames, BackUpMissing, FinderSame, Goto, index,
     table, finder, user, counts
<1>3. ASSUME NEW p \in Finders, BackUpRefused(p) PROVE Stale'
  BY <1>3 DEF QuaTypes, Alone, Stale, Renames, BackUpRefused, FinderSame, Goto, index,
     table, finder, user, counts
<1>4. ASSUME NEW p \in Finders, BackUpBegin(p) PROVE Stale'
  BY <1>4 DEF QuaTypes, Alone, Stale, Renames, BackUpBegin, FinderSame, Goto, Overlap,
     index, table, finder, user, counts
<1>5. ASSUME NEW p \in Finders, BackUpCopy(p) PROVE Stale'
  BY <1>5 DEF QuaTypes, Alone, Stale, Renames, BackUpCopy, FinderSame, Goto, index, table,
     finder, user, counts
<1>6. ASSUME NEW p \in Finders, BackUpCopyFails(p) PROVE Stale'
  BY <1>6 DEF QuaTypes, Alone, Stale, Renames, BackUpCopyFails, FinderSame, Goto, index,
     table, finder, user, counts
<1>7. ASSUME NEW p \in Finders, BackUpIndex(p) PROVE Stale'
  BY <1>7 DEF QuaTypes, Alone, Stale, Renames, BackUpIndex, FinderSame, Goto, WriteIndex,
     Written, index, table, finder, user, counts
<1>8. ASSUME NEW p \in Finders, BackUpRename(p) PROVE Stale'
  BY <1>8 DEF QuaTypes, Alone, Stale, Renames, BackUpRename, FinderSame, Goto, RenameIndex,
     index, table, finder, user, counts
<1>9. ASSUME NEW p \in Finders, BackUpLog(p) PROVE Stale'
  BY <1>9 DEF QuaTypes, Alone, Stale, Renames, BackUpLog, FinderSame, Goto, index, table,
     finder, user, counts
<1>10. ASSUME NEW p \in Finders, RemoveOriginal(p) PROVE Stale'
  BY <1>10 DEF QuaTypes, Alone, Stale, Renames, RemoveOriginal, FinderSame, Goto, Done,
     index, table, finder, user, counts
<1>11. ASSUME NEW p \in Finders, GiveUp(p) PROVE Stale'
  BY <1>11 DEF QuaTypes, Alone, Stale, Renames, GiveUp, FinderSame, Goto, Done, index,
     table, finder, user, counts
<1>12. ASSUME NEW r \in rows, RestoreRefused(r) PROVE Stale'
  BY <1>12 DEF QuaTypes, Alone, Stale, Renames, RestoreRefused, UserSame, Command, index,
     table, finder, user, counts
<1>13. ASSUME NEW r \in rows, RestoreBegin(r) PROVE Stale'
  BY <1>13 DEF QuaTypes, Alone, Stale, Renames, RestoreBegin, UserSame, Command, Overlap,
     Early, index, table, finder, user, counts
<1>14. ASSUME NEW r \in rows, Delete(r) PROVE Stale'
  BY <1>14 DEF QuaTypes, Alone, Stale, Renames, Delete, UserSame, Command, index, table,
     finder, user, counts
<1>15. CASE RestoreCopy
  BY <1>15 DEF QuaTypes, Alone, Stale, Renames, RestoreCopy, UserSame, index, table, finder,
     user, counts
<1>16. CASE RestoreCopyFails
  BY <1>16 DEF QuaTypes, Alone, Stale, Renames, RestoreCopyFails, UserSame, index, table,
     finder, user, counts
<1>17. CASE RestoreIndex
  BY <1>17 DEF QuaTypes, Alone, Stale, Renames, RestoreIndex, UserSame, WriteIndex,
     WriteIndexFails, Written, index, table, finder, user, counts
<1>18. CASE RestoreRename
  BY <1>18 DEF QuaTypes, Alone, Stale, Renames, RestoreRename, UserSame, RenameIndex, index,
     table, finder, user, counts
<1>19. CASE RestoreUnlink
  BY <1>19 DEF QuaTypes, Alone, Stale, Renames, RestoreUnlink, UserSame, index, table,
     finder, user, counts
<1>20. CASE CheckRight
  BY <1>20 DEF QuaTypes, Alone, Stale, Renames, CheckRight, UserSame, NoRow, index, table,
     finder, user, counts
<1>21. CASE CheckWrong
  BY <1>21 DEF QuaTypes, Alone, Stale, Renames, CheckWrong, UserSame, index, table, finder,
     user, counts
<1>22. CASE DeleteRow
  BY <1>22 DEF QuaTypes, Alone, Stale, Renames, DeleteRow, UserSame, NoRow, index, table,
     finder, user, counts
<1>23. ASSUME NEW r \in rows, Rechown(r) PROVE Stale'
  BY <1>23 DEF QuaTypes, Alone, Stale, Renames, Rechown, index, table, finder, user, counts
<1>24. CASE DaemonDies
  BY <1>24 DEF QuaTypes, Alone, Stale, Renames, DaemonDies, AtRest, index, table, finder,
     user, counts
<1>25. CASE UNCHANGED quaVars
  BY <1>25 DEF QuaTypes, Alone, Stale, Renames, quaVars, index, table, finder, user, counts
<1>26. ASSUME NEW p \in Finders, BackUpIndexFails(p) PROVE Stale'
  BY <1>26 DEF QuaTypes, Alone, Stale, Renames, BackUpIndexFails, WriteIndexFails, FinderSame,
     Goto, user
<1> QED BY <1>1, <1>2, <1>3, <1>4, <1>5, <1>6, <1>7, <1>8, <1>9, <1>10, <1>11, <1>12, <1>13,
           <1>14, <1>15, <1>16, <1>17, <1>18, <1>19, <1>20, <1>21, <1>22, <1>23, <1>24,
           <1>25, <1>26 DEF QuaNext, FinderStep, UserStep

\* What is being restored stays out of the index.
LEMMA OutStep ==
  ASSUME QuaTypes, Alone, Out, [QuaNext]_quaVars, "overlap" \notin harm', "index" \notin harm'
  PROVE  Out'
<1> SUFFICES ASSUME upc' \in {"copy", "index", "rename", "unlink"} PROVE urow'.name \notin CurrentNames'
  BY DEF Out
<1>1. CASE upc \in {"copy", "index", "rename", "unlink"} /\ urow' = urow
  <2>1. urow.name \notin CurrentNames /\ \A p \in Finders : fpc[p] \notin {"copy", "index", "rename"}
    BY <1>1 DEF Out, Alone
  <2>2. DaemonDies => AtRest
    BY DEF DaemonDies
  <2>3. OutKept
    BY <2>2, CurrentStep DEF CurrentKept
  <2> QED BY <1>1, <2>1, <2>3 DEF OutKept
<1>2. CASE upc = "idle" /\ upc' = "copy" /\ urow' \in rows /\ RestoreBegin(urow') /\ UNCHANGED finder
  <2> DEFINE m == ReadMem
             j == Position(m, urow'.name)
  <2>1. Overlap \subseteq harm' /\ m # Null
    BY <1>2, PositionIs, ReadIs DEF RestoreBegin
  <2>2. ~ Renames /\ ~ Renames'
    <3>1. ~ Renames
      BY <2>1, NoOverlap
    <3> QED BY <1>2, <3>1 DEF Renames, finder
  <2>3. /\ indexFile # Null /\ Len(m) = Len(indexFile.names)
        /\ \A i \in 1 .. Len(m) : m[i].name = indexFile.names[i]
    BY <2>1, <2>2, ReadMirror
  <2>4. Sound(indexFile) /\ indexFile.names \in Seq(Names)
    BY <2>3 DEF Alone, QuaTypes, Index
  <2>5. m \in Seq(Marked) /\ j \in 1 .. Len(m) /\ m[j].name = urow'.name
    BY <1>2, <2>1, ReadIs, PositionIs DEF RestoreBegin
  <2>6. mem' = MarkIn(m, j)
    BY <1>2 DEF RestoreBegin, MarkIn
  <2> HIDE DEF m, j
  <2>7. \A i \in 1 .. Len(m) : m[i].name = urow'.name => i = j
    BY <2>3, <2>4, <2>5 DEF Sound, IsInjective
  <2>8. /\ mem' \in Seq(Marked) /\ mem' # Null /\ Len(mem') = Len(m)
        /\ \A i \in 1 .. Len(m) : mem'[i].name = m[i].name /\ (mem'[i].valid <=> m[i].valid /\ i # j)
    BY <2>5, <2>6, MarkIs
  <2>9. CurrentNames' = ToSet(Valid(mem'))
    BY <2>2, <2>8 DEF CurrentNames
  <2>10. ToSet(Valid(mem')) = {mem'[i].name : i \in {l \in 1 .. Len(mem') : mem'[l].valid}}
    BY <2>8, ValidIs
  <2> QED BY <2>7, <2>8, <2>9, <2>10
<1> QED BY <1>1, <1>2, RestoreStep

LEMMA CurrentNextNat == ASSUME QuaTypes', Alone' PROVE CurrentNext' \in Nat
BY DEF QuaTypes, Alone, CurrentNext, Index

\* A number that is taken is not copied to, and no number comes down while it is
\* in the index.
LEMMA TakenStep ==
  ASSUME QuaTypes, Alone, [QuaNext]_quaVars, QuaTypes', Alone', "overlap" \notin harm',
         "index" \notin harm', DaemonDies => AtRest, NEW n \in Names, n < CurrentNext
  PROVE  /\ n < CurrentNext' \/ (upc = "index" /\ upc' = "unlink" /\ CurrentNames = {})
         /\ \/ store'[n] = store[n]
            \/ store'[n] = Null /\ "full" \in harm'
            \/ store'[n] = Null /\ upc = "unlink" /\ n = urow.name
<1>1. CurrentNext \in Nat /\ CurrentNext' \in Nat /\ n \in Int
  BY CurrentIs, CurrentNextNat DEF Names
<1>2. CurrentNext <= CurrentNext' \/ (upc = "index" /\ upc' = "unlink" /\ CurrentNames = {})
  BY CurrentStep DEF CurrentKept, NextKept
<1>3. ASSUME NEW p \in Finders, fpc[p] = "copy", n = fname[p] PROVE FALSE
  <2>1. CurrentNext = next /\ fname[p] = next
    BY <1>3, CopyNext
  <2> QED BY <1>1, <1>3, <2>1
<1> QED BY <1>1, <1>2, <1>3, StoreStep

\* A row's number stays below the next one, and its copy its own.
LEMMA BelowStep ==
  ASSUME QuaTypes, Alone, Below, [QuaNext]_quaVars, QuaTypes', Alone', "overlap" \notin harm',
         "index" \notin harm', DaemonDies => AtRest, "restart" \notin harm', "full" \notin harm => Listed
  PROVE  Below'
<1>1. ASSUME upc = "index", upc' = "unlink", CurrentNames = {} PROVE Settled = {} /\ Logging = {}
  <2>1. Listed
    BY <1>1, RestartStep
  <2> QED BY <1>1, <2>1 DEF Listed
<1>2. ASSUME NEW n \in Names, n < CurrentNext, NEW f \in Paths, store[n] \in {Null, f},
             Settled # {} \/ Logging # {}
      PROVE  n < CurrentNext' /\ store'[n] \in {Null, f}
  BY <1>1, <1>2, TakenStep
<1>3. \A r \in Settled :
        /\ r.name \in Names /\ r.name < CurrentNext
        /\ r.file \in Paths /\ store[r.name] \in {Null, r.file}
  BY DEF Below, Settled, QuaTypes, Row
<1>4. \A p \in Logging : /\ fname[p] \in Names /\ fname[p] < CurrentNext /\ ffile[p] \in Paths
                         /\ store[fname[p]] \in {Null, ffile[p]}
  BY DEF Below, Logging, QuaTypes
<1>5. ASSUME NEW s \in Settled' PROVE s.name < CurrentNext' /\ store'[s.name] \in {Null, s.file}
  <2>1. CASE s \in Settled
    BY <1>2, <1>3, <2>1
  <2>2. CASE \E p \in Finders : fpc[p] = "log" /\ s = NewRow(p)
    <3>1. PICK p \in Finders : fpc[p] = "log" /\ s = NewRow(p)
      BY <2>2
    <3>2. s.name = fname[p] /\ s.file = ffile[p]
      BY <3>1 DEF NewRow
    <3>3. p \in Logging
      BY <1>5, <3>1, <3>2 DEF Logging, Settled
    <3> QED BY <1>2, <1>4, <3>2, <3>3
  <2> QED BY <1>5, <2>1, <2>2, RowStep
<1>6. ASSUME NEW q \in Logging' PROVE fname'[q] < CurrentNext' /\ store'[fname'[q]] \in {Null, ffile'[q]}
  <2>1. q \in Finders /\ fpc'[q] \in {"rename", "log"} /\ fname'[q] # Null
    BY <1>6 DEF Logging
  <2>2. CASE q \in Logging /\ fname'[q] = fname[q] /\ ffile'[q] = ffile[q]
    BY <1>2, <1>4, <2>2
  <2>3. CASE BackUpIndex(q) /\ fname'[q] = fname[q] /\ ffile'[q] = ffile[q]
    <3>1. CurrentNext' = next + 1 /\ fname[q] = next /\ next \in Nat
      BY <2>1, <2>3, IndexCurrent
    <3>2. fpc[q] = "index" /\ store' = store
      BY <2>3 DEF BackUpIndex
    <3> QED BY <2>1, <2>3, <3>1, <3>2 DEF Below
  <2> QED BY <2>1, <2>2, <2>3, HolderStep DEF Logging
<1>7. ASSUME NEW q \in Finders, fpc'[q] = "index" PROVE store'[fname'[q]] \in {Null, ffile'[q]}
  <2>1. CASE fpc[q] = "index" /\ fname'[q] = fname[q] /\ ffile'[q] = ffile[q]
    <3>1. store[fname[q]] \in {Null, ffile[q]} /\ fname[q] \in Names
      BY <2>1 DEF Below, QuaTypes
    <3>2. \A p \in Finders : fpc[p] # "copy"
      BY <2>1 DEF Alone
    <3> QED BY <2>1, <3>1, <3>2, StoreStep
  <2>2. CASE fname'[q] = fname[q] /\ ffile'[q] = ffile[q] /\ store'[fname[q]] = ffile[q]
    BY <2>2
  <2> QED BY <1>7, <2>1, <2>2, HolderStep
<1> QED BY <1>5, <1>6, <1>7 DEF Below

\* A row's copy stays in the index, and its own.
LEMMA ListedStep ==
  ASSUME QuaTypes, Ids, Alone, Below, Listed, [QuaNext]_quaVars, QuaTypes', Alone',
         "overlap" \notin harm', "index" \notin harm', DaemonDies => AtRest, "full" \notin harm'
  PROVE  Listed'
<1> DEFINE Busy == {"copy", "index", "rename", "unlink"}
           Begins == upc = "idle" /\ upc' = "copy" /\ urow' \in rows /\ RestoreBegin(urow') /\ rows' = rows
                     /\ UNCHANGED finder
           Logs(p) == /\ fpc[p] = "log" /\ fpc' = [fpc EXCEPT ![p] = "remove"]
                      /\ UNCHANGED <<ffile, fname, store, upc, urow>>
                      /\ rows' = rows \cup {NewRow(p)} /\ Settled' \subseteq Settled \cup {NewRow(p)}
<1>1. Settled' \subseteq Settled \/ \E p \in Finders : Logs(p)
  BY RowStep
<1>2. ASSUME NEW p, NewRow(p) \in Settled'
      PROVE  fname[p] # Null /\ NewRow(p).name = fname[p]
  BY <1>2 DEF NewRow, Settled
<1>3. ASSUME NEW s \in Settled', s \notin Settled
      PROVE  \E p \in Logging : Logs(p) /\ s = NewRow(p) /\ s.name = fname[p]
  <2>1. PICK p \in Finders : Logs(p) /\ s = NewRow(p)
    BY <1>1, <1>3
  <2>2. p \in Logging /\ s.name = fname[p]
    BY <1>2, <2>1 DEF Logging
  <2> QED BY <2>1, <2>2
<1>4. ASSUME NEW q \in Logging'
      PROVE  \/ q \in Logging /\ fname'[q] = fname[q]
             \/ q \in Finders /\ BackUpIndex(q) /\ fname'[q] = fname[q] /\ fpc[q] = "index" /\ fpc'[q] = "rename"
  <2>1. q \in Finders /\ fpc'[q] \in {"rename", "log"} /\ fname'[q] # Null
    BY <1>4 DEF Logging
  <2> QED BY <2>1, HolderStep DEF Logging
<1>5. ASSUME upc' \in Busy PROVE (upc \in Busy /\ urow' = urow) \/ Begins
  BY <1>5, RestoreStep
<1>6. ASSUME Begins PROVE urow' \in Settled /\ urow' \notin Settled' /\ Settled' \subseteq Settled
  <2>1. urow'.name # Null
    BY <1>6 DEF RestoreBegin
  <2> QED BY <1>6, <2>1 DEF Settled
<1>7. ASSUME NEW x \in CurrentNames, Begins => x # urow'.name PROVE x \in CurrentNames'
  <2>1. NamesKept
    BY CurrentStep DEF CurrentKept
  <2>2. upc = "idle" /\ upc' = "copy" => Begins
    BY <1>5
  <2> QED BY <1>7, <2>1, <2>2 DEF NamesKept
<1>8. ASSUME NEW q \in Finders, BackUpIndex(q)
      PROVE  fname[q] = next /\ next \in CurrentNames' /\ CurrentNext = next /\ next \in Nat
  BY <1>8, IndexCurrent
<1>9. ASSUME NEW p \in Finders, NEW q \in Finders, Logs(p), fpc[q] # fpc'[q] PROVE q = p
  BY <1>9 DEF QuaTypes
<1>10. \A s \in Settled : s.name \in Nat
  BY DEF Settled, QuaTypes, Row, Names
<1> HIDE DEF Begins, Logs, Busy
<1>11. ASSUME NEW s \in Settled' PROVE s.name \in CurrentNames /\ (Begins => s.name # urow'.name)
  <2>1. CASE s \in Settled
    <3>1. ASSUME Begins PROVE s.name # urow'.name
      <4>1. urow' \in Settled /\ s # urow' /\ s \in rows /\ urow' \in rows
        BY <1>6, <1>11, <2>1, <3>1 DEF Settled
      <4> QED BY <2>1, <4>1 DEF Listed, Ids
    <3> QED BY <2>1, <3>1 DEF Listed
  <2>2. CASE s \notin Settled
    <3>1. PICK p \in Logging : s.name = fname[p]
      BY <1>3, <1>11, <2>2
    <3> QED BY <1>6, <1>11, <2>2, <3>1 DEF Listed
  <2> QED BY <2>1, <2>2
<1>12. ASSUME NEW q \in Logging, Begins PROVE fname[q] # urow'.name
  BY <1>6, <1>12 DEF Listed
<1>13. \A s \in Settled' : s.name \in CurrentNames'
  BY <1>7, <1>11
<1>14. \A q \in Logging' : fname'[q] \in CurrentNames'
  <2>1. ASSUME NEW q \in Logging' PROVE fname'[q] \in CurrentNames'
    <3>1. CASE q \in Logging /\ fname'[q] = fname[q]
      <4>1. fname[q] \in CurrentNames
        BY <3>1 DEF Listed
      <4> QED BY <1>7, <1>12, <3>1, <4>1
    <3>2. CASE q \in Finders /\ BackUpIndex(q) /\ fname'[q] = fname[q]
      BY <1>8, <3>2
    <3> QED BY <1>4, <2>1, <3>1, <3>2
  <2> QED BY <2>1
<1>15. \A r, s \in Settled' : r.name = s.name => r.id = s.id
  <2>1. ASSUME NEW r \in Settled', NEW s \in Settled', r.name = s.name, r \in Settled PROVE r.id = s.id
    <3>1. CASE s \in Settled
      BY <2>1, <3>1 DEF Listed
    <3>2. CASE s \notin Settled
      BY <1>3, <2>1, <3>2 DEF Listed
    <3> QED BY <3>1, <3>2
  <2>2. ASSUME NEW r \in Settled', NEW s \in Settled', r \notin Settled, s \notin Settled PROVE r.id = s.id
    <3>1. PICK p \in Logging : Logs(p) /\ r = NewRow(p)
      BY <1>3, <2>2
    <3>2. PICK q \in Logging : Logs(q) /\ s = NewRow(q)
      BY <1>3, <2>2
    <3> QED BY <3>1, <3>2 DEF NewRow
  <2> QED BY <2>1, <2>2
<1>16. \A r \in Settled', q \in Logging' : r.name # fname'[q]
  <2>1. ASSUME NEW r \in Settled', NEW q \in Logging' PROVE r.name # fname'[q]
    <3>1. CASE q \in Logging /\ fname'[q] = fname[q] /\ r \in Settled
      BY <3>1 DEF Listed
    <3>2. CASE q \in Logging /\ fname'[q] = fname[q] /\ r \notin Settled
      <4>1. PICK p \in Logging : Logs(p) /\ r.name = fname[p]
        BY <1>3, <2>1, <3>2
      <4>2. p # q
        BY <2>1, <4>1 DEF Logs, Logging, QuaTypes
      <4> QED BY <3>2, <4>1, <4>2 DEF Listed
    <3>3. CASE q \in Finders /\ BackUpIndex(q) /\ fname'[q] = fname[q] /\ fpc[q] = "index" /\ fpc'[q] = "rename"
      <4>1. r \in Settled
        <5>1. ASSUME r \notin Settled PROVE FALSE
          <6>1. PICK p \in Logging : Logs(p)
            BY <1>3, <2>1, <5>1
          <6>2. q = p /\ fpc[p] = "log"
            BY <1>9, <3>3, <6>1 DEF Logs, Logging
          <6> QED BY <3>3, <6>2
        <5> QED BY <5>1
      <4>2. r.name < CurrentNext
        BY <4>1 DEF Below
      <4> QED BY <1>8, <1>10, <3>3, <4>1, <4>2
    <3> QED BY <1>4, <2>1, <3>1, <3>2, <3>3
  <2> QED BY <2>1
<1>17. \A p, q \in Logging' : fname'[p] = fname'[q] => p = q
  <2>1. ASSUME NEW p \in Logging', NEW q \in Logging', fname'[p] = fname'[q], BackUpIndex(p), p \in Finders,
               fname'[p] = fname[p], fpc[p] = "index"
        PROVE  p = q
    <3>1. CASE q \in Logging /\ fname'[q] = fname[q]
      <4>1. fname[q] < CurrentNext /\ fname[q] \in Nat
        BY <3>1 DEF Below, Logging, QuaTypes, Names
      <4>2. fname[p] = CurrentNext /\ CurrentNext \in Nat
        BY <1>8, <2>1
      <4>3. fname[p] = fname[q]
        BY <2>1, <3>1
      <4> QED BY <4>1, <4>2, <4>3
    <3>2. CASE q \in Finders /\ fpc[q] = "index"
      BY <2>1, <3>2 DEF Alone
    <3> QED BY <1>4, <2>1, <3>1, <3>2
  <2>2. ASSUME NEW p \in Logging, NEW q \in Logging, fname'[p] = fname'[q],
               fname'[p] = fname[p], fname'[q] = fname[q]
        PROVE  p = q
    BY <2>2 DEF Listed
  <2> QED BY <1>4, <2>1, <2>2
<1>18. ASSUME upc' \in Busy
       PROVE  (\A r \in Settled' : r.name # urow'.name) /\ (\A q \in Logging' : fname'[q] # urow'.name)
  <2>1. CASE upc \in Busy /\ urow' = urow
    <3>1. (\A r \in Settled : r.name # urow.name) /\ (\A q \in Logging : fname[q] # urow.name)
      BY <2>1 DEF Listed, Busy
    <3>2. \A q \in Finders : fpc[q] # "index"
      BY <2>1 DEF Alone, Busy
    <3>3. \A r \in Settled' : r.name # urow'.name
      BY <1>3, <2>1, <3>1
    <3>4. \A q \in Logging' : fname'[q] # urow'.name
      BY <1>4, <2>1, <3>1, <3>2
    <3> QED BY <3>3, <3>4
  <2>2. CASE Begins
    <3>1. \A r \in Settled' : r.name # urow'.name
      BY <1>11, <2>2
    <3>2. fpc' = fpc /\ fname' = fname
      BY <2>2 DEF Begins, finder
    <3>3. Logging' = Logging
      BY <3>2 DEF Logging
    <3> QED BY <1>12, <2>2, <3>1, <3>2, <3>3
  <2> QED BY <1>5, <1>18, <2>1, <2>2
<1> QED BY <1>13, <1>14, <1>15, <1>16, <1>17, <1>18 DEF Listed, Busy

\* In order, every row's copy is in the folder and every entry of the index valid.
LEMMA InOrderStep ==
  ASSUME QuaTypes, Ids, Alone, Below, Listed, InOrder, [QuaNext]_quaVars, QuaTypes', Alone',
         DaemonDies => AtRest, harm' = {}
  PROVE  InOrder'
<1> DEFINE Busy == {"copy", "index", "rename"}
<1>1. ASSUME NEW n \in Names, n < CurrentNext, upc = "unlink" => n # urow.name PROVE store'[n] = store[n]
  BY <1>1, TakenStep
<1>2. \A s \in rows' : s.name # Null
  <2>1. ASSUME NEW s \in rows' PROVE s.name # Null
    <3>1. CASE \E r \in rows : r.name = s.name
      BY <3>1 DEF InOrder
    <3>2. CASE \E p \in Finders : fpc[p] = "log" /\ s = NewRow(p)
      BY <3>2 DEF InOrder, NewRow
    <3> QED BY <2>1, <3>1, <3>2, RowStep
  <2> QED BY <2>1
<1>3. ASSUME NEW s \in Settled' PROVE store'[s.name] = s.file
  <2>1. CASE s \in Settled
    <3>1. s.name \in Names /\ s.name < CurrentNext
      BY <2>1 DEF Settled, Below, QuaTypes, Row
    <3>2. upc = "unlink" => s.name # urow.name
      BY <2>1 DEF Listed
    <3> QED BY <1>1, <2>1, <3>1, <3>2 DEF InOrder
  <2>2. CASE \E p \in Finders : fpc[p] = "log" /\ store' = store /\ s = NewRow(p)
    BY <2>2 DEF InOrder, NewRow
  <2> QED BY <1>3, <2>1, <2>2, RowStep
<1>4. ASSUME NEW q \in Finders, fpc'[q] \in {"index", "rename", "log"}
      PROVE  fname'[q] # Null /\ store'[fname'[q]] = ffile'[q]
  <2>1. CASE fpc[q] \in {"index", "rename", "log"} /\ fname'[q] = fname[q] /\ ffile'[q] = ffile[q]
    <3>1. fname[q] # Null /\ fname[q] \in Names /\ store[fname[q]] = ffile[q]
      BY <2>1 DEF InOrder, QuaTypes
    <3>2. CASE fpc[q] = "log"
      <4>1. q \in Logging
        BY <3>1, <3>2 DEF Logging
      <4>2. fname[q] < CurrentNext /\ (upc = "unlink" => fname[q] # urow.name)
        BY <4>1 DEF Below, Listed
      <4> QED BY <1>1, <2>1, <3>1, <4>2
    <3>3. CASE fpc[q] \in {"index", "rename"}
      <4>1. (\A p \in Finders : fpc[p] # "copy") /\ upc # "unlink"
        BY <3>3 DEF Alone
      <4>2. store'[fname[q]] = store[fname[q]]
        BY <3>1, <4>1, StoreStep
      <4> QED BY <2>1, <3>1, <4>2
    <3> QED BY <2>1, <3>2, <3>3
  <2>2. CASE fpc[q] = "copy" /\ fname'[q] = fname[q] /\ ffile'[q] = ffile[q] /\ store'[fname[q]] = ffile[q]
    BY <2>2, QuarantineConstants DEF QuaTypes, Names
  <2> QED BY <1>4, <2>1, <2>2, HolderStep
<1> DEFINE Clean(m, u, r) == \A i \in 1 .. Len(m) : m[i].valid \/ (u \in Busy /\ m[i].name = r.name)
<1>5. ReadMem # Null => Clean(ReadMem, upc, urow)
  <2>1. CASE mem # Null
    <3>1. ReadMem = mem
      BY <2>1, ReadIs
    <3> QED BY <2>1, <3>1 DEF InOrder
  <2>2. CASE mem = Null /\ ReadMem # Null
    <3>1. \A i \in 1 .. Len(ReadMem) : ReadMem[i] = [name |-> indexFile.names[i], valid |-> TRUE]
      BY <2>2, ReadIs
    <3>2. ASSUME NEW i \in 1 .. Len(ReadMem) PROVE ReadMem[i].valid
      <4>1. ReadMem[i] = [name |-> indexFile.names[i], valid |-> TRUE]
        BY <3>1
      <4> QED BY <4>1
    <3> QED BY <3>2
  <2> QED BY <2>1, <2>2
<1>6. mem' # Null => Clean(mem', upc', urow')
  <2> SUFFICES ASSUME mem' # Null PROVE Clean(mem', upc', urow')
    OBVIOUS
  <2>1. CASE mem' = mem /\ (upc \in Busy => upc' \in Busy /\ urow' = urow)
    BY <2>1 DEF InOrder
  <2>2. ASSUME NEW p \in Finders, FinderStep(p), ~ BackUpBegin(p) PROVE mem' = mem /\ UNCHANGED <<upc, urow>>
    BY <2>2 DEF FinderStep, Find, BackUpMissing, BackUpRefused, BackUpCopy, BackUpCopyFails,
       BackUpIndex, BackUpIndexFails, BackUpRename, BackUpLog, RemoveOriginal, GiveUp, FinderSame, user,
       index, WriteIndex, RenameIndex
  <2>3. ASSUME NEW p \in Finders, BackUpBegin(p) PROVE Clean(mem', upc', urow')
    <3>1. ReadMem # Null /\ UNCHANGED <<upc, urow>>
      BY <2>3 DEF BackUpBegin, FinderSame, user
    <3>2. mem' = EvictIn(ReadMem, Evicted(ReadMem))
      BY <2>3, <3>1 DEF BackUpBegin, EvictIn
    <3>3. ReadMem \in Seq(Marked) /\ Evicted(ReadMem) \in Int
      BY <3>1, ReadIs, QuarantineConstants DEF Evicted
    <3>4. ~ Evicted(ReadMem) > 0
      BY <2>3 DEF BackUpBegin
    <3> HIDE DEF ReadMem, Evicted
    <3>5. /\ Len(mem') = Len(ReadMem) /\ Len(ReadMem) \in Nat
          /\ \A i \in 1 .. Len(ReadMem) : mem'[i].name = ReadMem[i].name
          /\ \A i \in 1 .. Len(ReadMem) : mem'[i].valid <=> ReadMem[i].valid /\ i > Evicted(ReadMem)
      BY <3>2, <3>3, EvictIs
    <3> QED BY <1>5, <3>1, <3>3, <3>4, <3>5
  <2>4. ASSUME NEW r \in rows, RestoreBegin(r) PROVE Clean(mem', upc', urow')
    <3>1. ReadMem # Null /\ upc = "idle" /\ upc' = "copy" /\ urow' = r
      BY <2>4, PositionIs DEF RestoreBegin, Command
    <3>2. mem' = MarkIn(ReadMem, Position(ReadMem, r.name))
      BY <2>4 DEF RestoreBegin, MarkIn
    <3>3. /\ ReadMem \in Seq(Marked) /\ Position(ReadMem, r.name) \in 1 .. Len(ReadMem)
          /\ ReadMem[Position(ReadMem, r.name)].name = r.name
      BY <2>4, <3>1, ReadIs, PositionIs DEF RestoreBegin
    <3> HIDE DEF ReadMem, Position
    <3>4. /\ Len(mem') = Len(ReadMem)
          /\ \A i \in 1 .. Len(ReadMem) : mem'[i].name = ReadMem[i].name
          /\ \A i \in 1 .. Len(ReadMem) : mem'[i].valid <=> ReadMem[i].valid /\ i # Position(ReadMem, r.name)
      BY <3>2, <3>3, MarkIs
    <3> QED BY <1>5, <3>1, <3>3, <3>4
  <2>5. ASSUME NEW r \in rows, RestoreRefused(r) PROVE Clean(mem', upc', urow')
    <3>1. upc = "idle" /\ (mem' = mem \/ mem' = ReadMem)
      BY <2>5 DEF RestoreRefused, Command, index
    <3>2. mem' = ReadMem
      BY <3>1, ReadIs
    <3> QED BY <1>5, <3>1, <3>2
  <2>6. ASSUME RestoreCopy \/ RestoreIndex \/ (\E r \in rows : Delete(r)) \/ RestoreUnlink \/ CheckRight
               \/ CheckWrong \/ DeleteRow
        PROVE  mem' = mem /\ (upc \in Busy => upc' \in Busy /\ urow' = urow)
    BY <2>6 DEF RestoreCopy, RestoreIndex, Delete, Command, RestoreUnlink, CheckRight,
       CheckWrong, DeleteRow, index, WriteIndex
  <2>7. CASE RestoreCopyFails \/ RestoreRename \/ DaemonDies
    BY <2>7 DEF RestoreCopyFails, RestoreRename, RenameIndex, DaemonDies
  <2>8. ASSUME (\E r \in rows : Rechown(r)) \/ UNCHANGED quaVars PROVE mem' = mem /\ UNCHANGED <<upc, urow>>
    BY <2>8 DEF Rechown, quaVars, index, user
  <2> HIDE DEF Clean, Busy
  <2> QED BY <2>1, <2>2, <2>3, <2>4, <2>5, <2>6, <2>7, <2>8 DEF QuaNext, UserStep
<1> QED BY <1>2, <1>3, <1>4, <1>6 DEF InOrder

\* The copy of a file still to be removed stays.
LEMMA SavedStep ==
  ASSUME QuaTypes, Alone, Out, Saved, [QuaNext]_quaVars, QuaTypes', Alone',
         \A h \in {"overlap", "early", "vanished", "full", "index"} : h \notin harm /\ h \notin harm'
  PROVE  Saved'
<1>1. CASE DaemonDies
  <2>1. \A p \in Finders : fpc'[p] = "idle"
    BY <1>1 DEF DaemonDies
  <2> QED BY <2>1 DEF Saved
<1>2. CASE ~ DaemonDies
  <2>1. ASSUME NEW p \in Finders, fpc'[p] \in {"rename", "log", "remove"},
               fpc[p] \in {"rename", "log", "remove"}, fname'[p] = fname[p], ffile'[p] = ffile[p]
        PROVE  /\ fname'[p] \in Names /\ store'[fname'[p]] = ffile'[p]
               /\ fname'[p] \in CurrentNames' /\ fname'[p] < CurrentNext'
    <3>1. fname[p] \in Names /\ store[fname[p]] = ffile[p] /\ fname[p] \in CurrentNames /\ fname[p] < CurrentNext
      BY <2>1 DEF Saved, Without
    <3>2. upc = "unlink" => fname[p] # urow.name
      BY <3>1 DEF Out
    <3>3. store'[fname[p]] = store[fname[p]] /\ fname[p] < CurrentNext'
      BY <1>2, <3>1, <3>2, TakenStep
    <3>4. fname[p] \in CurrentNames'
      <4>1. CASE CurrentNames \subseteq CurrentNames'
        BY <3>1, <4>1
      <4>2. CASE upc = "idle" /\ upc' = "copy" /\ CurrentNames \ {urow'.name} \subseteq CurrentNames'
        <5>1. RestoreBegin(urow')
          BY <4>2, RestoreStep
        <5>2. Overlap \subseteq harm' /\ Early(urow') \subseteq harm'
          BY <5>1 DEF RestoreBegin
        <5>3. fpc[p] \in {"log", "remove"}
          BY <2>1, <5>2, NoOverlap
        <5>4. ffile[p] # store[urow'.name]
          BY <5>2, <5>3 DEF Early
        <5> QED BY <3>1, <4>2, <5>4
      <4> QED BY <1>2, <4>1, <4>2, CurrentStep DEF CurrentKept, NamesKept
    <3> QED BY <2>1, <3>1, <3>3, <3>4
  <2>2. ASSUME NEW p \in Finders, fpc[p] = "index", fname'[p] = fname[p], ffile'[p] = ffile[p]
        PROVE  /\ fname'[p] \in Names /\ store'[fname'[p]] = ffile'[p]
               /\ BackUpIndex(p) => fname'[p] \in CurrentNames' /\ fname'[p] < CurrentNext'
    <3>1. fname[p] \in Names /\ store[fname[p]] = ffile[p]
      BY <2>2 DEF Saved, Without
    <3>2. (\A q \in Finders : fpc[q] # "copy") /\ upc # "unlink"
      BY <2>2 DEF Alone
    <3>3. store'[fname[p]] = store[fname[p]]
      BY <3>1, <3>2, StoreStep
    <3> QED BY <2>2, <3>1, <3>3, IndexCurrent
  <2>3. ASSUME NEW p \in Finders, fpc[p] = "copy", fpc'[p] = "index", fname'[p] = fname[p], ffile'[p] = ffile[p],
               store'[fname[p]] = ffile[p]
        PROVE  fname'[p] \in Names /\ store'[fname'[p]] = ffile'[p]
    BY <2>3 DEF QuaTypes
  <2>4. ASSUME NEW p \in Finders
        PROVE  /\ fpc'[p] \in {"index", "rename", "log", "remove"} =>
                    fname'[p] \in Names /\ store'[fname'[p]] = ffile'[p]
               /\ fpc'[p] \in {"rename", "log", "remove"} =>
                    fname'[p] \in CurrentNames' /\ fname'[p] < CurrentNext'
    <3> SUFFICES ASSUME fpc'[p] \in {"index", "rename", "log", "remove"}
                 PROVE  /\ fname'[p] \in Names /\ store'[fname'[p]] = ffile'[p]
                        /\ fpc'[p] \in {"rename", "log", "remove"} =>
                             fname'[p] \in CurrentNames' /\ fname'[p] < CurrentNext'
      OBVIOUS
    <3> QED BY <2>1, <2>2, <2>3, HolderStep
  <2> QED BY <2>4 DEF Saved
<1> QED BY <1>1, <1>2

-----------------------------------------------------------------------------
(* The theorems.                                                           *)

LEMMA QuaInitInv == ASSUME QuaInit PROVE QuaInv /\ Saved
<1>1. QuaTypes
  BY QuarantineConstants DEF QuaInit, QuaTypes, Names, FinderPcs, UserPcs, Harms
<1>2. Numbers
  <2>1. Pending = {}
    BY DEF QuaInit, Pending
  <2>2. Cardinality(Pending) = 0
    BY <2>1, FS_EmptySet
  <2> QED BY <2>2 DEF QuaInit, Numbers
<1>3. rows = {} /\ harm = {} /\ upc = "idle" /\ (\A p \in Finders : fpc[p] = "idle")
      /\ indexFile = Null /\ tmp = Null /\ mem = Null
  BY DEF QuaInit
<1>4. Settled = {} /\ Logging = {} /\ ~ Renames
  BY <1>3 DEF Settled, Logging, Renames
<1>5. Alone /\ Out /\ Stale
  BY <1>3, <1>4 DEF Alone, Out, Stale
<1>6. Below /\ Listed /\ InOrder /\ Ids /\ Saved
  BY <1>3, <1>4 DEF Below, Listed, InOrder, Ids, Saved
<1> QED BY <1>1, <1>2, <1>3, <1>5, <1>6 DEF QuaInv

LEMMA QuaInvStep == ASSUME QuaInv, [QuaNext]_quaVars PROVE QuaInv'
<1>1. QuaTypes /\ Numbers /\ Ids
  BY DEF QuaInv
<1>2. QuaTypes' /\ Numbers' /\ Ids'
  BY <1>1, TypesStep, NumbersStep, IdsStep
<1>3. harm \subseteq harm'
  BY HarmGrows
<1>4. "restart" \in harm' => "full" \in harm'
  BY <1>3, RestartStep DEF QuaInv
<1>5. "crash" \notin harm' => (DaemonDies => AtRest)
  BY RestartStep
<1>6. ASSUME "overlap" \notin harm' PROVE Alone /\ Alone'
  <2>1. Alone
    BY <1>3, <1>6 DEF QuaInv, Without
  <2> QED BY <1>1, <1>6, <2>1, AloneStep
<1>11. ASSUME "overlap" \notin harm', "index" \notin harm' PROVE Out'
  <2>1. Out
    BY <1>3, <1>11 DEF QuaInv, Without
  <2> QED BY <1>1, <1>6, <1>11, <2>1, OutStep
<1>7. ASSUME "overlap" \notin harm', "crash" \notin harm' PROVE Stale'
  <2>1. Stale
    BY <1>3, <1>7 DEF QuaInv, Without
  <2> QED BY <1>1, <1>5, <1>6, <1>7, <2>1, StaleStep
<1>8. ASSUME "overlap" \notin harm', "crash" \notin harm', "restart" \notin harm', "index" \notin harm'
      PROVE  Below /\ Below'
  <2>1. Below /\ ("full" \notin harm => Listed)
    BY <1>3, <1>8 DEF QuaInv, Without
  <2> QED BY <1>1, <1>2, <1>5, <1>6, <1>8, <2>1, BelowStep
<1>9. ASSUME "overlap" \notin harm', "crash" \notin harm', "full" \notin harm', "index" \notin harm'
      PROVE  Listed /\ Listed'
  <2>1. Listed /\ Below
    BY <1>3, <1>4, <1>8, <1>9 DEF QuaInv, Without
  <2> QED BY <1>1, <1>2, <1>5, <1>6, <1>9, <2>1, ListedStep
<1>10. ASSUME harm' = {} PROVE InOrder'
  <2>1. InOrder /\ Below /\ Listed /\ Alone /\ Alone' /\ (DaemonDies => AtRest)
    BY <1>3, <1>5, <1>6, <1>8, <1>9, <1>10 DEF QuaInv
  <2> QED BY <1>1, <1>2, <1>10, <2>1, InOrderStep
<1> QED BY <1>2, <1>4, <1>6, <1>7, <1>8, <1>9, <1>10, <1>11 DEF QuaInv, Without

\* The invariant of the quarantine: where the index is, which numbers it has given
\* out, and which rows and copies can be told apart after what has happened
\* (RavQuaFile, Controller and MainEngine).
THEOREM QuarantineInvariance == QuaSpec => []QuaInv
<1>1. QuaInit => QuaInv
  BY QuaInitInv
<1>2. QuaInv /\ [QuaNext]_quaVars => QuaInv'
  BY QuaInvStep
<1> QED BY <1>1, <1>2, PTL DEF QuaSpec

\* In order, every row can be restored.
LEMMA OrderRestores == ASSUME QuaInv PROVE RestorableInOrder
<1> SUFFICES ASSUME harm = {}, AtRest, NEW r \in rows PROVE CanRestore(r)
  BY DEF RestorableInOrder, Restorable
<1>1. QuaTypes /\ Alone /\ Listed /\ InOrder
  BY DEF QuaInv, Without
<1>2. r \in Settled /\ ~ Renames
  BY <1>1 DEF Settled, InOrder, AtRest, Renames
<1>3. store[r.name] = r.file /\ r.name \in CurrentNames
  BY <1>1, <1>2 DEF InOrder, Listed
<1>4. CASE mem = Null
  BY <1>2, <1>3, <1>4 DEF CurrentNames, CanRestore, Indexed
<1>5. CASE mem # Null
  <2>1. Mirror /\ mem \in Seq(Marked) /\ indexFile.names \in Seq(Names)
    BY <1>1, <1>2, <1>5 DEF Alone, Mirror, QuaTypes, Index
  <2>2. r.name \in {mem[i].name : i \in {j \in 1 .. Len(mem) : mem[j].valid}}
    BY <1>2, <1>3, <1>5, <2>1, ValidIs DEF CurrentNames
  <2>3. \A x : x \in ToSet(indexFile.names) <=> \E i \in 1 .. Len(indexFile.names) : indexFile.names[i] = x
    BY <2>1, Elements
  <2>4. r.name \in ToSet(indexFile.names) /\ indexFile # Null
    BY <2>1, <2>2, <2>3 DEF Mirror
  <2> QED BY <1>3, <2>4 DEF CanRestore, Indexed
<1> QED BY <1>4, <1>5

\* No row names another file's copy.
LEMMA OwnCopies == ASSUME QuaInv PROVE CopyIsOwn
<1>1. ASSUME harm \cap {"overlap", "crash", "restart", "index"} = {}, NEW r \in rows, r.name # Null,
             ~ (upc # "idle" /\ r.id = urow.id)
      PROVE  store[r.name] \in {Null, r.file}
  <2>1. r \in Settled /\ Below
    BY <1>1 DEF QuaInv, Without, Settled
  <2> QED BY <2>1 DEF Below
<1>2. ASSUME "overlap" \notin harm, indexFile # Null PROVE IsInjective(indexFile.names)
  BY <1>2 DEF QuaInv, Without, Alone, Sound
<1> QED BY <1>1, <1>2 DEF CopyIsOwn

LEMMA TypesAreOK == ASSUME QuaInv PROVE QuaTypeOK
<1>1. QuaTypes
  BY DEF QuaInv
<1>2. /\ viruses \subseteq Paths /\ foreign \subseteq Paths /\ harm \subseteq Harms
      /\ store \in [Names -> Paths \cup {Null}]
  BY <1>1 DEF QuaTypes
<1>3. indexFile # Null => indexFile.next \in Nat /\ ToSet(indexFile.names) \subseteq Names
  <2>1. indexFile # Null => indexFile.next \in Nat /\ indexFile.names \in Seq(Names)
    BY <1>1 DEF QuaTypes, Index
  <2> QED BY <2>1, Elements
<1>4. mem # Null => \A i \in 1 .. Len(mem) : mem[i].name \in Names /\ mem[i].valid \in BOOLEAN
  <2>1. ASSUME mem # Null, NEW i \in 1 .. Len(mem) PROVE mem[i] \in Marked
    BY <1>1, <2>1 DEF QuaTypes
  <2> QED BY <2>1 DEF Marked
<1>5. \A r \in rows : r.id \in 1 .. lastId /\ r.file \in Paths /\ r.name \in Names \cup {Null}
  BY <1>1 DEF QuaTypes, Row
<1>6. tmp # Null => harm # {} \/ upc = "rename" \/ \E p \in Finders : fpc[p] = "rename"
  BY DEF QuaInv, Without, Stale, Renames
<1> QED BY <1>2, <1>3, <1>4, <1>5, <1>6 DEF QuaTypeOK

\* Rows, copies and index agree: in order, every row can be restored; a row names
\* its own file's copy or none, if no index file failed, the daemon did not die in
\* between and the numbers did not start again; and no two entries of the index share
\* one, unless two threads were in the index at a time (RavQuaFile::BackUpFile and
\* RestoreFile).
THEOREM RowsAreSafe == QuaSpec => []RowSafety
<1>1. QuaInv => RowSafety
  BY OrderRestores, OwnCopies, TypesAreOK DEF RowSafety
<1> QED BY <1>1, QuarantineInvariance, PTL

\* Originals are removed by finders, and by a restoration that fails.
LEMMA RemovedBy ==
  ASSUME QuaTypes, Saved, [QuaNext]_quaVars, NEW f \in viruses \ viruses'
  PROVE  \/ harm \cap {"overlap", "early", "vanished", "full", "index"} # {}
         \/ \E n \in Names : store[n] = f
         \/ \E p \in Finders : fpc[p] = "nocopy" /\ ffile[p] = f
<1>1. ASSUME NEW p \in Finders, FinderStep(p)
      PROVE  ffile[p] = f /\ fpc[p] \in {"remove", "nocopy"}
  BY <1>1 DEF FinderStep, Find, BackUpMissing, BackUpRefused, BackUpBegin, BackUpCopy,
     BackUpCopyFails, BackUpIndex, BackUpIndexFails, BackUpRename, BackUpLog, RemoveOriginal, GiveUp
<1>2. CASE \E p \in Finders : fpc[p] = "remove" /\ ffile[p] = f
  BY <1>2 DEF Saved, Without
<1>3. CASE RestoreCopyFails
  BY <1>3 DEF RestoreCopyFails, QuaTypes
<1>4. CASE UserStep /\ ~ RestoreCopyFails
  BY <1>4 DEF UserStep, RestoreRefused, RestoreBegin, Delete, RestoreCopy, RestoreIndex,
     RestoreRename, RestoreUnlink, CheckRight, CheckWrong, DeleteRow
<1>5. CASE DaemonDies \/ (\E r \in rows : Rechown(r)) \/ UNCHANGED quaVars
  BY <1>5 DEF DaemonDies, Rechown, quaVars
<1> QED BY <1>1, <1>2, <1>3, <1>4, <1>5 DEF QuaNext

\* The original of a finder that backs up is removed only when its copy is complete,
\* whenever the daemon dies, but for what RemovedHasCopy excepts; one that makes no
\* copy, or whose copy failed, may remove it all the same (Controller::ProcessVirus,
\* MainEngine::RespondDefenVirus).
THEOREM RemovedAreSaved == QuaSpec => RemovedHasCopy
<1> DEFINE Removal ==
      \A f \in viruses \ viruses' :
        \/ harm \cap {"overlap", "early", "vanished", "full", "index"} # {}
        \/ \E n \in Names : store[n] = f
        \/ \E p \in Finders : fpc[p] = "nocopy" /\ ffile[p] = f
<1>1. QuaInit => QuaInv /\ Saved
  BY QuaInitInv
<1>2. QuaInv /\ Saved /\ [QuaNext]_quaVars => QuaInv' /\ Saved'
  <2> SUFFICES ASSUME QuaInv, Saved, [QuaNext]_quaVars PROVE QuaInv' /\ Saved'
    OBVIOUS
  <2>1. QuaInv' /\ harm \subseteq harm'
    BY QuaInvStep, HarmGrows
  <2>2. CASE \A h \in {"overlap", "early", "vanished", "full", "index"} : h \notin harm'
    <3>1. \A h \in {"overlap", "early", "vanished", "full", "index"} : h \notin harm /\ h \notin harm'
      BY <2>1, <2>2
    <3>2. QuaTypes /\ Alone /\ Out /\ QuaTypes' /\ Alone'
      BY <2>1, <3>1 DEF QuaInv, Without
    <3> QED BY <2>1, <3>1, <3>2, SavedStep
  <2>3. CASE \E h \in {"overlap", "early", "vanished", "full", "index"} : h \in harm'
    BY <2>1, <2>3 DEF Saved, Without
  <2> QED BY <2>2, <2>3
<1>3. QuaInv /\ Saved /\ [QuaNext]_quaVars => [Removal]_quaVars
  <2>1. QuaInv => QuaTypes
    BY DEF QuaInv
  <2> QED BY <2>1, RemovedBy
<1> HIDE DEF Removal
<1>4. QuaSpec => [][Removal]_quaVars
  BY <1>1, <1>2, <1>3, PTL DEF QuaSpec
<1> QED BY <1>4 DEF RemovedHasCopy, Removal

-----------------------------------------------------------------------------
(* What the cache does with lists.                                         *)

\* The function behind FlattenSeq, on the first k lists.
Flat(s, u, n) == IF n = 1 THEN s[n] ELSE u[n - 1] \o s[n]
FlatTo(s, u, k) == u = [n \in 1 .. k |-> Flat(s, u, n)]

LEMMA FlatToExists == ASSUME NEW s, NEW k \in Nat PROVE \E u : FlatTo(s, u, k)
<1> DEFINE G == {m \in Nat : \E u : FlatTo(s, u, m)}
<1>1. \E u : FlatTo(s, u, 0)
  <2>1. FlatTo(s, [n \in 1 .. 0 |-> <<>>], 0)
    BY DEF FlatTo
  <2> QED BY <2>1
<1>2. ASSUME NEW m \in Nat, NEW v, FlatTo(s, v, m)
      PROVE  \E u : FlatTo(s, u, m + 1)
  <2> DEFINE u == [n \in 1 .. m + 1 |-> IF n <= m THEN v[n]
                     ELSE IF n = 1 THEN s[n] ELSE v[m] \o s[n]]
  <2>1. ASSUME NEW n \in 1 .. m + 1
        PROVE  u[n] = Flat(s, u, n)
    <3>1. CASE n <= m
      <4>1. v[n] = Flat(s, v, n)
        BY <1>2, <3>1 DEF FlatTo
      <4>2. u[n] = v[n] /\ (n # 1 => u[n - 1] = v[n - 1])
        BY <3>1
      <4> QED BY <4>1, <4>2 DEF Flat
    <3>2. CASE n = m + 1
      <4>1. n # 1 => u[n - 1] = v[m]
        BY <3>2
      <4>2. u[n] = IF n = 1 THEN s[n] ELSE v[m] \o s[n]
        BY <3>2
      <4> HIDE DEF u
      <4> QED BY <4>1, <4>2 DEF Flat
    <3>3. n <= m \/ n = m + 1
      OBVIOUS
    <3> HIDE DEF u
    <3> QED BY <3>1, <3>2, <3>3
  <2>2. FlatTo(s, u, m + 1)
    <3>1. u = [n \in 1 .. m + 1 |-> u[n]]
      OBVIOUS
    <3> HIDE DEF u
    <3> QED BY <2>1, <3>1 DEF FlatTo
  <2> QED BY <2>2
<1> HIDE DEF FlatTo
<1>3. 0 \in G /\ \A m \in Nat : m \in G => m + 1 \in G
  BY <1>1, <1>2
<1> HIDE DEF G
<1>4. k \in G
  BY <1>3, NatInduct
<1> QED BY <1>4 DEF G

LEMMA FlattenTo ==
  ASSUME NEW s, Len(s) \in Nat \ {0}
  PROVE  \E u : FlatTo(s, u, Len(s)) /\ FlattenSeq(s) = u[Len(s)]
<1> DEFINE v == CHOOSE u : FlatTo(s, u, Len(s))
<1>1. FlatTo(s, v, Len(s))
  BY FlatToExists
<1>2. FlattenSeq(s) = v[Len(s)]
  BY DEF FlatTo, Flat, FlattenSeq
<1> QED BY <1>1, <1>2

LEMMA Concat ==
  ASSUME NEW E, NEW s \in Seq(E), NEW t \in Seq(E)
  PROVE  s \o t \in Seq(E) /\ ToSet(s \o t) = ToSet(s) \cup ToSet(t)
<1> DEFINE r == s \o t
<1>1. /\ r \in Seq(E) /\ Len(r) = Len(s) + Len(t) /\ Len(s) \in Nat /\ Len(t) \in Nat
      /\ \A i \in 1 .. Len(s) : r[i] = s[i]
      /\ \A i \in 1 .. Len(t) : r[Len(s) + i] = t[i]
      /\ \A i \in 1 .. Len(r) : i > Len(s) => r[i] = t[i - Len(s)]
  OBVIOUS
<1> HIDE DEF r
<1>2. /\ \A x : x \in ToSet(r) <=> \E i \in 1 .. Len(r) : r[i] = x
      /\ \A x : x \in ToSet(s) <=> \E i \in 1 .. Len(s) : s[i] = x
      /\ \A x : x \in ToSet(t) <=> \E i \in 1 .. Len(t) : t[i] = x
  BY <1>1, Elements
<1>3. ASSUME NEW x \in ToSet(r) PROVE x \in ToSet(s) \cup ToSet(t)
  <2>1. PICK i \in 1 .. Len(r) : r[i] = x
    BY <1>2, <1>3
  <2>2. CASE i <= Len(s)
    BY <1>1, <1>2, <2>1, <2>2
  <2>3. CASE i > Len(s)
    <3>1. i - Len(s) \in 1 .. Len(t) /\ t[i - Len(s)] = x
      BY <1>1, <2>1, <2>3
    <3> QED BY <1>2, <3>1
  <2> QED BY <1>1, <2>1, <2>2, <2>3
<1>4. ASSUME NEW x \in ToSet(s) PROVE x \in ToSet(r)
  <2>1. PICK i \in 1 .. Len(s) : s[i] = x
    BY <1>2, <1>4
  <2>2. i \in 1 .. Len(r) /\ r[i] = x
    BY <1>1, <2>1
  <2> QED BY <1>2, <2>2
<1>5. ASSUME NEW x \in ToSet(t) PROVE x \in ToSet(r)
  <2>1. PICK i \in 1 .. Len(t) : t[i] = x
    BY <1>2, <1>5
  <2>2. Len(s) + i \in 1 .. Len(r) /\ r[Len(s) + i] = x
    BY <1>1, <2>1
  <2> QED BY <1>2, <2>2
<1> QED BY <1>1, <1>3, <1>4, <1>5 DEF r

\* All the lists, one after the other.
LEMMA FlattenIs ==
  ASSUME NEW E, NEW m \in Nat, NEW p \in [1 .. m -> Seq(E)]
  PROVE  /\ FlattenSeq(p) \in Seq(E)
         /\ \A x : x \in ToSet(FlattenSeq(p)) <=> \E k \in 1 .. m : x \in ToSet(p[k])
<1>1. Len(p) = m
  OBVIOUS
<1>2. CASE m = 0
  <2>1. p = <<>>
    BY <1>2
  <2>2. FlattenSeq(p) = <<>>
    BY <1>1, <1>2, <2>1 DEF FlattenSeq
  <2>3. ToSet(<<>>) = {} /\ <<>> \in Seq(E)
    BY DEF ToSet
  <2>4. 1 .. m = {}
    BY <1>2
  <2> QED BY <2>2, <2>3, <2>4
<1>3. CASE m # 0
  <2>1. PICK u : FlatTo(p, u, m) /\ FlattenSeq(p) = u[m]
    BY <1>1, <1>3, FlattenTo
  <2>2. \A n \in 1 .. m : u[n] = Flat(p, u, n)
    BY <2>1 DEF FlatTo
  <2> DEFINE G == {n \in Nat : n \in 1 .. m =>
                     /\ u[n] \in Seq(E)
                     /\ \A x : x \in ToSet(u[n]) <=> \E k \in 1 .. n : x \in ToSet(p[k])}
  <2>3. 0 \in G
    OBVIOUS
  <2>4. ASSUME NEW n \in Nat, n \in G PROVE n + 1 \in G
    <3>1. SUFFICES ASSUME n + 1 \in 1 .. m
                   PROVE  /\ u[n + 1] \in Seq(E)
                          /\ \A x : x \in ToSet(u[n + 1]) <=> \E k \in 1 .. n + 1 : x \in ToSet(p[k])
      OBVIOUS
    <3>2. u[n + 1] = Flat(p, u, n + 1) /\ p[n + 1] \in Seq(E)
      BY <2>2, <3>1
    <3>3. CASE n = 0
      BY <3>2, <3>3 DEF Flat
    <3>4. CASE n # 0
      <4>0. n + 1 # 1 /\ (n + 1) - 1 = n
        BY <3>4
      <4>1. u[n + 1] = u[n] \o p[n + 1]
        BY <3>2, <4>0 DEF Flat
      <4>2. u[n] \in Seq(E) /\ \A x : x \in ToSet(u[n]) <=> \E k \in 1 .. n : x \in ToSet(p[k])
        BY <2>4, <3>1, <3>4
      <4>3. u[n + 1] \in Seq(E) /\ ToSet(u[n + 1]) = ToSet(u[n]) \cup ToSet(p[n + 1])
        <5> DEFINE a == u[n]
                   b == p[n + 1]
        <5>1. a \in Seq(E) /\ b \in Seq(E)
          BY <3>2, <4>2
        <5> HIDE DEF a, b
        <5>2. a \o b \in Seq(E) /\ ToSet(a \o b) = ToSet(a) \cup ToSet(b)
          BY <5>1, Concat
        <5> QED BY <4>1, <5>2 DEF a, b
      <4>4. \A k : k \in 1 .. n + 1 <=> k \in 1 .. n \/ k = n + 1
        OBVIOUS
      <4>5. \A x : x \in ToSet(u[n + 1]) <=> \E k \in 1 .. n + 1 : x \in ToSet(p[k])
        BY <4>2, <4>3, <4>4
      <4> QED BY <4>3, <4>5
    <3> QED BY <3>3, <3>4
  <2> HIDE DEF G
  <2>5. m \in G
    BY <2>3, <2>4, NatInduct
  <2> QED BY <1>3, <2>1, <2>5 DEF G
<1> QED BY <1>2, <1>3

\* One element is taken out.
LEMMA RemoveIs ==
  ASSUME NEW E, NEW s \in Seq(E), NEW i \in 1 .. Len(s)
  PROVE  /\ RemoveAt(s, i) \in Seq(E)
         /\ ToSet(RemoveAt(s, i)) \subseteq ToSet(s)
         /\ ToSet(s) \subseteq ToSet(RemoveAt(s, i)) \cup {s[i]}
<1> DEFINE a == SubSeq(s, 1, i - 1)
           b == SubSeq(s, i + 1, Len(s))
<1>1. /\ a \in Seq(E) /\ Len(a) = i - 1 /\ \A j \in 1 .. i - 1 : a[j] = s[j]
      /\ b \in Seq(E) /\ Len(b) = Len(s) - i /\ \A j \in 1 .. Len(s) - i : b[j] = s[i + j]
  OBVIOUS
<1> HIDE DEF a, b
<1>2. RemoveAt(s, i) \in Seq(E) /\ ToSet(RemoveAt(s, i)) = ToSet(a) \cup ToSet(b)
  <2>1. RemoveAt(s, i) = a \o b
    BY DEF RemoveAt, a, b
  <2> QED BY <1>1, <2>1, Concat
<1>3. /\ \A x : x \in ToSet(a) <=> \E j \in 1 .. Len(a) : a[j] = x
      /\ \A x : x \in ToSet(b) <=> \E j \in 1 .. Len(b) : b[j] = x
      /\ \A x : x \in ToSet(s) <=> \E j \in 1 .. Len(s) : s[j] = x
  BY <1>1, Elements
<1>4. ASSUME NEW x \in ToSet(a) PROVE x \in ToSet(s)
  <2>1. PICK j \in 1 .. Len(a) : a[j] = x
    BY <1>3, <1>4
  <2>2. j \in 1 .. Len(s) /\ s[j] = x
    BY <1>1, <2>1
  <2> QED BY <1>3, <2>2
<1>5. ASSUME NEW x \in ToSet(b) PROVE x \in ToSet(s)
  <2>1. PICK j \in 1 .. Len(b) : b[j] = x
    BY <1>3, <1>5
  <2>2. i + j \in 1 .. Len(s) /\ s[i + j] = x
    BY <1>1, <2>1
  <2> QED BY <1>3, <2>2
<1>6. ASSUME NEW x \in ToSet(s), x # s[i] PROVE x \in ToSet(a) \cup ToSet(b)
  <2>1. PICK j \in 1 .. Len(s) : s[j] = x
    BY <1>3, <1>6
  <2>2. CASE j < i
    <3>1. j \in 1 .. Len(a) /\ a[j] = x
      BY <1>1, <2>1, <2>2
    <3> QED BY <1>3, <3>1
  <2>3. CASE j > i
    <3>1. j - i \in 1 .. Len(b) /\ b[j - i] = x
      BY <1>1, <2>1, <2>3
    <3> QED BY <1>3, <3>1
  <2> QED BY <1>6, <2>1, <2>2, <2>3
<1> QED BY <1>2, <1>4, <1>5, <1>6

-----------------------------------------------------------------------------
(* The white-file cache: the inductive invariant.                          *)

CachePcs == {"none", "lock", "run", "store", "clear", "load"}
ScanPcs == {"idle", "scan", "probe", "cache", "put"}
Statuses == {"UNLOAD", "LOADING", "LOADED", "SWAP", "UNLOADING"}

CacheTypes ==
  /\ status \in Statuses /\ pool \in [Keys -> Seq(Entry)] /\ disk \in [Folders -> Seq(Entry)]
  /\ notes \in [Files -> Entry \cup {None}] /\ lastKey \in Keys \cup {0}
  /\ current \in Folders \cup {None}
  /\ judge \in Workers \cup {None} /\ cmutex \in Threads \cup {None}
  /\ tpc \in [Threads -> CachePcs] /\ wpc \in [Workers -> ScanPcs]
  /\ wfile \in [Workers -> Files \cup {None}]
  /\ file \in [Files -> [block : Blocks \cup {None}, time : 0 .. MaxTime]]
  /\ changes \in 0 .. MaxChanges /\ wrong \subseteq Files
  /\ \A w \in Workers : /\ wpc[w] # "idle" => wfile[w] \in Files
                        /\ wpc[w] = "probe" => block \in Blocks

Mutexes ==
  /\ \A w \in Workers : wpc[w] \in {"probe", "put"} <=> judge = w
  /\ \A t \in Threads : tpc[t] \in {"run", "store", "clear", "load"} <=> cmutex = t

\* Threads that will store or load the pool.
Ahead == {t \in Threads : tpc[t] \in {"lock", "run", "store", "load"}}

\* During a job one thread at most has work ahead, the status tells, and only
\* then nobody may use the pool.
StatusTells ==
  /\ \A w \in Workers : wpc[w] # "idle" => fin = 0
  /\ judge # None => status = "LOADED"
  /\ fin = 0 =>
       /\ \A t, u \in Ahead : t = u
       /\ Ahead # {} => status \in {"LOADING", "UNLOADING"}
       /\ \A t \in Threads : tpc[t] = "clear" => status \notin {"LOADED", "SWAP"}
       /\ status = "UNLOAD" => ~ Size \/ \E t \in Threads : tpc[t] = "clear"

\* What the file in the pool had is still there.
Pooled == {e \in Entry : \E k \in Keys : e \in ToSet(pool[k])}
Covers == current # None => ToSet(disk[current]) \subseteq Pooled \cup erased
PoolCovers ==
  /\ fin = 0 /\ status = "LOADED" => Covers
  /\ Size => Covers \/ \E t \in Threads : tpc[t] = "clear"
  /\ \A t \in Threads : tpc[t] = "store" => Covers

\* As long as no file changes, and no two begin alike: whatever is cached or about
\* to be was judged white.
KeysTell == \A b, c \in Blocks : KeyOf[b] = KeyOf[c] => b = c
DiskJudged == \A d \in Folders : \A e \in ToSet(disk[d]) : e.block \in white
PoolJudged == \A e \in Pooled : e.block \in white
KeyJudged == \A k \in Keys : pool[k] # <<>> => \E b \in white : KeyOf[b] = k
NotesTell == \A f \in Files :
  /\ file[f].block \in Blocks
  /\ notes[f] # None => notes[f].block = file[f].block
WorkJudged == \A w \in Workers :
  /\ wpc[w] \in {"cache", "put"} => file[wfile[w]].block \in white
  /\ wpc[w] = "probe" => block = file[wfile[w]].block
AllJudged ==
  /\ DiskJudged /\ PoolJudged /\ KeyJudged /\ NotesTell /\ WorkJudged
  /\ white \subseteq Blocks /\ wrong = {}

CacheInv ==
  /\ CacheTypes /\ Mutexes /\ StatusTells /\ PoolCovers
  /\ changes = 0 /\ KeysTell => AllJudged

\* A key is a key; an entry has a block and a time.
LEMMA EntryIs ==
  ASSUME NEW b \in Blocks, NEW n \in 0 .. MaxTime
  PROVE  [block |-> b, time |-> n] \in Entry /\ KeyOf[b] \in Keys /\ MaxKey \in Nat
  BY ScanCacheConstants DEF Entry, Keys

\* What a lookup that finds an old entry does to the pool.
LEMMA EraseIs ==
  ASSUME CacheTypes, NEW w \in Workers, ProbeErase(w)
  PROVE  /\ pool' \in [Keys -> Seq(Entry)] /\ erased \subseteq erased'
         /\ Pooled' \subseteq Pooled /\ Pooled \subseteq Pooled' \cup erased'
         /\ \A k \in Keys : pool'[k] # <<>> => pool[k] # <<>>
<1> DEFINE k == KeyOf[block]
           s == pool[k]
           r == RemoveAt(s, Found)
<1>1. k \in Keys /\ s \in Seq(Entry)
  <2>1. block \in Blocks
    BY DEF CacheTypes, ProbeErase
  <2> QED BY <2>1, ScanCacheConstants DEF CacheTypes, Keys
<1>2. Found \in 1 .. Len(s) /\ s # <<>>
  <2> DEFINE I == {i \in 1 .. Len(s) : s[i].block = block}
  <2>1. Found = IF I # {} THEN Min(I) ELSE 0
    BY DEF Found, Bucket, SelectInSeq
  <2>2. Found # 0
    BY DEF ProbeErase
  <2>3. I \in SUBSET Nat
    BY <1>1
  <2> HIDE DEF I
  <2>4. I # {} => \E x \in I : \A y \in I : x <= y
    BY <2>3, LeastExists
  <2>5. Found \in I
    BY <2>1, <2>2, <2>4 DEF Min
  <2>6. Found \in 1 .. Len(s)
    BY <2>5 DEF I
  <2> QED BY <1>1, <2>6
<1>3. /\ r \in Seq(Entry) /\ ToSet(r) \subseteq ToSet(s)
      /\ ToSet(s) \subseteq ToSet(r) \cup {s[Found]}
  BY <1>1, <1>2, RemoveIs
<1>4. pool' = [pool EXCEPT ![k] = r] /\ erased' = erased \cup {s[Found]} /\ pool \in [Keys -> Seq(Entry)]
  BY DEF ProbeErase, Bucket, CacheTypes
<1> HIDE DEF k, s, r
<1>5. pool' \in [Keys -> Seq(Entry)] /\ \A j \in Keys : pool'[j] = IF j = k THEN r ELSE pool[j]
  BY <1>1, <1>3, <1>4
<1>6. s = pool[k]
  BY DEF s
<1> QED BY <1>1, <1>2, <1>3, <1>4, <1>5, <1>6 DEF Pooled

\* What caching an entry does to it.
LEMMA PutIs ==
  ASSUME CacheTypes, NEW e \in Entry, Put(e)
  PROVE  /\ pool' \in [Keys -> Seq(Entry)]
         /\ Pooled \subseteq Pooled' /\ Pooled' \subseteq Pooled \cup {e}
         /\ \A k \in Keys : pool'[k] # <<>> => pool[k] # <<>> \/ k = KeyOf[e.block]
<1>0. KeyOf[e.block] \in Keys /\ pool \in [Keys -> Seq(Entry)] /\ <<>> \in Seq(Entry)
  <2>1. KeyOf[e.block] \in Keys
    BY ScanCacheConstants DEF Entry, Keys
  <2>2. pool \in [Keys -> Seq(Entry)]
    BY DEF CacheTypes
  <2> QED BY <2>1, <2>2
<1> DEFINE Grows(k) == pool' = [pool EXCEPT ![k] = Append(pool[k], e)]
<1>1. \/ lastKey \in Keys /\ pool[lastKey] # <<>> /\ Grows(lastKey)
      \/ pool[KeyOf[e.block]] = <<>> /\ Grows(KeyOf[e.block])
      \/ pool' = pool
  <2>1. Append(<<>>, e) = <<e>>
    OBVIOUS
  <2> QED BY <2>1 DEF Put
<1>2. ASSUME NEW k \in Keys, Grows(k), pool[k] # <<>> \/ k = KeyOf[e.block]
      PROVE  /\ pool' \in [Keys -> Seq(Entry)]
             /\ Pooled \subseteq Pooled' /\ Pooled' \subseteq Pooled \cup {e}
             /\ \A j \in Keys : pool'[j] # <<>> => pool[j] # <<>> \/ j = KeyOf[e.block]
  <2> DEFINE s == pool[k]
             r == Append(s, e)
  <2>1. s \in Seq(Entry) /\ r \in Seq(Entry) /\ r # <<>>
    BY <1>0
  <2>2. ToSet(r) = ToSet(s) \cup {e}
    BY <2>1, Elements
  <2> HIDE DEF r
  <2>3. pool' = [pool EXCEPT ![k] = r]
    BY <1>2 DEF r
  <2>4. pool' \in [Keys -> Seq(Entry)] /\ \A j \in Keys : pool'[j] = IF j = k THEN r ELSE pool[j]
    BY <1>0, <2>1, <2>3
  <2> QED BY <1>2, <2>2, <2>4 DEF Pooled
<1> HIDE DEF Grows
<1>3. CASE pool' = pool
  BY <1>0, <1>3 DEF Pooled
<1> QED BY <1>0, <1>1, <1>2, <1>3

\* Loading: the buckets hold what the file holds.
LEMMA LoadIs ==
  ASSUME CacheTypes, NEW t \in Threads, Load(t)
  PROVE  /\ pool' \in [Keys -> Seq(Entry)] /\ Pooled' = ToSet(OnDisk)
         /\ \A k \in Keys : pool'[k] # <<>> => \E e \in ToSet(OnDisk) : KeyOf[e.block] = k
         /\ current # None => current \in Folders /\ OnDisk = disk[current]
<1> DEFINE Of(k) == {e \in ToSet(OnDisk) : KeyOf[e.block] = k}
<1>1. OnDisk \in Seq(Entry) /\ (current # None => current \in Folders /\ OnDisk = disk[current])
  BY DEF OnDisk, CacheTypes
<1>2. ToSet(OnDisk) \subseteq Entry
  BY <1>1, Elements
<1>3. \A k \in Keys : Kept(OnDisk, Of(k)) \in Seq(Entry) /\ ToSet(Kept(OnDisk, Of(k))) = Of(k)
  <2> TAKE k \in Keys
  <2> DEFINE S == Of(k)
  <2>1. S \subseteq ToSet(OnDisk)
    OBVIOUS
  <2> HIDE DEF S
  <2>2. Kept(OnDisk, S) \in Seq(Entry) /\ ToSet(Kept(OnDisk, S)) = ToSet(OnDisk) \cap S
    BY <1>1, KeptIs
  <2> QED BY <2>1, <2>2 DEF S
<1>4. pool' = [k \in Keys |-> Kept(OnDisk, Of(k))]
  BY DEF Load
<1>5. \A e \in Entry : KeyOf[e.block] \in Keys
  BY ScanCacheConstants DEF Entry, Keys
<1>6. \A k \in Keys : pool'[k] \in Seq(Entry) /\ \A e : e \in ToSet(pool'[k]) <=> e \in ToSet(OnDisk) /\ KeyOf[e.block] = k
  BY <1>3, <1>4
<1>7. pool' \in [Keys -> Seq(Entry)]
  BY <1>3, <1>4
<1> HIDE DEF Of
<1>8. Pooled' = ToSet(OnDisk)
  BY <1>2, <1>5, <1>6 DEF Pooled
<1>9. \A k \in Keys : pool'[k] # <<>> => ToSet(pool'[k]) # {}
  BY <1>7, Elements
<1> QED BY <1>1, <1>6, <1>7, <1>8, <1>9

\* Storing: the file holds what the buckets held.
LEMMA StoreIs ==
  ASSUME CacheTypes, NEW t \in Threads, Store(t)
  PROVE  /\ disk' \in [Folders -> Seq(Entry)]
         /\ \A d \in Folders : ToSet(disk'[d]) = IF d = current THEN Pooled ELSE ToSet(disk[d])
<1> DEFINE p == [k \in Keys |-> pool[k]]
<1>1. p \in [1 .. MaxKey -> Seq(Entry)] /\ MaxKey \in Nat /\ \A k \in Keys : p[k] = pool[k]
  BY ScanCacheConstants DEF CacheTypes, Keys
<1>2. disk' = [d \in Folders |-> IF d = current THEN FlattenSeq(p) ELSE disk[d]]
  BY DEF Store
<1> HIDE DEF p
<1>3. FlattenSeq(p) \in Seq(Entry)
  BY <1>1, FlattenIs
<1>4. \A x : x \in ToSet(FlattenSeq(p)) <=> \E k \in 1 .. MaxKey : x \in ToSet(p[k])
  BY <1>1, FlattenIs
<1>5. ToSet(FlattenSeq(p)) \subseteq Entry
  BY <1>3, Elements
<1>6. ToSet(FlattenSeq(p)) = Pooled
  BY <1>1, <1>4, <1>5 DEF Pooled, Keys
<1> QED BY <1>2, <1>3, <1>6 DEF CacheTypes

\* What is cached is an entry: the note of the file, or one made afresh.
LEMMA PutsEntry ==
  ASSUME CacheTypes, NEW w \in Workers, CachePut(w)
  PROVE  \E e \in Entry : /\ Put(e)
                          /\ notes[wfile[w]] = None => e \in Fresh(wfile[w])
                          /\ notes[wfile[w]] # None => e = notes[wfile[w]]
<1>1. wfile[w] \in Files /\ 0 \in 0 .. MaxTime
  BY ScanCacheConstants DEF CacheTypes, CachePut
<1>2. Fresh(wfile[w]) \subseteq Entry
  BY <1>1 DEF Fresh, Entry, CacheTypes
<1>3. notes[wfile[w]] # None => notes[wfile[w]] \in Entry
  BY <1>1 DEF CacheTypes
<1> QED BY <1>2, <1>3 DEF CachePut

\* Every step keeps the types.
LEMMA CacheTypesStep ==
  ASSUME CacheTypes, Mutexes, [CacheNext]_allVars
  PROVE  CacheTypes'
<1>1. ASSUME NEW w \in Workers, NEW f \in Files, LookUnload(w, f) PROVE CacheTypes'
  BY <1>1, ScanCacheConstants DEF CacheTypes, CachePcs, ScanPcs, Statuses, LookUnload, Ask,
     AskEngine, Create, cacheHistory
<1>2. ASSUME NEW w \in Workers, NEW f \in Files, LookBusy(w, f) PROVE CacheTypes'
  BY <1>2 DEF CacheTypes, CachePcs, ScanPcs, Statuses, LookBusy, Ask, AskEngine,
     cacheHistory
<1>3. ASSUME NEW w \in Workers, NEW f \in Files, LookSwap(w, f) PROVE CacheTypes'
  BY <1>3 DEF CacheTypes, CachePcs, ScanPcs, Statuses, LookSwap, Ask, AskEngine, Create,
     cacheHistory
<1>4. ASSUME NEW w \in Workers, NEW f \in Files, LookOther(w, f) PROVE CacheTypes'
  BY <1>4 DEF CacheTypes, CachePcs, ScanPcs, Statuses, LookOther, Ask, AskEngine,
     cacheHistory
<1>5. ASSUME NEW w \in Workers, NEW f \in Files, LookUnreadable(w, f) PROVE CacheTypes'
  BY <1>5 DEF CacheTypes, CachePcs, ScanPcs, Statuses, LookUnreadable, Ask, workVars,
     cacheHistory
<1>6. ASSUME NEW w \in Workers, NEW f \in Files, LookLoaded(w, f) PROVE CacheTypes'
  <2>1. file[f].block \in Blocks /\ KeyOf[file[f].block] \in Keys
    BY <1>6, ScanCacheConstants DEF CacheTypes, Keys, LookLoaded
  <2> QED BY <1>6, <2>1 DEF CacheTypes, CachePcs, ScanPcs, Statuses, LookLoaded, Ask,
             cacheHistory
<1>7. ASSUME NEW w \in Workers, ProbeErase(w) PROVE CacheTypes'
  <2>1. pool' \in [Keys -> Seq(Entry)]
    BY <1>7, EraseIs
  <2>2. Noted(wfile[w]) \in Entry
    BY <1>7 DEF ProbeErase, CacheTypes, Noted, Entry
  <2> HIDE DEF Noted
  <2> QED BY <1>7, <2>1, <2>2 DEF Mutexes, CacheTypes, CachePcs, ScanPcs, Statuses,
             ProbeErase, AskEngine, jobVars
<1>8. ASSUME NEW w \in Workers, ProbeNew(w) PROVE CacheTypes'
  <2>1. Noted(wfile[w]) \in Entry
    BY <1>8 DEF ProbeNew, CacheTypes, Noted, Entry
  <2> QED BY <1>8, <2>1 DEF Mutexes, CacheTypes, CachePcs, ScanPcs, Statuses, ProbeNew,
             AskEngine, jobVars, cacheHistory
<1>9. ASSUME NEW w \in Workers, ProbeWhite(w) PROVE CacheTypes'
  <2>1. \A v \in Workers : wpc'[v] # "probe"
    BY <1>9 DEF Mutexes, CacheTypes, CachePcs, ScanPcs, Statuses, ProbeWhite, poolVars,
       jobVars
  <2> QED BY <1>9, <2>1 DEF CacheTypes, CachePcs, ScanPcs, Statuses, ProbeWhite, poolVars,
             jobVars
<1>10. ASSUME NEW w \in Workers, ScanWhite(w) PROVE CacheTypes'
  BY <1>10 DEF CacheTypes, CachePcs, ScanPcs, Statuses, ScanWhite, poolVars, jobVars
<1>11. ASSUME NEW w \in Workers, ScanOther(w) PROVE CacheTypes'
  BY <1>11 DEF CacheTypes, CachePcs, ScanPcs, Statuses, ScanOther, poolVars, jobVars,
     cacheHistory
<1>12. ASSUME NEW w \in Workers, CacheTest(w) PROVE CacheTypes'
  BY <1>12 DEF CacheTypes, CachePcs, ScanPcs, Statuses, CacheTest, poolVars, jobVars,
     cacheHistory
<1>13. ASSUME NEW w \in Workers, CacheNot(w) PROVE CacheTypes'
  BY <1>13 DEF CacheTypes, CachePcs, ScanPcs, Statuses, CacheNot, poolVars, jobVars,
     cacheHistory
<1>14. ASSUME NEW w \in Workers, CachePut(w) PROVE CacheTypes'
  <2>1. PICK e \in Entry : Put(e)
    BY <1>14, PutsEntry
  <2>2. pool' \in [Keys -> Seq(Entry)]
    BY <2>1, PutIs
  <2> QED BY <1>14, <2>2 DEF CacheTypes, CachePcs, ScanPcs, Statuses, CachePut, jobVars,
             cacheHistory
<1>15. ASSUME NEW t \in Threads, Lock(t) PROVE CacheTypes'
  BY <1>15 DEF CacheTypes, CachePcs, ScanPcs, Statuses, Lock, ThreadSame, workVars, jobVars,
     cacheHistory
<1>16. ASSUME NEW t \in Threads, StoreBegin(t) PROVE CacheTypes'
  BY <1>16 DEF CacheTypes, CachePcs, ScanPcs, Statuses, StoreBegin, ThreadSame, workVars,
     jobVars, cacheHistory
<1>17. ASSUME NEW t \in Threads, Store(t) PROVE CacheTypes'
  <2>1. disk' \in [Folders -> Seq(Entry)]
    BY <1>17, StoreIs
  <2> QED BY <1>17, <2>1 DEF CacheTypes, CachePcs, ScanPcs, Statuses, Store, ThreadSame,
             workVars, jobVars, cacheHistory
<1>18. ASSUME NEW t \in Threads, Clear(t) PROVE CacheTypes'
  <2>1. pool' \in [Keys -> Seq(Entry)]
    BY <1>18 DEF Clear
  <2> QED BY <1>18, <2>1 DEF CacheTypes, CachePcs, ScanPcs, Statuses, Clear, ThreadSame,
             workVars, jobVars, cacheHistory
<1>19. ASSUME NEW t \in Threads, LoadBegin(t) PROVE CacheTypes'
  BY <1>19 DEF CacheTypes, CachePcs, ScanPcs, Statuses, LoadBegin, ThreadSame, workVars,
     jobVars, cacheHistory
<1>20. ASSUME NEW t \in Threads, Load(t) PROVE CacheTypes'
  <2>1. pool' \in [Keys -> Seq(Entry)]
    BY <1>20, LoadIs
  <2> QED BY <1>20, <2>1 DEF CacheTypes, CachePcs, ScanPcs, Statuses, Load, ThreadSame,
             workVars, jobVars, cacheHistory
<1>21. CASE Finished
  BY <1>21 DEF CacheTypes, CachePcs, ScanPcs, Statuses, Finished, Create, poolVars,
     workVars, cacheHistory
<1>22. CASE Release
  <2>1. pool' \in [Keys -> Seq(Entry)]
    BY <1>22 DEF Release
  <2> QED BY <1>22, <2>1 DEF CacheTypes, CachePcs, ScanPcs, Statuses, Release, workVars,
             cacheHistory
<1>23. CASE ReleaseInUse
  BY <1>23 DEF CacheTypes, CachePcs, ScanPcs, Statuses, ReleaseInUse, poolVars, workVars,
     cacheHistory
<1>24. ASSUME NEW f \in Files, ChangeFile(f) PROVE CacheTypes'
  <2>1. PICK b \in (Blocks \cup {None}) \ {file[f].block}, t \in {file[f].time, file[f].time + 1} :
          t <= MaxTime /\ file' = [file EXCEPT ![f] = [block |-> b, time |-> t]]
    BY <1>24 DEF ChangeFile
  <2>2. t \in 0 .. MaxTime /\ changes' \in 0 .. MaxChanges
    BY <1>24, <2>1, ScanCacheConstants DEF CacheTypes, ChangeFile
  <2>3. file' \in [Files -> [block : Blocks \cup {None}, time : 0 .. MaxTime]]
    BY <2>1, <2>2 DEF CacheTypes
  <2> QED BY <1>24, <2>2, <2>3 DEF CacheTypes, CachePcs, ScanPcs, Statuses, ChangeFile,
             poolVars, workVars, jobVars, cacheHistory
<1>25. CASE UNCHANGED allVars
  BY <1>25 DEF CacheTypes, CachePcs, ScanPcs, Statuses, allVars, poolVars, workVars,
     jobVars, cacheHistory
<1> QED BY <1>1, <1>2, <1>3, <1>4, <1>5, <1>6, <1>7, <1>8, <1>9, <1>10, <1>11, <1>12, <1>13,
           <1>14, <1>15, <1>16, <1>17, <1>18, <1>19, <1>20, <1>21, <1>22, <1>23, <1>24,
           <1>25 DEF CacheNext, ThreadStep

\* A mutex is held by who has locked it.
LEMMA MutexesStep ==
  ASSUME CacheTypes, Mutexes, [CacheNext]_allVars
  PROVE  Mutexes'
<1>1. ASSUME NEW w \in Workers, NEW f \in Files, LookUnload(w, f) PROVE Mutexes'
  BY ScanCacheConstants, <1>1 DEF CacheTypes, CachePcs, ScanPcs, Mutexes, LookUnload, Ask,
     AskEngine, Create, cacheHistory
<1>2. ASSUME NEW w \in Workers, NEW f \in Files, LookBusy(w, f) PROVE Mutexes'
  BY ScanCacheConstants, <1>2 DEF CacheTypes, CachePcs, ScanPcs, Mutexes, LookBusy, Ask,
     AskEngine, cacheHistory
<1>3. ASSUME NEW w \in Workers, NEW f \in Files, LookSwap(w, f) PROVE Mutexes'
  BY ScanCacheConstants, <1>3 DEF CacheTypes, CachePcs, ScanPcs, Mutexes, LookSwap, Ask,
     AskEngine, Create, cacheHistory
<1>4. ASSUME NEW w \in Workers, NEW f \in Files, LookOther(w, f) PROVE Mutexes'
  BY ScanCacheConstants, <1>4 DEF CacheTypes, CachePcs, ScanPcs, Mutexes, LookOther, Ask,
     AskEngine, cacheHistory
<1>5. ASSUME NEW w \in Workers, NEW f \in Files, LookUnreadable(w, f) PROVE Mutexes'
  BY ScanCacheConstants, <1>5 DEF CacheTypes, CachePcs, ScanPcs, Mutexes, LookUnreadable,
     Ask, workVars, cacheHistory
<1>6. ASSUME NEW w \in Workers, NEW f \in Files, LookLoaded(w, f) PROVE Mutexes'
  BY ScanCacheConstants, <1>6 DEF CacheTypes, CachePcs, ScanPcs, Mutexes, LookLoaded, Ask,
     cacheHistory
<1>7. ASSUME NEW w \in Workers, ProbeErase(w) PROVE Mutexes'
  BY ScanCacheConstants, <1>7 DEF CacheTypes, CachePcs, ScanPcs, Mutexes, ProbeErase,
     AskEngine, jobVars
<1>8. ASSUME NEW w \in Workers, ProbeNew(w) PROVE Mutexes'
  BY ScanCacheConstants, <1>8 DEF CacheTypes, CachePcs, ScanPcs, Mutexes, ProbeNew,
     AskEngine, jobVars, cacheHistory
<1>9. ASSUME NEW w \in Workers, ProbeWhite(w) PROVE Mutexes'
  BY ScanCacheConstants, <1>9 DEF CacheTypes, CachePcs, ScanPcs, Mutexes, ProbeWhite,
     poolVars, jobVars
<1>10. ASSUME NEW w \in Workers, ScanWhite(w) PROVE Mutexes'
  BY ScanCacheConstants, <1>10 DEF CacheTypes, CachePcs, ScanPcs, Mutexes, ScanWhite,
     poolVars, jobVars
<1>11. ASSUME NEW w \in Workers, ScanOther(w) PROVE Mutexes'
  BY ScanCacheConstants, <1>11 DEF CacheTypes, CachePcs, ScanPcs, Mutexes, ScanOther,
     poolVars, jobVars, cacheHistory
<1>12. ASSUME NEW w \in Workers, CacheTest(w) PROVE Mutexes'
  BY ScanCacheConstants, <1>12 DEF CacheTypes, CachePcs, ScanPcs, Mutexes, CacheTest,
     poolVars, jobVars, cacheHistory
<1>13. ASSUME NEW w \in Workers, CacheNot(w) PROVE Mutexes'
  BY ScanCacheConstants, <1>13 DEF CacheTypes, CachePcs, ScanPcs, Mutexes, CacheNot,
     poolVars, jobVars, cacheHistory
<1>14. ASSUME NEW w \in Workers, CachePut(w) PROVE Mutexes'
  BY ScanCacheConstants, <1>14 DEF CacheTypes, CachePcs, ScanPcs, Mutexes, CachePut,
     jobVars, cacheHistory
<1>15. ASSUME NEW t \in Threads, Lock(t) PROVE Mutexes'
  BY ScanCacheConstants, <1>15 DEF CacheTypes, CachePcs, ScanPcs, Mutexes, Lock, ThreadSame,
     workVars, jobVars, cacheHistory
<1>16. ASSUME NEW t \in Threads, StoreBegin(t) PROVE Mutexes'
  BY ScanCacheConstants, <1>16 DEF CacheTypes, CachePcs, ScanPcs, Mutexes, StoreBegin,
     ThreadSame, workVars, jobVars, cacheHistory
<1>17. ASSUME NEW t \in Threads, Store(t) PROVE Mutexes'
  BY ScanCacheConstants, <1>17 DEF CacheTypes, CachePcs, ScanPcs, Mutexes, Store,
     ThreadSame, workVars, jobVars, cacheHistory
<1>18. ASSUME NEW t \in Threads, Clear(t) PROVE Mutexes'
  BY ScanCacheConstants, <1>18 DEF CacheTypes, CachePcs, ScanPcs, Mutexes, Clear,
     ThreadSame, workVars, jobVars, cacheHistory
<1>19. ASSUME NEW t \in Threads, LoadBegin(t) PROVE Mutexes'
  BY ScanCacheConstants, <1>19 DEF CacheTypes, CachePcs, ScanPcs, Mutexes, LoadBegin,
     ThreadSame, workVars, jobVars, cacheHistory
<1>20. ASSUME NEW t \in Threads, Load(t) PROVE Mutexes'
  BY ScanCacheConstants, <1>20 DEF CacheTypes, CachePcs, ScanPcs, Mutexes, Load, ThreadSame,
     workVars, jobVars, cacheHistory
<1>21. CASE Finished
  BY ScanCacheConstants, <1>21 DEF CacheTypes, CachePcs, ScanPcs, Mutexes, Finished, Create,
     poolVars, workVars, cacheHistory
<1>22. CASE Release
  BY ScanCacheConstants, <1>22 DEF CacheTypes, CachePcs, ScanPcs, Mutexes, Release,
     workVars, cacheHistory
<1>23. CASE ReleaseInUse
  BY ScanCacheConstants, <1>23 DEF CacheTypes, CachePcs, ScanPcs, Mutexes, ReleaseInUse,
     poolVars, workVars, cacheHistory
<1>24. ASSUME NEW f \in Files, ChangeFile(f) PROVE Mutexes'
  BY ScanCacheConstants, <1>24 DEF CacheTypes, CachePcs, ScanPcs, Mutexes, ChangeFile,
     poolVars, workVars, jobVars, cacheHistory
<1>25. CASE UNCHANGED allVars
  BY ScanCacheConstants, <1>25 DEF CacheTypes, CachePcs, ScanPcs, Mutexes, allVars,
     poolVars, workVars, jobVars, cacheHistory
<1> QED BY <1>1, <1>2, <1>3, <1>4, <1>5, <1>6, <1>7, <1>8, <1>9, <1>10, <1>11, <1>12, <1>13,
           <1>14, <1>15, <1>16, <1>17, <1>18, <1>19, <1>20, <1>21, <1>22, <1>23, <1>24,
           <1>25 DEF CacheNext, ThreadStep

\* The status tells who may use the pool.
LEMMA StatusStep ==
  ASSUME CacheTypes, Mutexes, StatusTells, [CacheNext]_allVars
  PROVE  StatusTells'
<1>1. ASSUME NEW w \in Workers, NEW f \in Files, LookUnload(w, f) PROVE StatusTells'
  BY ScanCacheConstants, <1>1 DEF CacheTypes, CachePcs, ScanPcs, Statuses, Mutexes,
     StatusTells, Ahead, Size, LookUnload, Ask, AskEngine, Create, cacheHistory
<1>2. ASSUME NEW w \in Workers, NEW f \in Files, LookBusy(w, f) PROVE StatusTells'
  BY ScanCacheConstants, <1>2 DEF CacheTypes, CachePcs, ScanPcs, Statuses, Mutexes,
     StatusTells, Ahead, Size, LookBusy, Ask, AskEngine, cacheHistory
<1>3. ASSUME NEW w \in Workers, NEW f \in Files, LookSwap(w, f) PROVE StatusTells'
  BY ScanCacheConstants, <1>3 DEF CacheTypes, CachePcs, ScanPcs, Statuses, Mutexes,
     StatusTells, Ahead, Size, LookSwap, Ask, AskEngine, Create, cacheHistory
<1>4. ASSUME NEW w \in Workers, NEW f \in Files, LookOther(w, f) PROVE StatusTells'
  BY ScanCacheConstants, <1>4 DEF CacheTypes, CachePcs, ScanPcs, Statuses, Mutexes,
     StatusTells, Ahead, Size, LookOther, Ask, AskEngine, cacheHistory
<1>5. ASSUME NEW w \in Workers, NEW f \in Files, LookUnreadable(w, f) PROVE StatusTells'
  BY ScanCacheConstants, <1>5 DEF CacheTypes, CachePcs, ScanPcs, Statuses, Mutexes,
     StatusTells, Ahead, Size, LookUnreadable, Ask, workVars, cacheHistory
<1>6. ASSUME NEW w \in Workers, NEW f \in Files, LookLoaded(w, f) PROVE StatusTells'
  BY ScanCacheConstants, <1>6 DEF CacheTypes, CachePcs, ScanPcs, Statuses, Mutexes,
     StatusTells, Ahead, Size, LookLoaded, Ask, cacheHistory
<1>7. ASSUME NEW w \in Workers, ProbeErase(w) PROVE StatusTells'
  <2>1. Size' => Size
    BY <1>7, EraseIs DEF Size
  <2> QED BY <1>7, <2>1 DEF CacheTypes, CachePcs, ScanPcs, Statuses, Mutexes, StatusTells,
             Ahead, ProbeErase, AskEngine, jobVars
<1>8. ASSUME NEW w \in Workers, ProbeNew(w) PROVE StatusTells'
  BY ScanCacheConstants, <1>8 DEF CacheTypes, CachePcs, ScanPcs, Statuses, Mutexes,
     StatusTells, Ahead, Size, ProbeNew, AskEngine, jobVars, cacheHistory
<1>9. ASSUME NEW w \in Workers, ProbeWhite(w) PROVE StatusTells'
  BY ScanCacheConstants, <1>9 DEF CacheTypes, CachePcs, ScanPcs, Statuses, Mutexes,
     StatusTells, Ahead, Size, ProbeWhite, poolVars, jobVars
<1>10. ASSUME NEW w \in Workers, ScanWhite(w) PROVE StatusTells'
  BY ScanCacheConstants, <1>10 DEF CacheTypes, CachePcs, ScanPcs, Statuses, Mutexes,
     StatusTells, Ahead, Size, ScanWhite, poolVars, jobVars
<1>11. ASSUME NEW w \in Workers, ScanOther(w) PROVE StatusTells'
  BY ScanCacheConstants, <1>11 DEF CacheTypes, CachePcs, ScanPcs, Statuses, Mutexes,
     StatusTells, Ahead, Size, ScanOther, poolVars, jobVars, cacheHistory
<1>12. ASSUME NEW w \in Workers, CacheTest(w) PROVE StatusTells'
  BY ScanCacheConstants, <1>12 DEF CacheTypes, CachePcs, ScanPcs, Statuses, Mutexes,
     StatusTells, Ahead, Size, CacheTest, poolVars, jobVars, cacheHistory
<1>13. ASSUME NEW w \in Workers, CacheNot(w) PROVE StatusTells'
  BY ScanCacheConstants, <1>13 DEF CacheTypes, CachePcs, ScanPcs, Statuses, Mutexes,
     StatusTells, Ahead, Size, CacheNot, poolVars, jobVars, cacheHistory
<1>14. ASSUME NEW w \in Workers, CachePut(w) PROVE StatusTells'
  <2>0. judge # None => fin = 0 /\ status = "LOADED"
    BY DEF CacheTypes, Mutexes, StatusTells
  <2>1. \A v \in Workers : wpc'[v] # "idle" => fin' = 0
    BY <1>14, <2>0, ScanCacheConstants DEF CacheTypes, CachePcs, ScanPcs, Statuses, Mutexes,
       StatusTells, Ahead, Size, CachePut, jobVars, cacheHistory
  <2>2. judge' # None => status' = "LOADED"
    BY <1>14, <2>0, ScanCacheConstants DEF CacheTypes, CachePcs, ScanPcs, Statuses, Mutexes,
       StatusTells, Ahead, Size, CachePut, jobVars, cacheHistory
  <2>3. fin' = 0 => \A u, v \in Ahead' : u = v
    BY <1>14, <2>0, ScanCacheConstants DEF CacheTypes, CachePcs, ScanPcs, Statuses, Mutexes,
       StatusTells, Ahead, Size, CachePut, jobVars, cacheHistory
  <2>4. fin' = 0 /\ Ahead' # {} => status' \in {"LOADING", "UNLOADING"}
    BY <1>14, <2>0, ScanCacheConstants DEF CacheTypes, CachePcs, ScanPcs, Statuses, Mutexes,
       StatusTells, Ahead, Size, CachePut, jobVars, cacheHistory
  <2>5. fin' = 0 => \A u \in Threads : tpc'[u] = "clear" => status' \notin {"LOADED", "SWAP"}
    BY <1>14, <2>0, ScanCacheConstants DEF CacheTypes, CachePcs, ScanPcs, Statuses, Mutexes,
       StatusTells, Ahead, Size, CachePut, jobVars, cacheHistory
  <2>6. fin' = 0 /\ status' = "UNLOAD" => ~ Size' \/ \E u \in Threads : tpc'[u] = "clear"
    BY <1>14, <2>0, ScanCacheConstants DEF CacheTypes, CachePcs, ScanPcs, Statuses, Mutexes,
       StatusTells, Ahead, Size, CachePut, jobVars, cacheHistory
  <2> HIDE DEF Ahead, Size
  <2> QED BY <2>1, <2>2, <2>3, <2>4, <2>5, <2>6 DEF StatusTells
<1>15. ASSUME NEW t \in Threads, Lock(t) PROVE StatusTells'
  BY ScanCacheConstants, <1>15 DEF CacheTypes, CachePcs, ScanPcs, Statuses, Mutexes,
     StatusTells, Ahead, Size, Lock, ThreadSame, workVars, jobVars, cacheHistory
<1>16. ASSUME NEW t \in Threads, StoreBegin(t) PROVE StatusTells'
  <2>0. judge # None => fin = 0 /\ status = "LOADED"
    BY DEF CacheTypes, Mutexes, StatusTells
  <2>1. \A v \in Workers : wpc'[v] # "idle" => fin' = 0
    BY <1>16, <2>0, ScanCacheConstants DEF CacheTypes, CachePcs, ScanPcs, Statuses, Mutexes,
       StatusTells, Ahead, Size, StoreBegin, ThreadSame, workVars, jobVars, cacheHistory
  <2>2. judge' # None => status' = "LOADED"
    BY <1>16, <2>0, ScanCacheConstants DEF CacheTypes, CachePcs, ScanPcs, Statuses, Mutexes,
       StatusTells, Ahead, Size, StoreBegin, ThreadSame, workVars, jobVars, cacheHistory
  <2>3. fin' = 0 => \A u, v \in Ahead' : u = v
    BY <1>16, <2>0, ScanCacheConstants DEF CacheTypes, CachePcs, ScanPcs, Statuses, Mutexes,
       StatusTells, Ahead, Size, StoreBegin, ThreadSame, workVars, jobVars, cacheHistory
  <2>4. fin' = 0 /\ Ahead' # {} => status' \in {"LOADING", "UNLOADING"}
    BY <1>16, <2>0, ScanCacheConstants DEF CacheTypes, CachePcs, ScanPcs, Statuses, Mutexes,
       StatusTells, Ahead, Size, StoreBegin, ThreadSame, workVars, jobVars, cacheHistory
  <2>5. fin' = 0 => \A u \in Threads : tpc'[u] = "clear" => status' \notin {"LOADED", "SWAP"}
    BY <1>16, <2>0, ScanCacheConstants DEF CacheTypes, CachePcs, ScanPcs, Statuses, Mutexes,
       StatusTells, Ahead, Size, StoreBegin, ThreadSame, workVars, jobVars, cacheHistory
  <2>6. fin' = 0 /\ status' = "UNLOAD" => ~ Size' \/ \E u \in Threads : tpc'[u] = "clear"
    BY <1>16, <2>0, ScanCacheConstants DEF CacheTypes, CachePcs, ScanPcs, Statuses, Mutexes,
       StatusTells, Ahead, Size, StoreBegin, ThreadSame, workVars, jobVars, cacheHistory
  <2> HIDE DEF Ahead, Size
  <2> QED BY <2>1, <2>2, <2>3, <2>4, <2>5, <2>6 DEF StatusTells
<1>17. ASSUME NEW t \in Threads, Store(t) PROVE StatusTells'
  <2>0. judge # None => fin = 0 /\ status = "LOADED"
    BY DEF CacheTypes, Mutexes, StatusTells
  <2>1. \A v \in Workers : wpc'[v] # "idle" => fin' = 0
    BY <1>17, <2>0, ScanCacheConstants DEF CacheTypes, CachePcs, ScanPcs, Statuses, Mutexes,
       StatusTells, Ahead, Size, Store, ThreadSame, workVars, jobVars, cacheHistory
  <2>2. judge' # None => status' = "LOADED"
    BY <1>17, <2>0, ScanCacheConstants DEF CacheTypes, CachePcs, ScanPcs, Statuses, Mutexes,
       StatusTells, Ahead, Size, Store, ThreadSame, workVars, jobVars, cacheHistory
  <2>3. fin' = 0 => \A u, v \in Ahead' : u = v
    BY <1>17, <2>0, ScanCacheConstants DEF CacheTypes, CachePcs, ScanPcs, Statuses, Mutexes,
       StatusTells, Ahead, Size, Store, ThreadSame, workVars, jobVars, cacheHistory
  <2>4. fin' = 0 /\ Ahead' # {} => status' \in {"LOADING", "UNLOADING"}
    BY <1>17, <2>0, ScanCacheConstants DEF CacheTypes, CachePcs, ScanPcs, Statuses, Mutexes,
       StatusTells, Ahead, Size, Store, ThreadSame, workVars, jobVars, cacheHistory
  <2>5. fin' = 0 => \A u \in Threads : tpc'[u] = "clear" => status' \notin {"LOADED", "SWAP"}
    BY <1>17, <2>0, ScanCacheConstants DEF CacheTypes, CachePcs, ScanPcs, Statuses, Mutexes,
       StatusTells, Ahead, Size, Store, ThreadSame, workVars, jobVars, cacheHistory
  <2>6. fin' = 0 /\ status' = "UNLOAD" => ~ Size' \/ \E u \in Threads : tpc'[u] = "clear"
    BY <1>17, <2>0, ScanCacheConstants DEF CacheTypes, CachePcs, ScanPcs, Statuses, Mutexes,
       StatusTells, Ahead, Size, Store, ThreadSame, workVars, jobVars, cacheHistory
  <2> HIDE DEF Ahead, Size
  <2> QED BY <2>1, <2>2, <2>3, <2>4, <2>5, <2>6 DEF StatusTells
<1>18. ASSUME NEW t \in Threads, Clear(t) PROVE StatusTells'
  BY ScanCacheConstants, <1>18 DEF CacheTypes, CachePcs, ScanPcs, Statuses, Mutexes,
     StatusTells, Ahead, Size, Clear, ThreadSame, workVars, jobVars, cacheHistory
<1>19. ASSUME NEW t \in Threads, LoadBegin(t) PROVE StatusTells'
  <2>0. judge # None => fin = 0 /\ status = "LOADED"
    BY DEF CacheTypes, Mutexes, StatusTells
  <2>1. \A v \in Workers : wpc'[v] # "idle" => fin' = 0
    BY <1>19, <2>0, ScanCacheConstants DEF CacheTypes, CachePcs, ScanPcs, Statuses, Mutexes,
       StatusTells, Ahead, Size, LoadBegin, ThreadSame, workVars, jobVars, cacheHistory
  <2>2. judge' # None => status' = "LOADED"
    BY <1>19, <2>0, ScanCacheConstants DEF CacheTypes, CachePcs, ScanPcs, Statuses, Mutexes,
       StatusTells, Ahead, Size, LoadBegin, ThreadSame, workVars, jobVars, cacheHistory
  <2>3. fin' = 0 => \A u, v \in Ahead' : u = v
    BY <1>19, <2>0, ScanCacheConstants DEF CacheTypes, CachePcs, ScanPcs, Statuses, Mutexes,
       StatusTells, Ahead, Size, LoadBegin, ThreadSame, workVars, jobVars, cacheHistory
  <2>4. fin' = 0 /\ Ahead' # {} => status' \in {"LOADING", "UNLOADING"}
    BY <1>19, <2>0, ScanCacheConstants DEF CacheTypes, CachePcs, ScanPcs, Statuses, Mutexes,
       StatusTells, Ahead, Size, LoadBegin, ThreadSame, workVars, jobVars, cacheHistory
  <2>5. fin' = 0 => \A u \in Threads : tpc'[u] = "clear" => status' \notin {"LOADED", "SWAP"}
    BY <1>19, <2>0, ScanCacheConstants DEF CacheTypes, CachePcs, ScanPcs, Statuses, Mutexes,
       StatusTells, Ahead, Size, LoadBegin, ThreadSame, workVars, jobVars, cacheHistory
  <2>6. fin' = 0 /\ status' = "UNLOAD" => ~ Size' \/ \E u \in Threads : tpc'[u] = "clear"
    BY <1>19, <2>0, ScanCacheConstants DEF CacheTypes, CachePcs, ScanPcs, Statuses, Mutexes,
       StatusTells, Ahead, Size, LoadBegin, ThreadSame, workVars, jobVars, cacheHistory
  <2> HIDE DEF Ahead, Size
  <2> QED BY <2>1, <2>2, <2>3, <2>4, <2>5, <2>6 DEF StatusTells
<1>20. ASSUME NEW t \in Threads, Load(t) PROVE StatusTells'
  <2>0. judge # None => fin = 0 /\ status = "LOADED"
    BY DEF CacheTypes, Mutexes, StatusTells
  <2>1. \A v \in Workers : wpc'[v] # "idle" => fin' = 0
    BY <1>20, <2>0, ScanCacheConstants DEF CacheTypes, CachePcs, ScanPcs, Statuses, Mutexes,
       StatusTells, Ahead, Size, Load, ThreadSame, workVars, jobVars, cacheHistory
  <2>2. judge' # None => status' = "LOADED"
    BY <1>20, <2>0, ScanCacheConstants DEF CacheTypes, CachePcs, ScanPcs, Statuses, Mutexes,
       StatusTells, Ahead, Size, Load, ThreadSame, workVars, jobVars, cacheHistory
  <2>3. fin' = 0 => \A u, v \in Ahead' : u = v
    BY <1>20, <2>0, ScanCacheConstants DEF CacheTypes, CachePcs, ScanPcs, Statuses, Mutexes,
       StatusTells, Ahead, Size, Load, ThreadSame, workVars, jobVars, cacheHistory
  <2>4. fin' = 0 /\ Ahead' # {} => status' \in {"LOADING", "UNLOADING"}
    BY <1>20, <2>0, ScanCacheConstants DEF CacheTypes, CachePcs, ScanPcs, Statuses, Mutexes,
       StatusTells, Ahead, Size, Load, ThreadSame, workVars, jobVars, cacheHistory
  <2>5. fin' = 0 => \A u \in Threads : tpc'[u] = "clear" => status' \notin {"LOADED", "SWAP"}
    BY <1>20, <2>0, ScanCacheConstants DEF CacheTypes, CachePcs, ScanPcs, Statuses, Mutexes,
       StatusTells, Ahead, Size, Load, ThreadSame, workVars, jobVars, cacheHistory
  <2>6. fin' = 0 /\ status' = "UNLOAD" => ~ Size' \/ \E u \in Threads : tpc'[u] = "clear"
    BY <1>20, <2>0, ScanCacheConstants DEF CacheTypes, CachePcs, ScanPcs, Statuses, Mutexes,
       StatusTells, Ahead, Size, Load, ThreadSame, workVars, jobVars, cacheHistory
  <2> HIDE DEF Ahead, Size
  <2> QED BY <2>1, <2>2, <2>3, <2>4, <2>5, <2>6 DEF StatusTells
<1>21. CASE Finished
  <2>0. judge # None => fin = 0 /\ status = "LOADED"
    BY DEF CacheTypes, Mutexes, StatusTells
  <2>1. \A v \in Workers : wpc'[v] # "idle" => fin' = 0
    BY <1>21, <2>0, ScanCacheConstants DEF CacheTypes, CachePcs, ScanPcs, Statuses, Mutexes,
       StatusTells, Ahead, Size, Finished, Create, poolVars, workVars, cacheHistory
  <2>2. judge' # None => status' = "LOADED"
    BY <1>21, <2>0, ScanCacheConstants DEF CacheTypes, CachePcs, ScanPcs, Statuses, Mutexes,
       StatusTells, Ahead, Size, Finished, Create, poolVars, workVars, cacheHistory
  <2>3. fin' = 0 => \A u, v \in Ahead' : u = v
    BY <1>21, <2>0, ScanCacheConstants DEF CacheTypes, CachePcs, ScanPcs, Statuses, Mutexes,
       StatusTells, Ahead, Size, Finished, Create, poolVars, workVars, cacheHistory
  <2>4. fin' = 0 /\ Ahead' # {} => status' \in {"LOADING", "UNLOADING"}
    BY <1>21, <2>0, ScanCacheConstants DEF CacheTypes, CachePcs, ScanPcs, Statuses, Mutexes,
       StatusTells, Ahead, Size, Finished, Create, poolVars, workVars, cacheHistory
  <2>5. fin' = 0 => \A u \in Threads : tpc'[u] = "clear" => status' \notin {"LOADED", "SWAP"}
    BY <1>21, <2>0, ScanCacheConstants DEF CacheTypes, CachePcs, ScanPcs, Statuses, Mutexes,
       StatusTells, Ahead, Size, Finished, Create, poolVars, workVars, cacheHistory
  <2>6. fin' = 0 /\ status' = "UNLOAD" => ~ Size' \/ \E u \in Threads : tpc'[u] = "clear"
    BY <1>21, <2>0, ScanCacheConstants DEF CacheTypes, CachePcs, ScanPcs, Statuses, Mutexes,
       StatusTells, Ahead, Size, Finished, Create, poolVars, workVars, cacheHistory
  <2> HIDE DEF Ahead, Size
  <2> QED BY <2>1, <2>2, <2>3, <2>4, <2>5, <2>6 DEF StatusTells
<1>22. CASE Release
  <2>0. judge # None => fin = 0 /\ status = "LOADED"
    BY DEF CacheTypes, Mutexes, StatusTells
  <2>1. \A v \in Workers : wpc'[v] # "idle" => fin' = 0
    BY <1>22, <2>0, ScanCacheConstants DEF CacheTypes, CachePcs, ScanPcs, Statuses, Mutexes,
       StatusTells, Ahead, Size, Release, workVars, cacheHistory
  <2>2. judge' # None => status' = "LOADED"
    BY <1>22, <2>0, ScanCacheConstants DEF CacheTypes, CachePcs, ScanPcs, Statuses, Mutexes,
       StatusTells, Ahead, Size, Release, workVars, cacheHistory
  <2>3. fin' = 0 => \A u, v \in Ahead' : u = v
    BY <1>22, <2>0, ScanCacheConstants DEF CacheTypes, CachePcs, ScanPcs, Statuses, Mutexes,
       StatusTells, Ahead, Size, Release, workVars, cacheHistory
  <2>4. fin' = 0 /\ Ahead' # {} => status' \in {"LOADING", "UNLOADING"}
    BY <1>22, <2>0, ScanCacheConstants DEF CacheTypes, CachePcs, ScanPcs, Statuses, Mutexes,
       StatusTells, Ahead, Size, Release, workVars, cacheHistory
  <2>5. fin' = 0 => \A u \in Threads : tpc'[u] = "clear" => status' \notin {"LOADED", "SWAP"}
    BY <1>22, <2>0, ScanCacheConstants DEF CacheTypes, CachePcs, ScanPcs, Statuses, Mutexes,
       StatusTells, Ahead, Size, Release, workVars, cacheHistory
  <2>6. fin' = 0 /\ status' = "UNLOAD" => ~ Size' \/ \E u \in Threads : tpc'[u] = "clear"
    BY <1>22, <2>0, ScanCacheConstants DEF CacheTypes, CachePcs, ScanPcs, Statuses, Mutexes,
       StatusTells, Ahead, Size, Release, workVars, cacheHistory
  <2> HIDE DEF Ahead, Size
  <2> QED BY <2>1, <2>2, <2>3, <2>4, <2>5, <2>6 DEF StatusTells
<1>23. CASE ReleaseInUse
  BY ScanCacheConstants, <1>23 DEF CacheTypes, CachePcs, ScanPcs, Statuses, Mutexes,
     StatusTells, Ahead, Size, ReleaseInUse, poolVars, workVars, cacheHistory
<1>24. ASSUME NEW f \in Files, ChangeFile(f) PROVE StatusTells'
  BY ScanCacheConstants, <1>24 DEF CacheTypes, CachePcs, ScanPcs, Statuses, Mutexes,
     StatusTells, Ahead, Size, ChangeFile, poolVars, workVars, jobVars, cacheHistory
<1>25. CASE UNCHANGED allVars
  BY ScanCacheConstants, <1>25 DEF CacheTypes, CachePcs, ScanPcs, Statuses, Mutexes,
     StatusTells, Ahead, Size, allVars, poolVars, workVars, jobVars, cacheHistory
<1> QED BY <1>1, <1>2, <1>3, <1>4, <1>5, <1>6, <1>7, <1>8, <1>9, <1>10, <1>11, <1>12, <1>13,
           <1>14, <1>15, <1>16, <1>17, <1>18, <1>19, <1>20, <1>21, <1>22, <1>23, <1>24,
           <1>25 DEF CacheNext, ThreadStep

\* What is on disk stays in the pool, but for what lookups took out.
LEMMA CoversStep ==
  ASSUME CacheTypes, Mutexes, StatusTells, PoolCovers, [CacheNext]_allVars
  PROVE  PoolCovers'
<1>1. ASSUME NEW w \in Workers, NEW f \in Files, LookUnload(w, f) PROVE PoolCovers'
  <2>1. Size' => Size
    BY <1>1 DEF Size, LookUnload, Ask, AskEngine, Create, cacheHistory
  <2> QED BY <1>1, <2>1 DEF CacheTypes, CachePcs, ScanPcs, Mutexes, StatusTells, Ahead,
             PoolCovers, LookUnload, Ask, AskEngine, Create, cacheHistory
<1>2. ASSUME NEW w \in Workers, NEW f \in Files, LookBusy(w, f) PROVE PoolCovers'
  <2>1. (Covers => Covers') /\ (Size' => Size)
    BY <1>2 DEF Covers, Pooled, Size, LookBusy, Ask, AskEngine, cacheHistory
  <2> QED BY <1>2, <2>1 DEF CacheTypes, CachePcs, ScanPcs, Mutexes, StatusTells, Ahead,
             PoolCovers, LookBusy, Ask, AskEngine, cacheHistory
<1>3. ASSUME NEW w \in Workers, NEW f \in Files, LookSwap(w, f) PROVE PoolCovers'
  <2>1. (Covers => Covers') /\ (Size' => Size)
    BY <1>3 DEF Covers, Pooled, Size, LookSwap, Ask, AskEngine, Create, cacheHistory
  <2> QED BY <1>3, <2>1 DEF CacheTypes, CachePcs, ScanPcs, Mutexes, StatusTells, Ahead,
             PoolCovers, LookSwap, Ask, AskEngine, Create, cacheHistory
<1>4. ASSUME NEW w \in Workers, NEW f \in Files, LookOther(w, f) PROVE PoolCovers'
  <2>1. (Covers => Covers') /\ (Size' => Size)
    BY <1>4 DEF Covers, Pooled, Size, LookOther, Ask, AskEngine, cacheHistory
  <2> QED BY <1>4, <2>1 DEF CacheTypes, CachePcs, ScanPcs, Mutexes, StatusTells, Ahead,
             PoolCovers, LookOther, Ask, AskEngine, cacheHistory
<1>5. ASSUME NEW w \in Workers, NEW f \in Files, LookUnreadable(w, f) PROVE PoolCovers'
  <2>1. (Covers => Covers') /\ (Size' => Size)
    BY <1>5 DEF Covers, Pooled, Size, LookUnreadable, Ask, workVars, cacheHistory
  <2> QED BY <1>5, <2>1 DEF CacheTypes, CachePcs, ScanPcs, Mutexes, StatusTells, Ahead,
             PoolCovers, LookUnreadable, Ask, workVars, cacheHistory
<1>6. ASSUME NEW w \in Workers, NEW f \in Files, LookLoaded(w, f) PROVE PoolCovers'
  <2>1. (Covers => Covers') /\ (Size' => Size)
    BY <1>6 DEF Covers, Pooled, Size, LookLoaded, Ask, cacheHistory
  <2> QED BY <1>6, <2>1 DEF CacheTypes, CachePcs, ScanPcs, Mutexes, StatusTells, Ahead,
             PoolCovers, LookLoaded, Ask, cacheHistory
<1>7. ASSUME NEW w \in Workers, ProbeErase(w) PROVE PoolCovers'
  <2>1. Pooled \subseteq Pooled' \cup erased' /\ erased \subseteq erased' /\ (Size' => Size)
    BY <1>7, EraseIs DEF Size
  <2>2. current' = current /\ disk' = disk
    BY <1>7 DEF ProbeErase
  <2>3. Covers => Covers'
    BY <2>1, <2>2 DEF Covers
  <2> QED BY <1>7, <2>1, <2>3 DEF CacheTypes, CachePcs, ScanPcs, Mutexes, StatusTells,
             Ahead, PoolCovers, ProbeErase, AskEngine, jobVars
<1>8. ASSUME NEW w \in Workers, ProbeNew(w) PROVE PoolCovers'
  <2>1. (Covers => Covers') /\ (Size' => Size)
    BY <1>8 DEF Covers, Pooled, Size, ProbeNew, AskEngine, jobVars, cacheHistory
  <2> QED BY <1>8, <2>1 DEF CacheTypes, CachePcs, ScanPcs, Mutexes, StatusTells, Ahead,
             PoolCovers, ProbeNew, AskEngine, jobVars, cacheHistory
<1>9. ASSUME NEW w \in Workers, ProbeWhite(w) PROVE PoolCovers'
  <2>1. (Covers => Covers') /\ (Size' => Size)
    BY <1>9 DEF Covers, Pooled, Size, ProbeWhite, poolVars, jobVars
  <2> QED BY <1>9, <2>1 DEF CacheTypes, CachePcs, ScanPcs, Mutexes, StatusTells, Ahead,
             PoolCovers, ProbeWhite, poolVars, jobVars
<1>10. ASSUME NEW w \in Workers, ScanWhite(w) PROVE PoolCovers'
  <2>1. (Covers => Covers') /\ (Size' => Size)
    BY <1>10 DEF Covers, Pooled, Size, ScanWhite, poolVars, jobVars
  <2> QED BY <1>10, <2>1 DEF CacheTypes, CachePcs, ScanPcs, Mutexes, StatusTells, Ahead,
             PoolCovers, ScanWhite, poolVars, jobVars
<1>11. ASSUME NEW w \in Workers, ScanOther(w) PROVE PoolCovers'
  <2>1. (Covers => Covers') /\ (Size' => Size)
    BY <1>11 DEF Covers, Pooled, Size, ScanOther, poolVars, jobVars, cacheHistory
  <2> QED BY <1>11, <2>1 DEF CacheTypes, CachePcs, ScanPcs, Mutexes, StatusTells, Ahead,
             PoolCovers, ScanOther, poolVars, jobVars, cacheHistory
<1>12. ASSUME NEW w \in Workers, CacheTest(w) PROVE PoolCovers'
  <2>1. (Covers => Covers') /\ (Size' => Size)
    BY <1>12 DEF Covers, Pooled, Size, CacheTest, poolVars, jobVars, cacheHistory
  <2> QED BY <1>12, <2>1 DEF CacheTypes, CachePcs, ScanPcs, Mutexes, StatusTells, Ahead,
             PoolCovers, CacheTest, poolVars, jobVars, cacheHistory
<1>13. ASSUME NEW w \in Workers, CacheNot(w) PROVE PoolCovers'
  <2>1. (Covers => Covers') /\ (Size' => Size)
    BY <1>13 DEF Covers, Pooled, Size, CacheNot, poolVars, jobVars, cacheHistory
  <2> QED BY <1>13, <2>1 DEF CacheTypes, CachePcs, ScanPcs, Mutexes, StatusTells, Ahead,
             PoolCovers, CacheNot, poolVars, jobVars, cacheHistory
<1>14. ASSUME NEW w \in Workers, CachePut(w) PROVE PoolCovers'
  <2>1. PICK e \in Entry : Put(e)
    BY <1>14, PutsEntry
  <2>2. Pooled \subseteq Pooled'
    BY <2>1, PutIs
  <2>3. current' = current /\ disk' = disk /\ erased' = erased
    BY <1>14 DEF CachePut, cacheHistory
  <2>4. Covers => Covers'
    BY <2>2, <2>3 DEF Covers
  <2>5. Covers
    BY <1>14, ScanCacheConstants DEF CacheTypes, CachePcs, ScanPcs, Mutexes, StatusTells,
       Ahead, PoolCovers, CachePut
  <2> QED BY <1>14, <2>4, <2>5 DEF PoolCovers
<1>15. ASSUME NEW t \in Threads, Lock(t) PROVE PoolCovers'
  <2>1. (Covers => Covers') /\ (Size' => Size)
    BY <1>15 DEF Covers, Pooled, Size, Lock, ThreadSame, workVars, jobVars, cacheHistory
  <2> QED BY <1>15, <2>1 DEF CacheTypes, CachePcs, ScanPcs, Mutexes, StatusTells, Ahead,
             PoolCovers, Lock, ThreadSame, workVars, jobVars, cacheHistory
<1>16. ASSUME NEW t \in Threads, StoreBegin(t) PROVE PoolCovers'
  <2>1. (Covers => Covers') /\ (Size' => Size)
    BY <1>16 DEF Covers, Pooled, Size, StoreBegin, ThreadSame, workVars, jobVars,
       cacheHistory
  <2> QED BY <1>16, <2>1 DEF CacheTypes, CachePcs, ScanPcs, Mutexes, StatusTells, Ahead,
             PoolCovers, StoreBegin, ThreadSame, workVars, jobVars, cacheHistory
<1>17. ASSUME NEW t \in Threads, Store(t) PROVE PoolCovers'
  <2>1. current # None => current \in Folders
    BY DEF CacheTypes
  <2>2. current' = current /\ Pooled' = Pooled
    BY <1>17 DEF Store, ThreadSame, Pooled
  <2>3. current # None => ToSet(disk'[current]) = Pooled
    BY <1>17, <2>1, StoreIs
  <2>4. Covers'
    BY <2>2, <2>3 DEF Covers
  <2> QED BY <2>4 DEF PoolCovers
<1>18. ASSUME NEW t \in Threads, Clear(t) PROVE PoolCovers'
  <2>1. ~ Size'
    BY <1>18 DEF Clear, Size
  <2>2. fin' = 0 => status' # "LOADED"
    BY <1>18 DEF CacheTypes, CachePcs, ScanPcs, Mutexes, StatusTells, Ahead, PoolCovers,
       Clear, ThreadSame, workVars, jobVars, cacheHistory
  <2>3. \A u \in Threads : tpc'[u] # "store"
    BY <1>18 DEF CacheTypes, CachePcs, ScanPcs, Mutexes, StatusTells, Ahead, PoolCovers,
       Clear, ThreadSame, workVars, jobVars, cacheHistory
  <2> QED BY <2>1, <2>2, <2>3 DEF PoolCovers
<1>19. ASSUME NEW t \in Threads, LoadBegin(t) PROVE PoolCovers'
  <2>1. (Covers => Covers') /\ (Size' => Size)
    BY <1>19 DEF Covers, Pooled, Size, LoadBegin, ThreadSame, workVars, jobVars,
       cacheHistory
  <2> QED BY <1>19, <2>1 DEF CacheTypes, CachePcs, ScanPcs, Mutexes, StatusTells, Ahead,
             PoolCovers, LoadBegin, ThreadSame, workVars, jobVars, cacheHistory
<1>20. ASSUME NEW t \in Threads, Load(t) PROVE PoolCovers'
  <2>1. current' = current /\ disk' = disk
    BY <1>20 DEF Load, ThreadSame
  <2>2. Pooled' = ToSet(OnDisk) /\ (current # None => OnDisk = disk[current])
    BY <1>20, LoadIs
  <2>3. Covers'
    BY <2>1, <2>2 DEF Covers
  <2> QED BY <2>3 DEF PoolCovers
<1>21. CASE Finished
  <2>1. (Covers => Covers') /\ (Size' => Size)
    BY <1>21 DEF Covers, Pooled, Size, Finished, Create, poolVars, workVars, cacheHistory
  <2> QED BY <1>21, <2>1 DEF CacheTypes, CachePcs, ScanPcs, Mutexes, StatusTells, Ahead,
             PoolCovers, Finished, Create, poolVars, workVars, cacheHistory
<1>22. CASE Release
  <2>1. ~ Size'
    BY <1>22 DEF Release, Size
  <2> QED BY <1>22, <2>1 DEF PoolCovers, Release, workVars, cacheHistory
<1>23. CASE ReleaseInUse
  <2>1. (Covers => Covers') /\ (Size' => Size)
    BY <1>23 DEF Covers, Pooled, Size, ReleaseInUse, poolVars, workVars, cacheHistory
  <2> QED BY <1>23, <2>1 DEF CacheTypes, CachePcs, ScanPcs, Mutexes, StatusTells, Ahead,
             PoolCovers, ReleaseInUse, poolVars, workVars, cacheHistory
<1>24. ASSUME NEW f \in Files, ChangeFile(f) PROVE PoolCovers'
  <2>1. (Covers => Covers') /\ (Size' => Size)
    BY <1>24 DEF Covers, Pooled, Size, ChangeFile, poolVars, workVars, jobVars, cacheHistory
  <2> QED BY <1>24, <2>1 DEF CacheTypes, CachePcs, ScanPcs, Mutexes, StatusTells, Ahead,
             PoolCovers, ChangeFile, poolVars, workVars, jobVars, cacheHistory
<1>25. CASE UNCHANGED allVars
  <2>1. (Covers => Covers') /\ (Size' => Size)
    BY <1>25 DEF Covers, Pooled, Size, allVars, poolVars, workVars, jobVars, cacheHistory
  <2> QED BY <1>25, <2>1 DEF CacheTypes, CachePcs, ScanPcs, Mutexes, StatusTells, Ahead,
             PoolCovers, allVars, poolVars, workVars, jobVars, cacheHistory
<1> QED BY <1>1, <1>2, <1>3, <1>4, <1>5, <1>6, <1>7, <1>8, <1>9, <1>10, <1>11, <1>12, <1>13,
           <1>14, <1>15, <1>16, <1>17, <1>18, <1>19, <1>20, <1>21, <1>22, <1>23, <1>24,
           <1>25 DEF CacheNext, ThreadStep

\* As long as no file changes and no two begin alike, what is cached was judged.
LEMMA JudgedStep ==
  ASSUME CacheTypes, Mutexes, AllJudged, KeysTell, changes' = 0, [CacheNext]_allVars
  PROVE  AllJudged'
<1>1. ASSUME NEW w \in Workers, NEW f \in Files, LookUnload(w, f) PROVE AllJudged'
  <2>0. pool' = pool /\ disk' = disk /\ white \subseteq white'
    BY <1>1 DEF LookUnload, Ask, AskEngine, Create, cacheHistory
  <2>1. DiskJudged' /\ PoolJudged' /\ KeyJudged'
    BY <2>0 DEF AllJudged, DiskJudged, PoolJudged, KeyJudged, Pooled
  <2>2. NotesTell' /\ WorkJudged'
    BY <1>1 DEF AllJudged, CacheTypes, CachePcs, ScanPcs, Mutexes, NotesTell, WorkJudged,
       LookUnload, Ask, AskEngine, Create, cacheHistory
  <2>3. white' \subseteq Blocks /\ wrong' = {}
    BY <1>1 DEF AllJudged, CacheTypes, CachePcs, ScanPcs, Mutexes, LookUnload, Ask,
       AskEngine, Create, cacheHistory
  <2> QED BY <2>1, <2>2, <2>3 DEF AllJudged
<1>2. ASSUME NEW w \in Workers, NEW f \in Files, LookBusy(w, f) PROVE AllJudged'
  <2>0. pool' = pool /\ disk' = disk /\ white \subseteq white'
    BY <1>2 DEF LookBusy, Ask, AskEngine, cacheHistory
  <2>1. DiskJudged' /\ PoolJudged' /\ KeyJudged'
    BY <2>0 DEF AllJudged, DiskJudged, PoolJudged, KeyJudged, Pooled
  <2>2. NotesTell' /\ WorkJudged'
    BY <1>2 DEF AllJudged, CacheTypes, CachePcs, ScanPcs, Mutexes, NotesTell, WorkJudged,
       LookBusy, Ask, AskEngine, cacheHistory
  <2>3. white' \subseteq Blocks /\ wrong' = {}
    BY <1>2 DEF AllJudged, CacheTypes, CachePcs, ScanPcs, Mutexes, LookBusy, Ask, AskEngine,
       cacheHistory
  <2> QED BY <2>1, <2>2, <2>3 DEF AllJudged
<1>3. ASSUME NEW w \in Workers, NEW f \in Files, LookSwap(w, f) PROVE AllJudged'
  <2>0. pool' = pool /\ disk' = disk /\ white \subseteq white'
    BY <1>3 DEF LookSwap, Ask, AskEngine, Create, cacheHistory
  <2>1. DiskJudged' /\ PoolJudged' /\ KeyJudged'
    BY <2>0 DEF AllJudged, DiskJudged, PoolJudged, KeyJudged, Pooled
  <2>2. NotesTell' /\ WorkJudged'
    BY <1>3 DEF AllJudged, CacheTypes, CachePcs, ScanPcs, Mutexes, NotesTell, WorkJudged,
       LookSwap, Ask, AskEngine, Create, cacheHistory
  <2>3. white' \subseteq Blocks /\ wrong' = {}
    BY <1>3 DEF AllJudged, CacheTypes, CachePcs, ScanPcs, Mutexes, LookSwap, Ask, AskEngine,
       Create, cacheHistory
  <2> QED BY <2>1, <2>2, <2>3 DEF AllJudged
<1>4. ASSUME NEW w \in Workers, NEW f \in Files, LookOther(w, f) PROVE AllJudged'
  <2>0. pool' = pool /\ disk' = disk /\ white \subseteq white'
    BY <1>4 DEF LookOther, Ask, AskEngine, cacheHistory
  <2>1. DiskJudged' /\ PoolJudged' /\ KeyJudged'
    BY <2>0 DEF AllJudged, DiskJudged, PoolJudged, KeyJudged, Pooled
  <2>2. NotesTell' /\ WorkJudged'
    BY <1>4 DEF AllJudged, CacheTypes, CachePcs, ScanPcs, Mutexes, NotesTell, WorkJudged,
       LookOther, Ask, AskEngine, cacheHistory
  <2>3. white' \subseteq Blocks /\ wrong' = {}
    BY <1>4 DEF AllJudged, CacheTypes, CachePcs, ScanPcs, Mutexes, LookOther, Ask,
       AskEngine, cacheHistory
  <2> QED BY <2>1, <2>2, <2>3 DEF AllJudged
<1>5. ASSUME NEW w \in Workers, NEW f \in Files, LookUnreadable(w, f) PROVE AllJudged'
  <2>0. pool' = pool /\ disk' = disk /\ white \subseteq white'
    BY <1>5 DEF LookUnreadable, Ask, workVars, cacheHistory
  <2>1. DiskJudged' /\ PoolJudged' /\ KeyJudged'
    BY <2>0 DEF AllJudged, DiskJudged, PoolJudged, KeyJudged, Pooled
  <2>2. NotesTell' /\ WorkJudged'
    BY <1>5 DEF AllJudged, CacheTypes, CachePcs, ScanPcs, Mutexes, NotesTell, WorkJudged,
       LookUnreadable, Ask, workVars, cacheHistory
  <2>3. white' \subseteq Blocks /\ wrong' = {}
    BY <1>5 DEF AllJudged, CacheTypes, CachePcs, ScanPcs, Mutexes, LookUnreadable, Ask,
       workVars, cacheHistory
  <2> QED BY <2>1, <2>2, <2>3 DEF AllJudged
<1>6. ASSUME NEW w \in Workers, NEW f \in Files, LookLoaded(w, f) PROVE AllJudged'
  <2>0. pool' = pool /\ disk' = disk /\ white \subseteq white'
    BY <1>6 DEF LookLoaded, Ask, cacheHistory
  <2>1. DiskJudged' /\ PoolJudged' /\ KeyJudged'
    BY <2>0 DEF AllJudged, DiskJudged, PoolJudged, KeyJudged, Pooled
  <2>2. NotesTell' /\ WorkJudged'
    BY <1>6, ScanCacheConstants DEF AllJudged, CacheTypes, CachePcs, ScanPcs, Mutexes,
       NotesTell, WorkJudged, LookLoaded, Ask, cacheHistory
  <2>3. white' \subseteq Blocks /\ wrong' = {}
    BY <1>6 DEF AllJudged, CacheTypes, CachePcs, ScanPcs, Mutexes, LookLoaded, Ask,
       cacheHistory
  <2> QED BY <2>1, <2>2, <2>3 DEF AllJudged
<1>7. ASSUME NEW w \in Workers, ProbeErase(w) PROVE AllJudged'
  <2>1. Pooled' \subseteq Pooled /\ \A k \in Keys : pool'[k] # <<>> => pool[k] # <<>>
    BY <1>7, EraseIs
  <2>2. white' = white /\ wrong' = wrong /\ disk' = disk
    BY <1>7 DEF ProbeErase
  <2>3. DiskJudged' /\ PoolJudged' /\ KeyJudged'
    BY <2>1, <2>2 DEF AllJudged, DiskJudged, PoolJudged, KeyJudged
  <2>4. NotesTell' /\ WorkJudged'
    BY <1>7, ScanCacheConstants DEF AllJudged, CacheTypes, CachePcs, ScanPcs, Mutexes,
       NotesTell, WorkJudged, Noted, ProbeErase, AskEngine, jobVars
  <2> QED BY <2>2, <2>3, <2>4 DEF AllJudged
<1>8. ASSUME NEW w \in Workers, ProbeNew(w) PROVE AllJudged'
  <2>0. pool' = pool /\ disk' = disk /\ white \subseteq white'
    BY <1>8 DEF ProbeNew, AskEngine, jobVars, cacheHistory
  <2>1. DiskJudged' /\ PoolJudged' /\ KeyJudged'
    BY <2>0 DEF AllJudged, DiskJudged, PoolJudged, KeyJudged, Pooled
  <2>2. NotesTell' /\ WorkJudged'
    BY <1>8, ScanCacheConstants DEF AllJudged, CacheTypes, CachePcs, ScanPcs, Mutexes,
       NotesTell, WorkJudged, Noted, ProbeNew, AskEngine, jobVars, cacheHistory
  <2>3. white' \subseteq Blocks /\ wrong' = {}
    BY <1>8 DEF AllJudged, CacheTypes, CachePcs, ScanPcs, Mutexes, ProbeNew, AskEngine,
       jobVars, cacheHistory
  <2> QED BY <2>1, <2>2, <2>3 DEF AllJudged
<1>9. ASSUME NEW w \in Workers, ProbeWhite(w) PROVE AllJudged'
  <2>1. block \in Blocks /\ Bucket # <<>> /\ KeyOf[block] \in Keys
    BY <1>9, ScanCacheConstants DEF CacheTypes, ProbeWhite, Keys
  <2>2. PICK b \in white : KeyOf[b] = KeyOf[block]
    BY <2>1 DEF AllJudged, KeyJudged, Bucket
  <2>3. block \in white
    BY <2>1, <2>2 DEF AllJudged, KeysTell
  <2>4. white' = white /\ wrong' = {} /\ disk' = disk /\ pool' = pool
    BY <1>9, <2>3 DEF AllJudged, ProbeWhite, poolVars, jobVars
  <2>5. DiskJudged' /\ PoolJudged' /\ KeyJudged'
    BY <2>4 DEF AllJudged, DiskJudged, PoolJudged, KeyJudged, Pooled
  <2>6. NotesTell' /\ WorkJudged'
    BY <1>9 DEF AllJudged, CacheTypes, CachePcs, ScanPcs, Mutexes, NotesTell, WorkJudged,
       ProbeWhite, poolVars, jobVars
  <2> QED BY <2>4, <2>5, <2>6 DEF AllJudged
<1>10. ASSUME NEW w \in Workers, ScanWhite(w) PROVE AllJudged'
  <2>0. pool' = pool /\ disk' = disk /\ white \subseteq white'
    BY <1>10 DEF ScanWhite, poolVars, jobVars
  <2>1. DiskJudged' /\ PoolJudged' /\ KeyJudged'
    BY <2>0 DEF AllJudged, DiskJudged, PoolJudged, KeyJudged, Pooled
  <2>2. NotesTell' /\ WorkJudged'
    BY <1>10, ScanCacheConstants DEF AllJudged, CacheTypes, CachePcs, ScanPcs, Mutexes,
       NotesTell, WorkJudged, ScanWhite, poolVars, jobVars
  <2>3. white' \subseteq Blocks /\ wrong' = {}
    BY <1>10 DEF AllJudged, CacheTypes, CachePcs, ScanPcs, Mutexes, ScanWhite, poolVars,
       jobVars
  <2> QED BY <2>1, <2>2, <2>3 DEF AllJudged
<1>11. ASSUME NEW w \in Workers, ScanOther(w) PROVE AllJudged'
  <2>0. pool' = pool /\ disk' = disk /\ white \subseteq white'
    BY <1>11 DEF ScanOther, poolVars, jobVars, cacheHistory
  <2>1. DiskJudged' /\ PoolJudged' /\ KeyJudged'
    BY <2>0 DEF AllJudged, DiskJudged, PoolJudged, KeyJudged, Pooled
  <2>2. NotesTell' /\ WorkJudged'
    BY <1>11 DEF AllJudged, CacheTypes, CachePcs, ScanPcs, Mutexes, NotesTell, WorkJudged,
       ScanOther, poolVars, jobVars, cacheHistory
  <2>3. white' \subseteq Blocks /\ wrong' = {}
    BY <1>11 DEF AllJudged, CacheTypes, CachePcs, ScanPcs, Mutexes, ScanOther, poolVars,
       jobVars, cacheHistory
  <2> QED BY <2>1, <2>2, <2>3 DEF AllJudged
<1>12. ASSUME NEW w \in Workers, CacheTest(w) PROVE AllJudged'
  <2>0. pool' = pool /\ disk' = disk /\ white \subseteq white'
    BY <1>12 DEF CacheTest, poolVars, jobVars, cacheHistory
  <2>1. DiskJudged' /\ PoolJudged' /\ KeyJudged'
    BY <2>0 DEF AllJudged, DiskJudged, PoolJudged, KeyJudged, Pooled
  <2>2. NotesTell' /\ WorkJudged'
    BY <1>12 DEF AllJudged, CacheTypes, CachePcs, ScanPcs, Mutexes, NotesTell, WorkJudged,
       CacheTest, poolVars, jobVars, cacheHistory
  <2>3. white' \subseteq Blocks /\ wrong' = {}
    BY <1>12 DEF AllJudged, CacheTypes, CachePcs, ScanPcs, Mutexes, CacheTest, poolVars,
       jobVars, cacheHistory
  <2> QED BY <2>1, <2>2, <2>3 DEF AllJudged
<1>13. ASSUME NEW w \in Workers, CacheNot(w) PROVE AllJudged'
  <2>0. pool' = pool /\ disk' = disk /\ white \subseteq white'
    BY <1>13 DEF CacheNot, poolVars, jobVars, cacheHistory
  <2>1. DiskJudged' /\ PoolJudged' /\ KeyJudged'
    BY <2>0 DEF AllJudged, DiskJudged, PoolJudged, KeyJudged, Pooled
  <2>2. NotesTell' /\ WorkJudged'
    BY <1>13 DEF AllJudged, CacheTypes, CachePcs, ScanPcs, Mutexes, NotesTell, WorkJudged,
       CacheNot, poolVars, jobVars, cacheHistory
  <2>3. white' \subseteq Blocks /\ wrong' = {}
    BY <1>13 DEF AllJudged, CacheTypes, CachePcs, ScanPcs, Mutexes, CacheNot, poolVars,
       jobVars, cacheHistory
  <2> QED BY <2>1, <2>2, <2>3 DEF AllJudged
<1>14. ASSUME NEW w \in Workers, CachePut(w) PROVE AllJudged'
  <2>1. PICK e \in Entry : /\ Put(e)
                           /\ notes[wfile[w]] = None => e \in Fresh(wfile[w])
                           /\ notes[wfile[w]] # None => e = notes[wfile[w]]
    BY <1>14, PutsEntry
  <2>2. wfile[w] \in Files /\ file[wfile[w]].block \in white /\ file[wfile[w]].block \in Blocks
    BY <1>14 DEF CacheTypes, AllJudged, NotesTell, WorkJudged, CachePut
  <2>3. e.block \in Blocks /\ e.block = file[wfile[w]].block
    <3>1. CASE notes[wfile[w]] # None
      BY <2>1, <2>2, <3>1 DEF AllJudged, NotesTell
    <3>2. CASE notes[wfile[w]] = None
      BY <2>1, <2>2, <3>2, ScanCacheConstants DEF Fresh, KeysTell
    <3> QED BY <3>1, <3>2
  <2>4. white' = white /\ wrong' = wrong /\ disk' = disk
    BY <1>14 DEF CachePut, cacheHistory
  <2>5. DiskJudged' /\ PoolJudged' /\ KeyJudged'
    <3>1. /\ Pooled' \subseteq Pooled \cup {e}
          /\ \A k \in Keys : pool'[k] # <<>> => pool[k] # <<>> \/ k = KeyOf[e.block]
      BY <2>1, PutIs
    <3> QED BY <2>2, <2>3, <2>4, <3>1 DEF AllJudged, DiskJudged, PoolJudged, KeyJudged
  <2>6. NotesTell' /\ WorkJudged'
    BY <1>14 DEF AllJudged, CacheTypes, CachePcs, ScanPcs, Mutexes, NotesTell, WorkJudged,
       CachePut, jobVars, cacheHistory
  <2> QED BY <2>4, <2>5, <2>6 DEF AllJudged
<1>15. ASSUME NEW t \in Threads, Lock(t) PROVE AllJudged'
  <2>0. pool' = pool /\ disk' = disk /\ white \subseteq white'
    BY <1>15 DEF Lock, ThreadSame, workVars, jobVars, cacheHistory
  <2>1. DiskJudged' /\ PoolJudged' /\ KeyJudged'
    BY <2>0 DEF AllJudged, DiskJudged, PoolJudged, KeyJudged, Pooled
  <2>2. NotesTell' /\ WorkJudged'
    BY <1>15 DEF AllJudged, CacheTypes, CachePcs, ScanPcs, Mutexes, NotesTell, WorkJudged,
       Lock, ThreadSame, workVars, jobVars, cacheHistory
  <2>3. white' \subseteq Blocks /\ wrong' = {}
    BY <1>15 DEF AllJudged, CacheTypes, CachePcs, ScanPcs, Mutexes, Lock, ThreadSame,
       workVars, jobVars, cacheHistory
  <2> QED BY <2>1, <2>2, <2>3 DEF AllJudged
<1>16. ASSUME NEW t \in Threads, StoreBegin(t) PROVE AllJudged'
  <2>0. pool' = pool /\ disk' = disk /\ white \subseteq white'
    BY <1>16 DEF StoreBegin, ThreadSame, workVars, jobVars, cacheHistory
  <2>1. DiskJudged' /\ PoolJudged' /\ KeyJudged'
    BY <2>0 DEF AllJudged, DiskJudged, PoolJudged, KeyJudged, Pooled
  <2>2. NotesTell' /\ WorkJudged'
    BY <1>16 DEF AllJudged, CacheTypes, CachePcs, ScanPcs, Mutexes, NotesTell, WorkJudged,
       StoreBegin, ThreadSame, workVars, jobVars, cacheHistory
  <2>3. white' \subseteq Blocks /\ wrong' = {}
    BY <1>16 DEF AllJudged, CacheTypes, CachePcs, ScanPcs, Mutexes, StoreBegin, ThreadSame,
       workVars, jobVars, cacheHistory
  <2> QED BY <2>1, <2>2, <2>3 DEF AllJudged
<1>17. ASSUME NEW t \in Threads, Store(t) PROVE AllJudged'
  <2>1. \A c \in Folders : ToSet(disk'[c]) = IF c = current THEN Pooled ELSE ToSet(disk[c])
    BY <1>17, StoreIs
  <2>4. white' = white /\ wrong' = wrong /\ pool' = pool
    BY <1>17 DEF Store, ThreadSame, cacheHistory
  <2>5. DiskJudged' /\ PoolJudged' /\ KeyJudged'
    BY <2>1, <2>4 DEF AllJudged, DiskJudged, PoolJudged, KeyJudged, Pooled
  <2>6. NotesTell' /\ WorkJudged'
    BY <1>17 DEF AllJudged, CacheTypes, CachePcs, ScanPcs, Mutexes, NotesTell, WorkJudged,
       Store, ThreadSame, workVars, jobVars, cacheHistory
  <2> QED BY <2>4, <2>5, <2>6 DEF AllJudged
<1>18. ASSUME NEW t \in Threads, Clear(t) PROVE AllJudged'
  <2>1. \A k \in Keys : pool'[k] = <<>> /\ ToSet(<<>>) = {}
    BY <1>18 DEF Clear, ToSet
  <2>4. white' = white /\ wrong' = wrong /\ disk' = disk
    BY <1>18 DEF Clear, ThreadSame, cacheHistory
  <2>5. DiskJudged' /\ PoolJudged' /\ KeyJudged'
    BY <2>1, <2>4 DEF AllJudged, DiskJudged, PoolJudged, KeyJudged, Pooled
  <2>6. NotesTell' /\ WorkJudged'
    BY <1>18 DEF AllJudged, CacheTypes, CachePcs, ScanPcs, Mutexes, NotesTell, WorkJudged,
       Clear, ThreadSame, workVars, jobVars, cacheHistory
  <2> QED BY <2>4, <2>5, <2>6 DEF AllJudged
<1>19. ASSUME NEW t \in Threads, LoadBegin(t) PROVE AllJudged'
  <2>0. pool' = pool /\ disk' = disk /\ white \subseteq white'
    BY <1>19 DEF LoadBegin, ThreadSame, workVars, jobVars, cacheHistory
  <2>1. DiskJudged' /\ PoolJudged' /\ KeyJudged'
    BY <2>0 DEF AllJudged, DiskJudged, PoolJudged, KeyJudged, Pooled
  <2>2. NotesTell' /\ WorkJudged'
    BY <1>19 DEF AllJudged, CacheTypes, CachePcs, ScanPcs, Mutexes, NotesTell, WorkJudged,
       LoadBegin, ThreadSame, workVars, jobVars, cacheHistory
  <2>3. white' \subseteq Blocks /\ wrong' = {}
    BY <1>19 DEF AllJudged, CacheTypes, CachePcs, ScanPcs, Mutexes, LoadBegin, ThreadSame,
       workVars, jobVars, cacheHistory
  <2> QED BY <2>1, <2>2, <2>3 DEF AllJudged
<1>20. ASSUME NEW t \in Threads, Load(t) PROVE AllJudged'
  <2>1. /\ Pooled' = ToSet(OnDisk) /\ (current # None => current \in Folders /\ OnDisk = disk[current])
        /\ \A k \in Keys : pool'[k] # <<>> => \E e \in ToSet(OnDisk) : KeyOf[e.block] = k
    BY <1>20, LoadIs
  <2>2. current = None => ToSet(OnDisk) = {}
    BY DEF OnDisk, ToSet
  <2>3. \A e \in ToSet(OnDisk) : e.block \in white
    BY <2>1, <2>2 DEF AllJudged, DiskJudged
  <2>4. white' = white /\ wrong' = wrong /\ disk' = disk
    BY <1>20 DEF Load, ThreadSame, cacheHistory
  <2>5. DiskJudged' /\ PoolJudged' /\ KeyJudged'
    BY <2>1, <2>3, <2>4 DEF AllJudged, DiskJudged, PoolJudged, KeyJudged
  <2>6. NotesTell' /\ WorkJudged'
    BY <1>20 DEF AllJudged, CacheTypes, CachePcs, ScanPcs, Mutexes, NotesTell, WorkJudged,
       Load, ThreadSame, workVars, jobVars, cacheHistory
  <2> QED BY <2>4, <2>5, <2>6 DEF AllJudged
<1>21. CASE Finished
  <2>0. pool' = pool /\ disk' = disk /\ white \subseteq white'
    BY <1>21 DEF Finished, Create, poolVars, workVars, cacheHistory
  <2>1. DiskJudged' /\ PoolJudged' /\ KeyJudged'
    BY <2>0 DEF AllJudged, DiskJudged, PoolJudged, KeyJudged, Pooled
  <2>2. NotesTell' /\ WorkJudged'
    BY <1>21 DEF AllJudged, CacheTypes, CachePcs, ScanPcs, Mutexes, NotesTell, WorkJudged,
       Finished, Create, poolVars, workVars, cacheHistory
  <2>3. white' \subseteq Blocks /\ wrong' = {}
    BY <1>21 DEF AllJudged, CacheTypes, CachePcs, ScanPcs, Mutexes, Finished, Create,
       poolVars, workVars, cacheHistory
  <2> QED BY <2>1, <2>2, <2>3 DEF AllJudged
<1>22. CASE Release
  <2>1. \A k \in Keys : pool'[k] = <<>> /\ ToSet(<<>>) = {}
    BY <1>22 DEF Release, ToSet
  <2>4. white' = white /\ wrong' = wrong /\ disk' = disk
    BY <1>22 DEF Release, cacheHistory
  <2>5. DiskJudged' /\ PoolJudged' /\ KeyJudged'
    BY <2>1, <2>4 DEF AllJudged, DiskJudged, PoolJudged, KeyJudged, Pooled
  <2>6. NotesTell' /\ WorkJudged'
    BY <1>22 DEF AllJudged, CacheTypes, CachePcs, ScanPcs, Mutexes, NotesTell, WorkJudged,
       Release, workVars, cacheHistory
  <2> QED BY <2>4, <2>5, <2>6 DEF AllJudged
<1>23. CASE ReleaseInUse
  <2>0. pool' = pool /\ disk' = disk /\ white \subseteq white'
    BY <1>23 DEF ReleaseInUse, poolVars, workVars, cacheHistory
  <2>1. DiskJudged' /\ PoolJudged' /\ KeyJudged'
    BY <2>0 DEF AllJudged, DiskJudged, PoolJudged, KeyJudged, Pooled
  <2>2. NotesTell' /\ WorkJudged'
    BY <1>23 DEF AllJudged, CacheTypes, CachePcs, ScanPcs, Mutexes, NotesTell, WorkJudged,
       ReleaseInUse, poolVars, workVars, cacheHistory
  <2>3. white' \subseteq Blocks /\ wrong' = {}
    BY <1>23 DEF AllJudged, CacheTypes, CachePcs, ScanPcs, Mutexes, ReleaseInUse, poolVars,
       workVars, cacheHistory
  <2> QED BY <2>1, <2>2, <2>3 DEF AllJudged
<1>24. ASSUME NEW f \in Files, ChangeFile(f) PROVE AllJudged'
  BY <1>24, ScanCacheConstants DEF CacheTypes, ChangeFile
<1>25. CASE UNCHANGED allVars
  <2>0. pool' = pool /\ disk' = disk /\ white \subseteq white'
    BY <1>25 DEF allVars, poolVars, workVars, jobVars, cacheHistory
  <2>1. DiskJudged' /\ PoolJudged' /\ KeyJudged'
    BY <2>0 DEF AllJudged, DiskJudged, PoolJudged, KeyJudged, Pooled
  <2>2. NotesTell' /\ WorkJudged'
    BY <1>25 DEF AllJudged, CacheTypes, CachePcs, ScanPcs, Mutexes, NotesTell, WorkJudged,
       allVars, poolVars, workVars, jobVars, cacheHistory
  <2>3. white' \subseteq Blocks /\ wrong' = {}
    BY <1>25 DEF AllJudged, CacheTypes, CachePcs, ScanPcs, Mutexes, allVars, poolVars,
       workVars, jobVars, cacheHistory
  <2> QED BY <2>1, <2>2, <2>3 DEF AllJudged
<1> QED BY <1>1, <1>2, <1>3, <1>4, <1>5, <1>6, <1>7, <1>8, <1>9, <1>10, <1>11, <1>12, <1>13,
           <1>14, <1>15, <1>16, <1>17, <1>18, <1>19, <1>20, <1>21, <1>22, <1>23, <1>24,
           <1>25 DEF CacheNext, ThreadStep

\* The first states.
LEMMA CacheInitInv == CacheInit => CacheInv
<1> SUFFICES ASSUME CacheInit PROVE CacheInv
  OBVIOUS
<1>1. \A k \in Keys : pool[k] = <<>> /\ ToSet(<<>>) = {}
  BY DEF CacheInit, ToSet
<1>2. ~ Size /\ Pooled = {}
  BY <1>1 DEF Size, Pooled
<1>3. 0 \in 0 .. MaxTime
  BY ScanCacheConstants
<1>4. ASSUME NEW d \in Folders
      PROVE  disk[d] \in Seq(Entry) /\ \A e \in ToSet(disk[d]) : e.block \in Blocks
  <2>1. disk[d] \in OldFiles
    BY DEF CacheInit
  <2>2. CASE disk[d] = <<>>
    BY <1>1, <2>2 DEF ToSet
  <2>3. ASSUME NEW b \in Blocks, disk[d] = <<[block |-> b, time |-> 0]>>
        PROVE  disk[d] \in Seq(Entry) /\ \A e \in ToSet(disk[d]) : e.block \in Blocks
    <3> DEFINE e == [block |-> b, time |-> 0]
    <3>1. e \in Entry
      BY <1>3 DEF Entry
    <3>2. \A x \in Entry : x.block \in Blocks
      BY DEF Entry
    <3> HIDE DEF e
    <3>3. disk[d] \in Seq(Entry)
      BY <2>3, <3>1 DEF e
    <3>4. ToSet(disk[d]) \subseteq Entry
      BY <3>3, Elements
    <3> QED BY <3>2, <3>3, <3>4
  <2> QED BY <2>1, <2>2, <2>3 DEF OldFiles
<1>5. CacheTypes
  <2>1. pool \in [Keys -> Seq(Entry)]
    BY DEF CacheInit
  <2>2. disk \in [Folders -> Seq(Entry)]
    <3>1. disk \in [Folders -> OldFiles]
      BY DEF CacheInit
    <3> QED BY <1>4, <3>1
  <2>3. file \in [Files -> [block : Blocks \cup {None}, time : 0 .. MaxTime]]
    <3>1. file \in [Files -> [block : Blocks, time : {0}]]
      BY DEF CacheInit
    <3> QED BY <1>3, <3>1
  <2> QED BY <2>1, <2>2, <2>3, ScanCacheConstants DEF CacheInit, CacheTypes, Statuses,
             CachePcs, ScanPcs
<1>6. Mutexes /\ StatusTells /\ PoolCovers
  BY <1>2, ScanCacheConstants DEF CacheInit, Mutexes, StatusTells, PoolCovers, Ahead
<1>7. AllJudged
  <2>1. white = {e.block : e \in UNION {ToSet(disk[d]) : d \in Folders}}
    BY DEF CacheInit
  <2>2. white \subseteq Blocks /\ DiskJudged
    BY <1>4, <2>1 DEF DiskJudged
  <2>3. PoolJudged /\ KeyJudged
    BY <1>1, <1>2 DEF PoolJudged, KeyJudged
  <2>4. NotesTell /\ WorkJudged /\ wrong = {}
    BY DEF CacheInit, NotesTell, WorkJudged
  <2> QED BY <2>2, <2>3, <2>4 DEF AllJudged
<1> QED BY <1>5, <1>6, <1>7 DEF CacheInv

\* The changes of files are counted.
LEMMA ChangesCounted ==
  ASSUME CacheTypes, [CacheNext]_allVars, changes' = 0
  PROVE  changes = 0
<1>1. \A f \in Files : ~ ChangeFile(f)
  BY ScanCacheConstants DEF CacheTypes, ChangeFile
<1>2. ASSUME NEW w \in Workers, NEW f \in Files,
             \/ LookUnload(w, f) \/ LookBusy(w, f) \/ LookSwap(w, f) \/ LookOther(w, f)
             \/ LookUnreadable(w, f) \/ LookLoaded(w, f)
      PROVE  changes' = changes
  BY <1>2 DEF LookUnload, LookBusy, LookSwap, LookOther, LookUnreadable, LookLoaded, Ask
<1>3. ASSUME NEW w \in Workers,
             \/ ProbeErase(w) \/ ProbeNew(w) \/ ProbeWhite(w) \/ ScanWhite(w) \/ ScanOther(w)
             \/ CacheTest(w) \/ CacheNot(w) \/ CachePut(w)
      PROVE  changes' = changes
  BY <1>3 DEF ProbeErase, ProbeNew, ProbeWhite, ScanWhite, ScanOther, CacheTest, CacheNot, CachePut
<1>4. ASSUME NEW t \in Threads, ThreadStep(t) PROVE changes' = changes
  BY <1>4 DEF ThreadStep, ThreadSame, Lock, StoreBegin, Store, Clear, LoadBegin, Load
<1>5. CASE Finished \/ Release \/ ReleaseInUse \/ UNCHANGED allVars
  BY <1>5 DEF Finished, Release, ReleaseInUse, allVars
<1> QED BY <1>1, <1>2, <1>3, <1>4, <1>5 DEF CacheNext

LEMMA CacheInvStep == CacheInv /\ [CacheNext]_allVars => CacheInv'
<1> SUFFICES ASSUME CacheInv, [CacheNext]_allVars PROVE CacheInv'
  OBVIOUS
<1>1. CacheTypes /\ Mutexes /\ StatusTells /\ PoolCovers
  BY DEF CacheInv
<1>2. CacheTypes' /\ Mutexes' /\ StatusTells' /\ PoolCovers'
  BY <1>1, CacheTypesStep, MutexesStep, StatusStep, CoversStep
<1>3. ASSUME changes' = 0, KeysTell PROVE AllJudged'
  <2>1. changes = 0
    BY <1>1, <1>3, ChangesCounted
  <2> QED BY <1>1, <1>3, <2>1, JudgedStep DEF CacheInv
<1>4. KeysTell' <=> KeysTell
  BY DEF KeysTell
<1> QED BY <1>2, <1>3, <1>4 DEF CacheInv

\* The invariant of the white-file cache.
THEOREM CacheInvariance == CacheSpec => []CacheInv
  BY CacheInitInv, CacheInvStep, PTL DEF CacheSpec

\* The pool is used by one at a time, worker or thread of the cache, and as long
\* as no file changes and no two begin alike a file passed as white was judged so
\* (ScanCache::ScanFile, CacheFile, WorkFunc).
THEOREM CacheIsSafe == CacheSpec => []CacheSafety
<1>1. CacheInv => CacheSafety
  <2> SUFFICES ASSUME CacheInv PROVE CacheSafety
    OBVIOUS
  <2>1. CacheTypes /\ Mutexes /\ StatusTells
    BY DEF CacheInv
  <2>2. CacheTypeOK
    <3>1. \A k \in Keys : \A i \in 1 .. Len(pool[k]) : pool[k][i] \in Entry
      <4>1. \A k \in Keys : pool[k] \in Seq(Entry)
        BY <2>1 DEF CacheTypes
      <4> QED BY <4>1
    <3>2. \A d \in Folders : \A i \in 1 .. Len(disk[d]) : disk[d][i] \in Entry
      <4>1. \A d \in Folders : disk[d] \in Seq(Entry)
        BY <2>1 DEF CacheTypes
      <4> QED BY <4>1
    <3> QED BY <2>1, <3>1, <3>2 DEF CacheTypeOK, CacheTypes, Statuses, Mutexes
  <2>3. PoolIsExclusive
    BY <2>1, ScanCacheConstants DEF PoolIsExclusive, CacheTypes, Mutexes, StatusTells, Ahead
  <2>4. WhiteWasJudged
    BY DEF CacheInv, KeysTell, AllJudged, WhiteWasJudged
  <2> QED BY <2>2, <2>3, <2>4 DEF CacheSafety
<1> QED BY <1>1, CacheInvariance, PTL

\* What a step takes off a cache file.
LEMMA DiskStep ==
  ASSUME CacheInv, [CacheNext]_allVars, NEW d \in Folders
  PROVE  ToSet(disk[d]) \ ToSet(disk'[d]) \subseteq erased
<1>1. ASSUME NEW t \in Threads, Store(t)
      PROVE  ToSet(disk[d]) \ ToSet(disk'[d]) \subseteq erased
  <2>1. CacheTypes /\ Covers
    BY <1>1 DEF CacheInv, PoolCovers, Store
  <2>2. ToSet(disk'[d]) = IF d = current THEN Pooled ELSE ToSet(disk[d])
    BY <1>1, <2>1, StoreIs
  <2>3. d # None
    BY ScanCacheConstants
  <2> QED BY <2>1, <2>2, <2>3 DEF Covers
<1>2. (\A t \in Threads : ~ Store(t)) => disk' = disk
  BY DEF CacheNext, LookUnload, LookBusy, LookSwap, LookOther, LookUnreadable, LookLoaded,
     Ask, ProbeErase, ProbeNew, ProbeWhite, ScanWhite, ScanOther, CacheTest, CacheNot,
     CachePut, ThreadStep, Lock, StoreBegin, Clear, LoadBegin, Load, Finished, Release,
     ReleaseInUse, ChangeFile, allVars, poolVars
<1> QED BY <1>1, <1>2

\* A cache file loses an entry only if a lookup took it out: a pool is stored over
\* the file it was loaded from (mCurrentCacheFile, WorkFunc).
THEOREM DiskEntriesStay == CacheSpec => DiskKeepsEntries
<1> DEFINE Stays == \A d \in Folders : ToSet(disk[d]) \ ToSet(disk'[d]) \subseteq erased
<1>1. CacheInv /\ [CacheNext]_allVars => [Stays]_allVars
  BY DiskStep
<1> HIDE DEF Stays
<1>2. CacheSpec => [][Stays]_allVars
  BY CacheInitInv, CacheInvStep, <1>1, PTL DEF CacheSpec
<1> QED BY <1>2 DEF DiskKeepsEntries, Stays

-----------------------------------------------------------------------------
(* The file monitor: the inductive invariant.                              *)

Holds(t, e) == finfo[t] = e /\ pc[t] # "exit"
Waiting == ToSet(m_scans)
CachedOf(f) == ToSet(caches[f])

\* Who holds an entry when, and what is not there before its load.
Started ==
  /\ \A t \in Loads : pc[t] = "scan" => finfo[t] \in Entries
  /\ \A t \in Loads : pc[t] \in {"asleep", "woken"} => finfo[t] = NoEntry
  /\ \A t \in Loads : t > loads => pc[t] = "none" /\ mon[t] = "none" /\ finfo[t] = NoEntry

\* What is queued or held is in the cache, in one place, under its own path,
\* unless its count wrapped and it was deleted.
Places ==
  /\ evicted \subseteq 1 .. created
  /\ \A f \in Watched : IsInjective(caches[f])
  /\ \A f \in Watched : \A e \in CachedOf(f) :
       e <= created /\ e \notin evicted /\ entry[e].path = f
  /\ \A e \in Entries : e \in Waiting \/ (\E t \in Loads : Holds(t, e)) =>
       e \in CachedOf(entry[e].path) \/ e \in evicted \cap wrapped

\* An entry that was never counted again, which its count says as long as it has
\* not wrapped, has been queued once: it waits, or one thread scans it, or its
\* scan is over.
Single(s, e) == \A i, j \in 1 .. Len(s) : s[i] = e /\ s[j] = e => i = j
Once ==
  /\ \A e \in Entries \ wrapped : e <= created => entry[e].count # 0
  /\ \A e \in Entries \ wrapped : e <= created /\ entry[e].count = 1 =>
       /\ e \in Waiting => entry[e].result = Queued
       /\ Single(m_scans, e)
       /\ \A t \in Loads : Holds(t, e) => entry[e].result = Scanning /\ e \notin Waiting
       /\ \A t, u \in Loads : Holds(t, e) /\ Holds(u, e) => t = u

\* With a single scan thread, two entries of a path are in play only after an
\* infected one was scanned again.
InPlay(e) == entry[e].result # Black
OneInPlay ==
  /\ \A f \in Watched \ revived : \A d, e \in CachedOf(f) : InPlay(d) /\ InPlay(e) => d = e
  /\ \A t \in Loads : finfo[t] # NoEntry => InPlay(finfo[t])

\* With a single scan thread, while it is to run, an entry marked as queued is in
\* the queue, or its last scan got no answer.
AllMarked ==
  /\ \A f \in Watched \ (excused \cup revived) : \A e \in CachedOf(f) :
       entry[e].result = Queued => e \in Waiting
  /\ \A t \in Loads : pc[t] \in {"test", "lock"} /\ finfo[t] # NoEntry /\ result[t] = Queued =>
       entry[finfo[t]].path \in excused \cup revived
  /\ \A f \in dirty : InQueue(f) \/ f \in excused \cup revived
MarkedIsQueued == m_run \/ loads = 0 => AllMarked

\* With a single load, the threads that are joined are all there are.
Joined ==
  /\ loads = 0 => ~ mStatus
  /\ loads = 1 => m_thread = 1 /\ mDefenceThread = 1
  /\ loads = 1 /\ (cpc = "monjoin" \/ Deleted) => pc[1] = "exit"
  /\ loads = 1 /\ Deleted => mon[1] = "exit"

DefenInv ==
  /\ TypeOK /\ Started /\ Places /\ Once
  /\ cpc # "idle" => loads > 0
  /\ loads <= 1 => OneInPlay /\ MarkedIsQueued /\ Joined

EntryRec == [path : Watched, result : Results, count : 0 .. Many]

\* The rest of a list.
LEMMA TailIs ==
  ASSUME NEW E, NEW s \in Seq(E), s # <<>>
  PROVE  /\ Head(s) \in E /\ Tail(s) \in Seq(E)
         /\ ToSet(s) = {Head(s)} \cup ToSet(Tail(s))
         /\ \A x : Single(s, x) => Single(Tail(s), x) /\ (Head(s) # x \/ x \notin ToSet(Tail(s)))
<1> DEFINE t == Tail(s)
<1>1. /\ Len(s) \in Nat /\ 1 \in 1 .. Len(s) /\ s[1] = Head(s) /\ Head(s) \in E
      /\ t \in Seq(E) /\ Len(t) = Len(s) - 1 /\ \A i \in 1 .. Len(t) : t[i] = s[i + 1]
  OBVIOUS
<1> HIDE DEF t
<1>2. /\ \A x : x \in ToSet(s) <=> \E i \in 1 .. Len(s) : s[i] = x
      /\ \A x : x \in ToSet(t) <=> \E i \in 1 .. Len(t) : t[i] = x
  BY <1>1, Elements
<1>3. ASSUME NEW i \in 1 .. Len(t) PROVE i + 1 \in 1 .. Len(s) /\ i + 1 # 1 /\ t[i] = s[i + 1]
  BY <1>1
<1>4. ASSUME NEW x \in ToSet(s), x # Head(s) PROVE x \in ToSet(t)
  <2>1. PICK i \in 1 .. Len(s) : s[i] = x
    BY <1>2, <1>4
  <2>2. i - 1 \in 1 .. Len(t) /\ t[i - 1] = x
    BY <1>1, <1>4, <2>1
  <2> QED BY <1>2, <2>2
<1>5. ToSet(s) = {Head(s)} \cup ToSet(t)
  BY <1>1, <1>2, <1>3, <1>4
<1>6. ASSUME NEW x, Single(s, x) PROVE Single(t, x) /\ (Head(s) # x \/ x \notin ToSet(t))
  <2>1. Single(t, x)
    <3>1. SUFFICES ASSUME NEW i \in 1 .. Len(t), NEW j \in 1 .. Len(t), t[i] = x, t[j] = x
                   PROVE  i = j
      BY DEF Single
    <3>2. i + 1 = j + 1
      BY <1>3, <1>6, <3>1 DEF Single
    <3> QED BY <3>2
  <2>2. ASSUME Head(s) = x, x \in ToSet(t) PROVE FALSE
    <3>1. PICK i \in 1 .. Len(t) : t[i] = x
      BY <1>2, <2>2
    <3> QED BY <1>1, <1>3, <1>6, <2>2, <3>1 DEF Single
  <2> QED BY <2>1, <2>2
<1> QED BY <1>1, <1>5, <1>6 DEF t

\* One element more.
LEMMA AppendIs ==
  ASSUME NEW E, NEW s \in Seq(E), NEW y \in E
  PROVE  /\ Append(s, y) \in Seq(E) /\ ToSet(Append(s, y)) = ToSet(s) \cup {y}
         /\ IsInjective(Append(s, y)) <=> IsInjective(s) /\ y \notin ToSet(s)
         /\ \A x : x # y /\ Single(s, x) => Single(Append(s, y), x)
         /\ y \notin ToSet(s) => Single(Append(s, y), y)
<1> DEFINE t == Append(s, y)
<1>1. /\ t \in Seq(E) /\ Len(t) = Len(s) + 1 /\ Len(s) \in Nat /\ t[Len(s) + 1] = y
      /\ \A i \in 1 .. Len(s) : t[i] = s[i]
  OBVIOUS
<1> HIDE DEF t
<1>2. /\ ToSet(t) = ToSet(s) \cup {y}
      /\ IsInjective(t) <=> IsInjective(s) /\ y \notin ToSet(s)
      /\ \A x : x \in ToSet(s) <=> \E i \in 1 .. Len(s) : s[i] = x
  BY Elements DEF t
<1>3. \A i \in 1 .. Len(t) : i \in 1 .. Len(s) \/ i = Len(s) + 1
  BY <1>1
<1>4. ASSUME NEW x, x # y, Single(s, x) PROVE Single(t, x)
  BY <1>1, <1>3, <1>4 DEF Single
<1>5. ASSUME y \notin ToSet(s) PROVE Single(t, y)
  BY <1>1, <1>2, <1>3, <1>5 DEF Single
<1> QED BY <1>1, <1>2, <1>4, <1>5 DEF t

\* The entries of a path that are in play.
LEMMA NotBlackIs ==
  ASSUME TypeOK, NEW f \in Watched
  PROVE  /\ CachedOf(f) \subseteq Entries
         /\ NotBlack(f) \in Seq(Entries)
         /\ ToSet(NotBlack(f)) = {e \in CachedOf(f) : InPlay(e)}
         /\ IsInjective(caches[f]) => IsInjective(NotBlack(f))
         /\ \A e : e \in ToSet(NotBlack(f)) <=> \E i \in 1 .. Len(NotBlack(f)) : NotBlack(f)[i] = e
<1> DEFINE S == {e \in Entries : entry[e].result # Black}
<1>1. caches[f] \in Seq(Entries)
  BY DEF TypeOK
<1>2. CachedOf(f) \subseteq Entries
  BY <1>1, Elements DEF CachedOf
<1>3. NotBlack(f) = Kept(caches[f], S)
  BY DEF NotBlack
<1> HIDE DEF S
<1>4. /\ NotBlack(f) \in Seq(Entries) /\ ToSet(NotBlack(f)) = CachedOf(f) \cap S
      /\ IsInjective(caches[f]) => IsInjective(NotBlack(f))
  BY <1>1, <1>3, KeptIs DEF CachedOf
<1>5. \A e : e \in ToSet(NotBlack(f)) <=> \E i \in 1 .. Len(NotBlack(f)) : NotBlack(f)[i] = e
  BY <1>4, Elements
<1> QED BY <1>2, <1>4, <1>5 DEF S, InPlay

\* What a thread leaves in the cache of its last scan.
LEMMA NotedIs ==
  ASSUME TypeOK, NEW t \in Loads
  PROVE  /\ ResultNoted(t) \in [Entries -> EntryRec]
         /\ \A e \in Entries :
              /\ ResultNoted(t)[e].path = entry[e].path
              /\ ResultNoted(t)[e].count = entry[e].count
              /\ ResultNoted(t)[e].result = IF finfo[t] = e THEN result[t] ELSE entry[e].result
<1>1. entry \in [Entries -> EntryRec] /\ result[t] \in Results
  BY DEF TypeOK, EntryRec
<1>2. \A e \in Entries : e # NoEntry /\ entry[e] \in EntryRec
  BY <1>1 DEF NoEntry, Entries
<1>3. CASE finfo[t] = NoEntry
  BY <1>1, <1>2, <1>3 DEF ResultNoted
<1>4. CASE finfo[t] # NoEntry
  <2>1. finfo[t] \in Entries
    BY <1>4 DEF TypeOK
  <2> DEFINE r == [entry[finfo[t]] EXCEPT !.result = result[t]]
  <2>2. /\ r \in EntryRec /\ r.path = entry[finfo[t]].path /\ r.count = entry[finfo[t]].count
        /\ r.result = result[t]
    BY <1>1, <1>2, <2>1 DEF EntryRec
  <2>3. ResultNoted(t) = [entry EXCEPT ![finfo[t]] = r]
    BY <1>4 DEF ResultNoted
  <2> HIDE DEF r
  <2>4. \A e \in Entries : ResultNoted(t)[e] = IF finfo[t] = e THEN r ELSE entry[e]
    BY <1>1, <2>1, <2>3
  <2>5. ResultNoted(t) \in [Entries -> EntryRec]
    BY <1>1, <2>1, <2>2, <2>3
  <2> QED BY <2>2, <2>4, <2>5
<1> QED BY <1>3, <1>4

\* A scan thread takes the front of the queue.
LEMMA TakeIs ==
  ASSUME TypeOK, NEW t \in Loads, NEW noted \in [Entries -> EntryRec], m_scans # <<>>, Take(t, noted)
  PROVE  LET h == Head(m_scans) IN
         /\ h \in Entries /\ entry' \in [Entries -> EntryRec] /\ m_scans' \in Seq(Entries)
         /\ Waiting = {h} \cup Waiting'
         /\ \A x : Single(m_scans, x) => Single(m_scans', x) /\ (h # x \/ x \notin Waiting')
         /\ \A e \in Entries :
              /\ entry'[e].path = noted[e].path
              /\ entry'[e].count = noted[e].count
              /\ entry'[e].result = IF e = h THEN Scanning ELSE noted[e].result
         /\ noted[h].result = Black => entry[h].path \in revived'
<1> DEFINE h == Head(m_scans)
           r == [noted[h] EXCEPT !.result = Scanning]
<1>1. m_scans \in Seq(Entries) /\ m_scans' = Tail(m_scans) /\ entry' = [noted EXCEPT ![h] = r]
  BY DEF TypeOK, Take
<1>2. /\ h \in Entries /\ m_scans' \in Seq(Entries) /\ Waiting = {h} \cup Waiting'
      /\ \A x : Single(m_scans, x) => Single(m_scans', x) /\ (h # x \/ x \notin Waiting')
  BY <1>1, TailIs DEF Waiting
<1>3. r \in EntryRec /\ r.path = noted[h].path /\ r.count = noted[h].count /\ r.result = Scanning
  BY <1>2 DEF EntryRec, Results
<1>4. noted[h].result = Black => entry[h].path \in revived'
  BY DEF Take
<1> HIDE DEF r, h
<1>5. entry' \in [Entries -> EntryRec] /\ \A e \in Entries : entry'[e] = IF e = h THEN r ELSE noted[e]
  BY <1>1, <1>2, <1>3
<1> QED BY <1>2, <1>3, <1>4, <1>5 DEF h

LEMMA MoreIs ==
  ASSUME TypeOK, NEW e \in Entries, NEW over
  PROVE  /\ More(e, over) \in 0 .. Many
         /\ e \notin over => More(e, over) # 0 /\ (entry[e].count # 0 => More(e, over) # 1)
<1>1. entry[e].count \in 0 .. Many
  <2>1. entry \in [Entries -> EntryRec]
    BY DEF TypeOK, EntryRec
  <2>2. entry[e] \in EntryRec
    BY <2>1
  <2> QED BY <2>2 DEF EntryRec
<1> DEFINE c == entry[e].count
<1> HIDE DEF c
<1>2. c \in 0 .. Many /\ More(e, over) = IF e \in over THEN 0 ELSE IF c = Many THEN Many ELSE c + 1
  BY <1>1 DEF More, c
<1>3. Many \in Nat /\ Many > 1
  BY DefenEngineConstants DEF Many
<1>4. /\ More(e, over) \in 0 .. Many
      /\ e \notin over => More(e, over) # 0 /\ (c # 0 => More(e, over) # 1)
  BY <1>2, <1>3
<1> QED BY <1>4 DEF c

\* What a change does to an entry that it passes, and to the one it ends at.
LEMMA CountedIs ==
  ASSUME TypeOK, NEW e \in Entries, NEW over
  PROVE  /\ Counted(e, over) \in EntryRec /\ Counted(e, over).path = entry[e].path
         /\ Counted(e, over).result = entry[e].result /\ Counted(e, over).count = More(e, over)
         /\ Requeued(e, over) \in EntryRec /\ Requeued(e, over).path = entry[e].path
         /\ Requeued(e, over).result = Queued /\ Requeued(e, over).count = More(e, over)
<1>1. entry[e] \in EntryRec
  BY DEF TypeOK, EntryRec
<1>2. More(e, over) \in 0 .. Many
  BY MoreIs
<1> DEFINE m == More(e, over)
<1> HIDE DEF m
<1>3. m \in 0 .. Many /\ Counted(e, over) = [entry[e] EXCEPT !.count = m]
  BY <1>2 DEF m, Counted
<1>4. /\ Counted(e, over) \in EntryRec /\ Counted(e, over).path = entry[e].path
      /\ Counted(e, over).result = entry[e].result /\ Counted(e, over).count = m
  BY <1>1, <1>3 DEF EntryRec
<1>5. Requeued(e, over) = [Counted(e, over) EXCEPT !.result = Queued] /\ Queued \in Results
  BY DEF Requeued, Results
<1>6. /\ Requeued(e, over) \in EntryRec /\ Requeued(e, over).path = entry[e].path
      /\ Requeued(e, over).result = Queued /\ Requeued(e, over).count = m
  BY <1>4, <1>5 DEF EntryRec
<1> QED BY <1>4, <1>6 DEF m

\* A change that is ignored: x is the entry it ends at.
LEMMA IgnoredIs ==
  ASSUME TypeOK, NEW f \in Watched, NEW own, NEW over \in SUBSET Entries, JudgeIgnored(f, own, over)
  PROVE  /\ entry' \in [Entries -> EntryRec] /\ excused \subseteq excused' /\ excused' \subseteq Watched
         /\ wrapped \subseteq wrapped' /\ wrapped' \subseteq Entries
         /\ \A e \in Entries :
              /\ entry'[e].path = entry[e].path
              /\ entry'[e] # entry[e] => /\ e \in CachedOf(f) /\ InPlay(e)
                                         /\ entry'[e].count = More(e, over)
                                         /\ e \in over => e \in wrapped'
         /\ \E x \in CachedOf(f) :
              /\ InPlay(x) /\ entry'[x].result = entry[x].result
              /\ entry[x].result = Queued \/ (m_run => f \in excused')
              /\ \A e \in Entries : e # x => entry'[e].result \in {entry[e].result, Queued}
<1> DEFINE list == NotBlack(f)
           K == EndsAt(f, own, over)
           k == CHOOSE i \in K : \A j \in K : i <= j
<1>1. /\ list \in Seq(Entries) /\ CachedOf(f) \subseteq Entries
      /\ \A e : e \in ToSet(list) <=> \E i \in 1 .. Len(list) : list[i] = e
      /\ ToSet(list) = {e \in CachedOf(f) : InPlay(e)}
  BY NotBlackIs
<1>2. K \subseteq 1 .. Len(list) /\ K # {} /\ Len(list) \in Nat
  BY <1>1 DEF JudgeIgnored, EndsAt
<1>3. k \in K
  <2>1. K \in SUBSET Nat
    BY <1>2
  <2> HIDE DEF K
  <2>2. \E i \in K : \A j \in K : i <= j
    BY <1>2, <2>1, LeastExists
  <2> QED BY <2>2
<1> DEFINE x == list[k]
           A == {list[i] : i \in 1 .. k - 1}
<1>4. /\ entry' = [e \in Entries |-> IF e = x THEN Counted(e, over)
                                     ELSE IF e \in A THEN Requeued(e, over) ELSE entry[e]]
      /\ excused' = IF entry[x].result = Queued THEN excused ELSE excused \cup WhileRun({f})
      /\ wrapped' = wrapped \cup ({list[i] : i \in 1 .. k} \cap over)
  BY DEF JudgeIgnored, Wrapping
<1> HIDE DEF list, K, k
<1>5. k \in 1 .. Len(list) /\ x \in ToSet(list)
  BY <1>1, <1>2, <1>3
<1>6. A \subseteq ToSet(list)
  <2>1. ASSUME NEW i \in 1 .. k - 1 PROVE list[i] \in ToSet(list)
    <3>1. i \in 1 .. Len(list)
      BY <1>2, <1>5
    <3> QED BY <1>1, <3>1
  <2> QED BY <2>1
<1>61. ASSUME NEW e \in A \cup {x}, e \in over PROVE e \in wrapped'
  <2>1. k \in 1 .. k /\ \A i \in 1 .. k - 1 : i \in 1 .. k
    BY <1>2, <1>5
  <2>2. e \in {list[i] : i \in 1 .. k}
    BY <1>61, <2>1
  <2> QED BY <1>4, <1>61, <2>2
<1>62. wrapped \subseteq wrapped' /\ wrapped' \subseteq Entries
  BY <1>4 DEF TypeOK
<1> HIDE DEF x, A
<1>7. \A e \in Entries :
        /\ entry'[e] \in EntryRec
        /\ entry'[e] = IF e = x THEN Counted(e, over) ELSE IF e \in A THEN Requeued(e, over) ELSE entry[e]
        /\ entry[e] \in EntryRec
  <2>1. \A e \in Entries : entry[e] \in EntryRec
    BY DEF TypeOK, EntryRec
  <2> QED BY <1>4, <2>1, CountedIs
<1>8. entry' \in [Entries -> EntryRec]
  BY <1>4, <1>7
<1>9. \A e \in Entries :
        /\ entry'[e].path = entry[e].path
        /\ entry'[e] # entry[e] => /\ e \in CachedOf(f) /\ InPlay(e)
                                   /\ entry'[e].count = More(e, over)
                                   /\ e \in over => e \in wrapped'
        /\ e # x => entry'[e].result \in {entry[e].result, Queued}
  <2> TAKE e \in Entries
  <2>1. /\ Counted(e, over).path = entry[e].path /\ Counted(e, over).count = More(e, over)
        /\ Requeued(e, over).path = entry[e].path /\ Requeued(e, over).count = More(e, over)
        /\ Requeued(e, over).result = Queued
    BY CountedIs
  <2>2. CASE e = x
    BY <1>1, <1>5, <1>61, <1>7, <2>1, <2>2
  <2>3. CASE e # x /\ e \in A
    BY <1>1, <1>6, <1>61, <1>7, <2>1, <2>3
  <2>4. CASE e # x /\ e \notin A
    BY <1>7, <2>4
  <2> QED BY <2>2, <2>3, <2>4
<1>10. x \in CachedOf(f) /\ InPlay(x) /\ entry'[x].result = entry[x].result
  BY <1>1, <1>5, <1>7, CountedIs
<1>11. /\ excused \subseteq excused' /\ excused' \subseteq Watched
       /\ entry[x].result = Queued \/ (m_run => f \in excused')
  BY <1>4 DEF TypeOK, WhileRun
<1> QED BY <1>62, <1>8, <1>9, <1>10, <1>11

\* A change that has the file scanned again.
LEMMA RescanIs ==
  ASSUME TypeOK, NEW f \in Watched, NEW own, NEW over \in SUBSET Entries, JudgeRescan(f, own, over)
  PROVE  /\ entry' \in [Entries -> EntryRec] /\ m_scans' \in Seq(Entries)
         /\ wrapped \subseteq wrapped' /\ wrapped' \subseteq Entries
         /\ \A e \in Entries :
              /\ entry'[e].path = entry[e].path
              /\ IF e \in CachedOf(f) /\ InPlay(e)
                   THEN /\ entry'[e].result = Queued /\ entry'[e].count = More(e, over)
                        /\ e \in over => e \in wrapped'
                 ELSE entry'[e] = entry[e]
         /\ \E x \in CachedOf(f) :
              /\ x \in Entries /\ InPlay(x) /\ Waiting' = Waiting \cup {x}
              /\ \A e : e # x /\ Single(m_scans, e) => Single(m_scans', e)
<1> DEFINE list == NotBlack(f)
           x == Last(list)
<1>1. /\ list \in Seq(Entries) /\ CachedOf(f) \subseteq Entries
      /\ \A e : e \in ToSet(list) <=> \E i \in 1 .. Len(list) : list[i] = e
      /\ ToSet(list) = {e \in CachedOf(f) : InPlay(e)}
  BY NotBlackIs
<1>2. /\ entry' = [e \in Entries |-> IF e \in ToSet(list) THEN Requeued(e, over) ELSE entry[e]]
      /\ m_scans' = Append(m_scans, x) /\ list # <<>> /\ m_scans \in Seq(Entries)
      /\ wrapped' = wrapped \cup (ToSet(list) \cap over)
  BY DEF JudgeRescan, Wrapping, TypeOK
<1> HIDE DEF list
<1>3. x \in ToSet(list)
  <2>1. Len(list) \in 1 .. Len(list)
    BY <1>1, <1>2
  <2> QED BY <1>1, <2>1 DEF Last
<1> HIDE DEF x
<1>4. x \in CachedOf(f) /\ x \in Entries /\ InPlay(x)
  BY <1>1, <1>3
<1>5. /\ m_scans' \in Seq(Entries) /\ Waiting' = Waiting \cup {x}
      /\ \A e : e # x /\ Single(m_scans, e) => Single(m_scans', e)
  BY <1>2, <1>4, AppendIs DEF Waiting
<1>6. \A e \in Entries : /\ entry'[e] = IF e \in ToSet(list) THEN Requeued(e, over) ELSE entry[e]
                         /\ entry'[e] \in EntryRec
  <2>1. \A e \in Entries : entry[e] \in EntryRec
    BY DEF TypeOK, EntryRec
  <2> QED BY <1>2, <2>1, CountedIs
<1>7. entry' \in [Entries -> EntryRec]
  BY <1>2, <1>6
<1>8. \A e \in Entries :
        /\ entry'[e].path = entry[e].path
        /\ IF e \in CachedOf(f) /\ InPlay(e)
             THEN /\ entry'[e].result = Queued /\ entry'[e].count = More(e, over)
                  /\ e \in over => e \in wrapped'
           ELSE entry'[e] = entry[e]
  BY <1>1, <1>2, <1>6, CountedIs
<1>9. wrapped \subseteq wrapped' /\ wrapped' \subseteq Entries
  BY <1>2 DEF TypeOK
<1> QED BY <1>4, <1>5, <1>7, <1>8, <1>9

\* A change that makes an entry.
LEMMA NewIs ==
  ASSUME TypeOK, Places, NEW f \in Watched, NewEntry(f)
  PROVE  /\ created' = created + 1 /\ created' \in Entries /\ created \in Nat
         /\ entry' \in [Entries -> EntryRec] /\ m_scans' \in Seq(Entries)
         /\ entry'[created'].path = f /\ entry'[created'].result = Queued
         /\ entry'[created'].count = 1
         /\ \A e \in Entries : e # created' => entry'[e] = entry[e]
         /\ \A e \in CachedOf(f) : ~ InPlay(e)
         /\ Waiting' = Waiting \cup {created'} /\ created' \notin Waiting
         /\ \A e : e # created' /\ Single(m_scans, e) => Single(m_scans', e)
         /\ Single(m_scans', created')
<1> DEFINE r == [path |-> f, result |-> Queued, count |-> 1]
<1>1. /\ created' = created + 1 /\ created' \in Entries /\ entry' = [entry EXCEPT ![created'] = r]
      /\ m_scans' = Append(m_scans, created') /\ m_scans \in Seq(Entries) /\ created \in Nat
      /\ entry \in [Entries -> EntryRec]
  BY DEF NewEntry, TypeOK, EntryRec, Entries
<1>2. r \in EntryRec
  BY DefenEngineConstants DEF EntryRec, Results, Many
<1>3. \A e \in CachedOf(f) : ~ InPlay(e)
  <2>1. /\ ToSet(NotBlack(f)) = {e \in CachedOf(f) : InPlay(e)}
        /\ \A e : e \in ToSet(NotBlack(f)) <=> \E i \in 1 .. Len(NotBlack(f)) : NotBlack(f)[i] = e
    BY NotBlackIs
  <2>2. NotBlack(f) = <<>>
    BY DEF NewEntry
  <2> QED BY <2>1, <2>2
<1>4. created' \notin Waiting
  <2>1. ASSUME created' \in Waiting PROVE FALSE
    <3>1. /\ created' \in CachedOf(entry[created'].path) \/ created' \in evicted
          /\ entry[created'].path \in Watched
      BY <1>1, <2>1 DEF Places, EntryRec
    <3>2. created' <= created
      BY <1>1, <3>1 DEF Places
    <3> QED BY <1>1, <3>2
  <2> QED BY <2>1
<1>5. /\ m_scans' \in Seq(Entries) /\ Waiting' = Waiting \cup {created'}
      /\ \A e : e # created' /\ Single(m_scans, e) => Single(m_scans', e)
      /\ Single(m_scans', created')
  BY <1>1, <1>4, AppendIs DEF Waiting
<1>6. /\ entry'[created'] = r /\ \A e \in Entries : e # created' => entry'[e] = entry[e]
      /\ entry' \in [Entries -> EntryRec]
  BY <1>1, <1>2
<1> QED BY <1>1, <1>3, <1>4, <1>5, <1>6

\* A load makes a scan thread, and a monitor thread if none says that it runs.
LEMMA StartIs ==
  ASSUME TypeOK, StartFileMonitor
  PROVE  /\ loads \in Nat /\ loads' = loads + 1 /\ loads' \in Loads /\ m_thread' = loads'
         /\ pc' \in [Loads -> ThreadPcs]
         /\ mon' \in [Loads -> {"none", "init", "loop", "poll", "exit"}]
         /\ \A t \in Loads : pc'[t] = IF t = loads' THEN "test" ELSE pc[t]
         /\ \A t \in Loads : mon'[t] = IF t = loads' /\ ~ mStatus THEN "init" ELSE mon[t]
         /\ mDefenceThread' = IF mStatus THEN mDefenceThread ELSE loads'
         /\ mDefenceThread' \in Loads \cup {0}
<1>1. /\ loads \in 0 .. MaxLoads /\ loads < MaxLoads /\ loads' = loads + 1 /\ m_thread' = loads'
      /\ pc' = [pc EXCEPT ![loads'] = "test"] /\ mDefenceThread \in Loads \cup {0}
      /\ mDefenceThread' = IF mStatus THEN mDefenceThread ELSE loads'
      /\ mon' = IF mStatus THEN mon ELSE [mon EXCEPT ![loads'] = "init"]
      /\ pc \in [Loads -> ThreadPcs] /\ mon \in [Loads -> {"none", "init", "loop", "poll", "exit"}]
  BY DEF TypeOK, StartFileMonitor
<1>2. loads \in Nat /\ loads' \in Loads
  BY <1>1, DefenEngineConstants DEF Loads
<1>3. /\ pc' \in [Loads -> ThreadPcs]
      /\ \A t \in Loads : pc'[t] = IF t = loads' THEN "test" ELSE pc[t]
  BY <1>1, <1>2 DEF ThreadPcs
<1>4. /\ mon' \in [Loads -> {"none", "init", "loop", "poll", "exit"}]
      /\ \A t \in Loads : mon'[t] = IF t = loads' /\ ~ mStatus THEN "init" ELSE mon[t]
  BY <1>1, <1>2
<1> QED BY <1>1, <1>2, <1>3, <1>4

\* Every step keeps the types.
LEMMA DefenTypesStep ==
  ASSUME TypeOK, Started, Places, [Next]_vars
  PROVE  TypeOK'
<1>1. CASE StartFileMonitor
  <2>1. /\ UNCHANGED <<cacheVars, finfo, result, history, mStatus, cpc, fanotify>>
        /\ m_run' = TRUE
    BY <1>1 DEF StartFileMonitor
  <2>2. /\ pc' \in [Loads -> ThreadPcs] /\ mon' \in [Loads -> {"none", "init", "loop", "poll", "exit"}]
        /\ {m_thread', mDefenceThread'} \subseteq Loads \cup {0} /\ loads' \in 0 .. MaxLoads
    BY <1>1, StartIs DEF Loads
  <2> QED BY <2>1, <2>2 DEF TypeOK, cacheVars, history
<1>2. CASE StopFlag
  BY <1>2 DEF TypeOK, EntryRec, ThreadPcs, Results, Loads, NoEntry, StopFlag, cacheVars,
     threadVars, history
<1>3. CASE StopBroadcast
  BY <1>3 DEF TypeOK, EntryRec, ThreadPcs, Results, Loads, NoEntry, StopBroadcast,
     Broadcast, cacheVars, history
<1>4. CASE StopJoin
  BY <1>4 DEF TypeOK, EntryRec, ThreadPcs, Results, Loads, NoEntry, StopJoin, cacheVars,
     threadVars, history
<1>5. CASE StopMonitorJoin \/ StopAgain
  BY <1>5 DEF TypeOK, EntryRec, ThreadPcs, Results, Loads, NoEntry, StopMonitorJoin,
     StopAgain, cacheVars, threadVars, history
<1>6. ASSUME NEW t \in Loads, TestRun(t) PROVE TypeOK'
  BY <1>6 DEF TypeOK, EntryRec, ThreadPcs, Results, Loads, NoEntry, TestRun, cacheVars,
     history, controlVars
<1>7. ASSUME NEW t \in Loads, LockSleep(t) PROVE TypeOK'
  <2>1. entry' \in [Entries -> EntryRec]
    BY <1>7, NotedIs DEF LockSleep
  <2> HIDE DEF EntryRec
  <2> QED BY <1>7, <2>1 DEF TypeOK, ThreadPcs, Results, ResultGone, EntryRec, LockSleep, history, controlVars
<1>8. ASSUME NEW t \in Loads, LockTake(t) PROVE TypeOK'
  <2>1. ResultNoted(t) \in [Entries -> EntryRec]
    BY NotedIs
  <2>2. m_scans # <<>> /\ Take(t, ResultNoted(t))
    BY <1>8 DEF LockTake
  <2>3. /\ Head(m_scans) \in Entries /\ entry' \in [Entries -> EntryRec]
        /\ m_scans' \in Seq(Entries)
    BY <2>1, <2>2, TakeIs
  <2>4. entry[Head(m_scans)].path \in Watched
    BY <2>3 DEF TypeOK
  <2>5. dirty' \cup excused' \cup revived' \subseteq Watched /\ wrapped' \subseteq Entries
    BY <2>2, <2>4 DEF Take, TypeOK
  <2>6. /\ finfo' \in [Loads -> Entries \cup {NoEntry}] /\ pc' \in [Loads -> ThreadPcs]
        /\ UNCHANGED <<caches, created, evicted, controlVars>>
        /\ result' \in [Loads -> Results]
    BY <2>2, <2>3 DEF Take, ResultGone, TypeOK, ThreadPcs, Results
  <2> QED BY <2>3, <2>5, <2>6 DEF TypeOK, EntryRec, controlVars
<1>9. ASSUME NEW t \in Loads, LockStop(t) PROVE TypeOK'
  <2>1. entry' \in [Entries -> EntryRec]
    BY <1>9, NotedIs DEF LockStop
  <2> HIDE DEF EntryRec
  <2> QED BY <1>9, <2>1 DEF TypeOK, ThreadPcs, Results, ResultGone, EntryRec, LockStop, history, controlVars
<1>10. ASSUME NEW t \in Loads, WokenTake(t) PROVE TypeOK'
  <2>1. entry \in [Entries -> EntryRec]
    BY DEF TypeOK, EntryRec
  <2>2. m_scans # <<>> /\ Take(t, entry)
    BY <1>10 DEF WokenTake
  <2>3. /\ Head(m_scans) \in Entries /\ entry' \in [Entries -> EntryRec]
        /\ m_scans' \in Seq(Entries)
    BY <2>1, <2>2, TakeIs
  <2>4. entry[Head(m_scans)].path \in Watched
    BY <2>3 DEF TypeOK
  <2>5. dirty' \cup excused' \cup revived' \subseteq Watched /\ wrapped' \subseteq Entries
    BY <2>2, <2>4 DEF Take, TypeOK
  <2>6. /\ finfo' \in [Loads -> Entries \cup {NoEntry}] /\ pc' \in [Loads -> ThreadPcs]
        /\ UNCHANGED <<caches, created, evicted, controlVars>>
        /\ result' \in [Loads -> Results]
    BY <2>2, <2>3 DEF Take, ResultGone, TypeOK, ThreadPcs, Results
  <2> QED BY <2>3, <2>5, <2>6 DEF TypeOK, EntryRec, controlVars
<1>11. ASSUME NEW t \in Loads, WokenNone(t) PROVE TypeOK'
  BY <1>11 DEF TypeOK, EntryRec, ThreadPcs, Results, Loads, NoEntry, WokenNone, cacheVars,
     history, controlVars
<1>12. ASSUME NEW t \in Loads, SpuriousWake(t) PROVE TypeOK'
  BY <1>12 DEF TypeOK, EntryRec, ThreadPcs, Results, Loads, NoEntry, SpuriousWake,
     cacheVars, history, controlVars
<1>13. ASSUME NEW t \in Loads, NEW r \in {Queued, White, Black}, Scan(t, r) PROVE TypeOK'
  <2>1. finfo[t] \in Entries /\ entry[finfo[t]].path \in Watched
    BY <1>13 DEF TypeOK, Started, Scan
  <2> QED BY <1>13, <2>1 DEF TypeOK, ThreadPcs, Results, WhileRun, Scan, cacheVars, controlVars
<1>14. ASSUME NEW m \in Loads, MonInit(m) PROVE TypeOK'
  BY <1>14 DEF TypeOK, EntryRec, ThreadPcs, Results, Loads, NoEntry, MonInit, cacheVars,
     threadVars, history
<1>15. ASSUME NEW m \in Loads, MonLoop(m) PROVE TypeOK'
  BY <1>15 DEF TypeOK, EntryRec, ThreadPcs, Results, Loads, NoEntry, MonLoop, cacheVars,
     threadVars, history
<1>16. ASSUME NEW m \in Loads, MonTimeout(m) PROVE TypeOK'
  BY <1>16 DEF TypeOK, EntryRec, ThreadPcs, Results, Loads, NoEntry, MonTimeout, cacheVars,
     threadVars, history
<1>17. ASSUME NEW m \in Loads, MonError(m) PROVE TypeOK'
  BY <1>17 DEF TypeOK, EntryRec, ThreadPcs, Results, Loads, NoEntry, MonError, cacheVars,
     threadVars, history
<1>18. ASSUME NEW m \in Loads, NEW f \in Watched, NEW own \in OwnOf(f), NEW over \in SUBSET CanWrap(f), MonEvent(m, f, own, over) PROVE TypeOK'
  <2>0. over \in SUBSET Entries
    BY NotBlackIs DEF CanWrap, CachedOf
  <2>1. /\ mon' \in [Loads -> {"none", "init", "loop", "poll", "exit"}]
        /\ UNCHANGED <<finfo, result, revived, mStatus, m_thread, mDefenceThread, cpc, loads,
                      m_run, fanotify>>
        /\ dirty' \subseteq Watched
    BY <1>18 DEF MonEvent, WhileRun, TypeOK
  <2>2. \A q \in [Loads -> ThreadPcs] : Broadcast(q) \in [Loads -> ThreadPcs]
    BY DEF Broadcast, ThreadPcs
  <2>3. CASE JudgeIgnored(f, own, over)
    <3>1. /\ entry' \in [Entries -> EntryRec] /\ excused' \subseteq Watched
          /\ wrapped' \subseteq Entries
      BY <2>0, <2>3, IgnoredIs
    <3> QED BY <2>1, <2>3, <3>1 DEF JudgeIgnored, TypeOK, EntryRec
  <2>4. CASE JudgeRescan(f, own, over)
    <3>1. /\ entry' \in [Entries -> EntryRec] /\ m_scans' \in Seq(Entries)
          /\ wrapped' \subseteq Entries
      BY <2>0, <2>4, RescanIs
    <3> QED BY <2>1, <2>2, <2>4, <3>1 DEF JudgeRescan, TypeOK, EntryRec
  <2>5. CASE JudgeNew(f) \/ JudgeNewEvict(f)
    <3>0. NewEntry(f)
      BY <2>5 DEF JudgeNew, JudgeNewEvict
    <3>1. /\ entry' \in [Entries -> EntryRec] /\ m_scans' \in Seq(Entries)
          /\ created' \in Entries
      BY <2>0, <3>0, NewIs
    <3>2. pc' \in [Loads -> ThreadPcs] /\ UNCHANGED <<excused, wrapped>>
      <4>1. pc' = Broadcast(pc) /\ UNCHANGED <<excused, wrapped>>
        BY <3>0 DEF NewEntry
      <4>2. pc \in [Loads -> ThreadPcs]
        BY DEF TypeOK
      <4> QED BY <2>2, <4>1, <4>2
    <3>3. caches' \in [Watched -> Seq(Entries)] /\ evicted' \subseteq Entries
      <4>1. Append(caches[f], created') \in Seq(Entries) /\ <<>> \in Seq(Entries)
        BY <3>1, AppendIs DEF TypeOK
      <4>2. CASE JudgeNew(f)
        BY <4>1, <4>2 DEF JudgeNew, TypeOK
      <4>3. CASE JudgeNewEvict(f)
        <5>1. PICK g \in Victims(f) :
                /\ caches' = [caches EXCEPT ![f] = Append(@, created'), ![g] = <<>>]
                /\ evicted' = evicted \cup {caches[g][1]}
          BY <4>3 DEF JudgeNewEvict
        <5>2. g \in Watched /\ Len(caches[g]) = 1 /\ caches[g] \in Seq(Entries)
          BY DEF Victims, TypeOK
        <5>3. caches[g][1] \in Entries
          BY <5>2
        <5> QED BY <4>1, <5>1, <5>2, <5>3 DEF TypeOK
      <4> QED BY <2>5, <4>2, <4>3
    <3> QED BY <2>1, <3>1, <3>2, <3>3 DEF TypeOK, EntryRec
  <2> QED BY <1>18, <2>3, <2>4, <2>5 DEF MonEvent
<1>20. ASSUME NEW m \in Loads, NEW lost \in SUBSET Watched, MonLost(m, lost) PROVE TypeOK'
  BY <1>20 DEF TypeOK, EntryRec, ThreadPcs, Results, Loads, NoEntry, MonLost, WhileRun, cacheVars,
     threadVars
<1>19. CASE UNCHANGED vars
  BY <1>19 DEF TypeOK, EntryRec, ThreadPcs, Results, Loads, NoEntry, vars, cacheVars,
     threadVars, history, controlVars
<1> QED BY <1>1, <1>2, <1>3, <1>4, <1>5, <1>6, <1>7, <1>8, <1>9, <1>10, <1>11, <1>12, <1>13,
           <1>14, <1>15, <1>16, <1>17, <1>18, <1>19, <1>20 DEF Next, ScanThread

\* Threads hold what they scan, and are not there before their load.
LEMMA StartedStep ==
  ASSUME TypeOK, Started, [Next]_vars
  PROVE  Started'
<1>1. CASE StartFileMonitor
  <2>1. UNCHANGED finfo
    BY <1>1 DEF StartFileMonitor, history
  <2> QED BY <1>1, <2>1, StartIs DEF TypeOK, Started, Loads
<1>2. CASE StopFlag
  BY <1>2 DEF TypeOK, ThreadPcs, Loads, NoEntry, Started, StopFlag, cacheVars, threadVars,
     history
<1>3. CASE StopBroadcast
  BY <1>3 DEF TypeOK, ThreadPcs, Loads, NoEntry, Started, StopBroadcast, Broadcast,
     cacheVars, history
<1>4. CASE StopJoin
  BY <1>4 DEF TypeOK, ThreadPcs, Loads, NoEntry, Started, StopJoin, cacheVars, threadVars,
     history
<1>5. CASE StopMonitorJoin \/ StopAgain
  BY <1>5 DEF TypeOK, ThreadPcs, Loads, NoEntry, Started, StopMonitorJoin, StopAgain,
     cacheVars, threadVars, history
<1>6. ASSUME NEW t \in Loads, TestRun(t) PROVE Started'
  BY <1>6 DEF TypeOK, ThreadPcs, Loads, NoEntry, Started, TestRun, cacheVars, history,
     controlVars
<1>7. ASSUME NEW t \in Loads, LockSleep(t) PROVE Started'
  BY <1>7 DEF TypeOK, ThreadPcs, Loads, NoEntry, Started, LockSleep, history, controlVars
<1>8. ASSUME NEW t \in Loads, LockTake(t) PROVE Started'
  <2>1. Head(m_scans) \in Entries
    BY <1>8, TailIs DEF TypeOK, LockTake
  <2> QED BY <1>8, <2>1 DEF TypeOK, ThreadPcs, Loads, NoEntry, Started, LockTake, Take,
             controlVars
<1>9. ASSUME NEW t \in Loads, LockStop(t) PROVE Started'
  BY <1>9 DEF TypeOK, ThreadPcs, Loads, NoEntry, Started, LockStop, history, controlVars
<1>10. ASSUME NEW t \in Loads, WokenTake(t) PROVE Started'
  <2>1. Head(m_scans) \in Entries
    BY <1>10, TailIs DEF TypeOK, WokenTake
  <2> QED BY <1>10, <2>1 DEF TypeOK, ThreadPcs, Loads, NoEntry, Started, WokenTake, Take,
             controlVars
<1>11. ASSUME NEW t \in Loads, WokenNone(t) PROVE Started'
  BY <1>11 DEF TypeOK, ThreadPcs, Loads, NoEntry, Started, WokenNone, cacheVars, history,
     controlVars
<1>12. ASSUME NEW t \in Loads, SpuriousWake(t) PROVE Started'
  BY <1>12 DEF TypeOK, ThreadPcs, Loads, NoEntry, Started, SpuriousWake, cacheVars, history,
     controlVars
<1>13. ASSUME NEW t \in Loads, NEW r \in {Queued, White, Black}, Scan(t, r) PROVE Started'
  BY <1>13 DEF TypeOK, ThreadPcs, Loads, NoEntry, Started, Scan, cacheVars, controlVars
<1>14. ASSUME NEW m \in Loads, MonInit(m) PROVE Started'
  BY <1>14 DEF TypeOK, ThreadPcs, Loads, NoEntry, Started, MonInit, cacheVars, threadVars,
     history
<1>15. ASSUME NEW m \in Loads, MonLoop(m) PROVE Started'
  BY <1>15 DEF TypeOK, ThreadPcs, Loads, NoEntry, Started, MonLoop, cacheVars, threadVars,
     history
<1>16. ASSUME NEW m \in Loads, MonTimeout(m) PROVE Started'
  BY <1>16 DEF TypeOK, ThreadPcs, Loads, NoEntry, Started, MonTimeout, cacheVars,
     threadVars, history
<1>17. ASSUME NEW m \in Loads, MonError(m) PROVE Started'
  BY <1>17 DEF TypeOK, ThreadPcs, Loads, NoEntry, Started, MonError, cacheVars, threadVars,
     history
<1>18. ASSUME NEW m \in Loads, NEW f \in Watched, NEW own \in OwnOf(f), NEW over \in SUBSET CanWrap(f), MonEvent(m, f, own, over) PROVE Started'
  <2>1. pc' \in {pc, Broadcast(pc)}
    BY <1>18 DEF MonEvent, JudgeIgnored, JudgeRescan, JudgeNew, JudgeNewEvict, NewEntry
  <2>2. /\ finfo' = finfo /\ loads' = loads /\ mon[m] = "poll"
        /\ mon' = [mon EXCEPT ![m] = "loop"]
    BY <1>18 DEF MonEvent
  <2> QED BY <2>1, <2>2 DEF TypeOK, ThreadPcs, Loads, NoEntry, Started, Broadcast
<1>20. ASSUME NEW m \in Loads, NEW lost \in SUBSET Watched, MonLost(m, lost) PROVE Started'
  BY <1>20 DEF TypeOK, ThreadPcs, Loads, NoEntry, Started, MonLost, WhileRun, cacheVars,
     threadVars
<1>19. CASE UNCHANGED vars
  BY <1>19 DEF TypeOK, ThreadPcs, Loads, NoEntry, Started, vars, cacheVars, threadVars,
     history, controlVars
<1> QED BY <1>1, <1>2, <1>3, <1>4, <1>5, <1>6, <1>7, <1>8, <1>9, <1>10, <1>11, <1>12, <1>13,
           <1>14, <1>15, <1>16, <1>17, <1>18, <1>19, <1>20 DEF Next, ScanThread

\* With a single load, the threads that are joined are all there are.
LEMMA JoinedStep ==
  ASSUME TypeOK, Started, loads <= 1 => Joined, cpc # "idle" => loads > 0, [Next]_vars
  PROVE  (loads' <= 1 => Joined') /\ (cpc' # "idle" => loads' > 0)
<1>1. CASE StartFileMonitor
  <2>1. cpc = "idle" /\ cpc' = cpc /\ mStatus' = mStatus
    BY <1>1 DEF StartFileMonitor
  <2> QED BY <1>1, <2>1, StartIs DEF Joined, Deleted
<1>2. CASE StopFlag
  BY DefenEngineConstants, <1>2 DEF TypeOK, ThreadPcs, Loads, Started, Joined, Deleted,
     StopFlag, cacheVars, threadVars, history
<1>3. CASE StopBroadcast
  BY DefenEngineConstants, <1>3 DEF TypeOK, ThreadPcs, Loads, Started, Joined, Deleted,
     StopBroadcast, Broadcast, cacheVars, history
<1>4. CASE StopJoin
  BY DefenEngineConstants, <1>4 DEF TypeOK, ThreadPcs, Loads, Started, Joined, Deleted,
     StopJoin, cacheVars, threadVars, history
<1>5. CASE StopMonitorJoin \/ StopAgain
  BY DefenEngineConstants, <1>5 DEF TypeOK, ThreadPcs, Loads, Started, Joined, Deleted,
     StopMonitorJoin, StopAgain, cacheVars, threadVars, history
<1>6. ASSUME NEW t \in Loads, TestRun(t) PROVE (loads' <= 1 => Joined') /\ (cpc' # "idle" => loads' > 0)
  BY DefenEngineConstants, <1>6 DEF TypeOK, ThreadPcs, Loads, Started, Joined, Deleted,
     TestRun, cacheVars, history, controlVars
<1>7. ASSUME NEW t \in Loads, LockSleep(t) PROVE (loads' <= 1 => Joined') /\ (cpc' # "idle" => loads' > 0)
  BY DefenEngineConstants, <1>7 DEF TypeOK, ThreadPcs, Loads, Started, Joined, Deleted,
     LockSleep, history, controlVars
<1>8. ASSUME NEW t \in Loads, LockTake(t) PROVE (loads' <= 1 => Joined') /\ (cpc' # "idle" => loads' > 0)
  BY DefenEngineConstants, <1>8 DEF TypeOK, ThreadPcs, Loads, Started, Joined, Deleted,
     LockTake, Take, controlVars
<1>9. ASSUME NEW t \in Loads, LockStop(t) PROVE (loads' <= 1 => Joined') /\ (cpc' # "idle" => loads' > 0)
  BY DefenEngineConstants, <1>9 DEF TypeOK, ThreadPcs, Loads, Started, Joined, Deleted,
     LockStop, history, controlVars
<1>10. ASSUME NEW t \in Loads, WokenTake(t) PROVE (loads' <= 1 => Joined') /\ (cpc' # "idle" => loads' > 0)
  BY DefenEngineConstants, <1>10 DEF TypeOK, ThreadPcs, Loads, Started, Joined, Deleted,
     WokenTake, Take, controlVars
<1>11. ASSUME NEW t \in Loads, WokenNone(t) PROVE (loads' <= 1 => Joined') /\ (cpc' # "idle" => loads' > 0)
  BY DefenEngineConstants, <1>11 DEF TypeOK, ThreadPcs, Loads, Started, Joined, Deleted,
     WokenNone, cacheVars, history, controlVars
<1>12. ASSUME NEW t \in Loads, SpuriousWake(t) PROVE (loads' <= 1 => Joined') /\ (cpc' # "idle" => loads' > 0)
  BY DefenEngineConstants, <1>12 DEF TypeOK, ThreadPcs, Loads, Started, Joined, Deleted,
     SpuriousWake, cacheVars, history, controlVars
<1>13. ASSUME NEW t \in Loads, NEW r \in {Queued, White, Black}, Scan(t, r) PROVE (loads' <= 1 => Joined') /\ (cpc' # "idle" => loads' > 0)
  BY DefenEngineConstants, <1>13 DEF TypeOK, ThreadPcs, Loads, Started, Joined, Deleted,
     Scan, cacheVars, controlVars
<1>14. ASSUME NEW m \in Loads, MonInit(m) PROVE (loads' <= 1 => Joined') /\ (cpc' # "idle" => loads' > 0)
  BY DefenEngineConstants, <1>14 DEF TypeOK, ThreadPcs, Loads, Started, Joined, Deleted,
     MonInit, cacheVars, threadVars, history
<1>15. ASSUME NEW m \in Loads, MonLoop(m) PROVE (loads' <= 1 => Joined') /\ (cpc' # "idle" => loads' > 0)
  BY DefenEngineConstants, <1>15 DEF TypeOK, ThreadPcs, Loads, Started, Joined, Deleted,
     MonLoop, cacheVars, threadVars, history
<1>16. ASSUME NEW m \in Loads, MonTimeout(m) PROVE (loads' <= 1 => Joined') /\ (cpc' # "idle" => loads' > 0)
  BY DefenEngineConstants, <1>16 DEF TypeOK, ThreadPcs, Loads, Started, Joined, Deleted,
     MonTimeout, cacheVars, threadVars, history
<1>17. ASSUME NEW m \in Loads, MonError(m) PROVE (loads' <= 1 => Joined') /\ (cpc' # "idle" => loads' > 0)
  BY DefenEngineConstants, <1>17 DEF TypeOK, ThreadPcs, Loads, Started, Joined, Deleted,
     MonError, cacheVars, threadVars, history
<1>18. ASSUME NEW m \in Loads, NEW f \in Watched, NEW own \in OwnOf(f), NEW over \in SUBSET CanWrap(f), MonEvent(m, f, own, over) PROVE (loads' <= 1 => Joined') /\ (cpc' # "idle" => loads' > 0)
  <2>1. pc' \in {pc, Broadcast(pc)}
    BY <1>18 DEF MonEvent, JudgeIgnored, JudgeRescan, JudgeNew, JudgeNewEvict, NewEntry
  <2>2. /\ UNCHANGED <<loads, mStatus, m_thread, mDefenceThread, cpc>> /\ mon[m] = "poll"
        /\ mon' = [mon EXCEPT ![m] = "loop"] /\ ~ Deleted
    BY <1>18 DEF MonEvent, Gone
  <2>3. \A t \in Loads : pc[t] = "exit" => pc'[t] = "exit"
    BY <2>1 DEF TypeOK, Broadcast
  <2>4. loads = 1 => 1 \in Loads
    BY DefenEngineConstants DEF TypeOK, Loads
  <2>5. cpc # "deleted" /\ cpc' # "deleted"
    BY <2>2 DEF Deleted
  <2> QED BY <2>2, <2>3, <2>4, <2>5 DEF Joined, Deleted
<1>20. ASSUME NEW m \in Loads, NEW lost \in SUBSET Watched, MonLost(m, lost) PROVE (loads' <= 1 => Joined') /\ (cpc' # "idle" => loads' > 0)
  BY DefenEngineConstants, <1>20 DEF TypeOK, ThreadPcs, Loads, Started, Joined, Deleted, MonLost, WhileRun, cacheVars,
     threadVars
<1>19. CASE UNCHANGED vars
  BY DefenEngineConstants, <1>19 DEF TypeOK, ThreadPcs, Loads, Started, Joined, Deleted,
     vars, cacheVars, threadVars, history, controlVars
<1> QED BY <1>1, <1>2, <1>3, <1>4, <1>5, <1>6, <1>7, <1>8, <1>9, <1>10, <1>11, <1>12, <1>13,
           <1>14, <1>15, <1>16, <1>17, <1>18, <1>19, <1>20 DEF Next, ScanThread

\* What a step may be to the cache: nothing;
Quiet ==
  /\ UNCHANGED <<cacheVars, finfo, result, revived, wrapped>> /\ loads' \in {loads, loads + 1}
  /\ \/ m_run' = FALSE /\ loads' > 0
     \/ /\ \E lost : dirty' = dirty \cup lost /\ excused' = excused \cup lost
        /\ m_run' = m_run \/ loads' = loads + 1
  /\ \A t \in Loads : finfo[t] # NoEntry =>
       /\ pc[t] = "exit" => pc'[t] = "exit"
       /\ pc'[t] \in {"test", "lock"} => pc[t] \in {"test", "lock"}

\* a thread's note;
Noting(t) ==
  /\ pc[t] = "lock" /\ pc' \in {[pc EXCEPT ![t] = "asleep"], [pc EXCEPT ![t] = "test"]}
  /\ entry' = ResultNoted(t) /\ finfo' = [finfo EXCEPT ![t] = NoEntry]
  /\ \A u \in Loads \ {t} : result'[u] = result[u]
  /\ UNCHANGED <<caches, m_scans, created, evicted, history, m_run, loads>>

\* its note, and the front of the queue;
Taking(t) == pc[t] \in {"lock", "woken"} /\ m_scans # <<>> /\ ~ UsedFreed /\ Take(t, ResultNoted(t))

\* or a change of a file.
Judging(f, own, over) ==
  /\ JudgeIgnored(f, own, over) \/ JudgeRescan(f, own, over) \/ JudgeNew(f) \/ JudgeNewEvict(f)
  /\ dirty' = dirty \cup WhileRun({f}) /\ pc' \in {pc, Broadcast(pc)} /\ loads > 0
  /\ UNCHANGED <<finfo, result, revived, m_run, loads>>

\* Those, and the end of a scan, are all the steps there are.
LEMMA StepKinds ==
  ASSUME TypeOK, Started, [Next]_vars
  PROVE  \/ Quiet
         \/ \E t \in Loads : Noting(t)
         \/ \E t \in Loads : Taking(t)
         \/ \E t \in Loads, r \in {Queued, White, Black} : Scan(t, r)
         \/ \E f \in Watched, own \in SUBSET Entries, over \in SUBSET Entries : Judging(f, own, over)
<1>0. loads \in Nat /\ dirty = dirty \cup {} /\ excused = excused \cup {}
  BY DefenEngineConstants DEF TypeOK
<1>1. CASE StartFileMonitor
  <2>1. UNCHANGED <<cacheVars, finfo, result, history>>
    BY <1>1 DEF StartFileMonitor
  <2>2. /\ loads' \in Loads /\ loads' = loads + 1
        /\ \A t \in Loads : pc'[t] = IF t = loads' THEN "test" ELSE pc[t]
    BY <1>1, StartIs
  <2>3. finfo[loads'] = NoEntry
    BY <1>0, <2>2, loads' > loads DEF Started
  <2>4. \A t \in Loads : finfo[t] # NoEntry => pc'[t] = pc[t]
    BY <2>2, <2>3
  <2> QED BY <1>0, <2>1, <2>2, <2>4 DEF Quiet, Loads, history
<1>2. CASE StopJoin \/ StopMonitorJoin \/ StopAgain
  <2>1. UNCHANGED <<cacheVars, threadVars, history, m_run, loads>>
    BY <1>2 DEF StopJoin, StopMonitorJoin, StopAgain
  <2> QED BY <1>0, <2>1 DEF Quiet, threadVars, history
<1>21. CASE StopFlag
  <2>1. UNCHANGED <<cacheVars, threadVars, revived, wrapped, loads>> /\ m_run' = FALSE /\ loads' > 0
    BY <1>21 DEF StopFlag
  <2> QED BY <1>0, <2>1 DEF Quiet, threadVars
<1>3. CASE StopBroadcast
  <2>1. UNCHANGED <<cacheVars, finfo, result, history, m_run, loads>> /\ pc' = Broadcast(pc)
    BY <1>3 DEF StopBroadcast
  <2> QED BY <1>0, <2>1 DEF Quiet, Broadcast, history
<1>4. ASSUME NEW t \in Loads, TestRun(t) \/ SpuriousWake(t) \/ WokenNone(t) PROVE Quiet
  <2>1. UNCHANGED <<cacheVars, finfo, result, history, m_run, loads>>
    BY <1>4 DEF TestRun, SpuriousWake, WokenNone, controlVars
  <2>2. pc \in [Loads -> ThreadPcs]
    BY DEF TypeOK
  <2>3. CASE TestRun(t)
    BY <1>0, <2>1, <2>2, <2>3 DEF Quiet, TestRun, history
  <2>4. CASE SpuriousWake(t)
    BY <1>0, <2>1, <2>2, <2>4 DEF Quiet, SpuriousWake, history
  <2>5. CASE WokenNone(t)
    <3>1. finfo[t] = NoEntry /\ pc' = [pc EXCEPT ![t] = "test"]
      BY <2>5 DEF WokenNone, Started
    <3> QED BY <1>0, <2>1, <2>2, <3>1 DEF Quiet, history
  <2> QED BY <1>4, <2>3, <2>4, <2>5
<1>5. ASSUME NEW t \in Loads, LockSleep(t) \/ LockStop(t) PROVE Noting(t)
  BY <1>5 DEF LockSleep, LockStop, ResultGone, Noting, TypeOK, controlVars
<1>6. ASSUME NEW t \in Loads, LockTake(t) \/ WokenTake(t) PROVE Taking(t)
  <2>1. CASE LockTake(t)
    BY <2>1 DEF LockTake, Gone, Taking
  <2>2. CASE WokenTake(t)
    <3>1. finfo[t] = NoEntry
      BY <2>2 DEF WokenTake, Started
    <3> QED BY <2>2, <3>1 DEF WokenTake, Gone, Taking, ResultNoted
  <2> QED BY <1>6, <2>1, <2>2
<1>7. ASSUME NEW m \in Loads, MonInit(m) \/ MonLoop(m) \/ MonTimeout(m) \/ MonError(m) PROVE Quiet
  <2>1. UNCHANGED <<cacheVars, threadVars, history, m_run, loads>>
    BY <1>7 DEF MonInit, MonLoop, MonTimeout, MonError
  <2> QED BY <1>0, <2>1 DEF Quiet, threadVars, history
<1>71. ASSUME NEW m \in Loads, NEW lost \in SUBSET Watched, MonLost(m, lost) PROVE Quiet
  <2>1. /\ UNCHANGED <<cacheVars, threadVars, revived, wrapped, m_run, loads>>
        /\ dirty' = dirty \cup WhileRun(lost) /\ excused' = excused \cup WhileRun(lost)
    BY <1>71 DEF MonLost
  <2> QED BY <1>0, <2>1 DEF Quiet, threadVars
<1>8. ASSUME NEW m \in Loads, NEW f \in Watched, NEW own \in OwnOf(f), NEW over \in SUBSET CanWrap(f), MonEvent(m, f, own, over)
      PROVE  own \in SUBSET Entries /\ over \in SUBSET Entries /\ Judging(f, own, over)
  <2>1. own \in SUBSET Entries /\ over \in SUBSET Entries
    <3>1. CachedOf(f) \subseteq Entries
      BY NotBlackIs
    <3> QED BY <3>1 DEF OwnOf, CanWrap, CachedOf
  <2>2. /\ JudgeIgnored(f, own, over) \/ JudgeRescan(f, own, over) \/ JudgeNew(f) \/ JudgeNewEvict(f)
        /\ dirty' = dirty \cup WhileRun({f}) /\ UNCHANGED <<finfo, result, revived, m_run, loads>>
        /\ mon[m] = "poll"
    BY <1>8 DEF MonEvent
  <2>3. pc' \in {pc, Broadcast(pc)}
    BY <2>2 DEF JudgeIgnored, JudgeRescan, JudgeNew, JudgeNewEvict, NewEntry
  <2>4. loads > 0
    <3>1. ~ (m > loads) /\ m > 0
      BY <2>2 DEF Started, Loads
    <3> QED BY <1>0, <3>1 DEF Loads
  <2> QED BY <2>1, <2>2, <2>3, <2>4 DEF Judging
<1>9. CASE UNCHANGED vars
  BY <1>0, <1>9 DEF Quiet, vars, threadVars, history, controlVars
<1> QED BY <1>1, <1>2, <1>21, <1>3, <1>4, <1>5, <1>6, <1>7, <1>71, <1>8, <1>9 DEF Next, ScanThread

\* Who holds an entry after a step held it before, or takes it from the queue.
LEMMA HoldersAre ==
  ASSUME TypeOK
  PROVE  /\ Quiet => \A u \in Loads, e \in Entries : Holds(u, e)' => Holds(u, e)
         /\ \A t \in Loads : Noting(t) => \A u \in Loads, e \in Entries :
              Holds(u, e)' => Holds(u, e) /\ u # t
         /\ \A t \in Loads : Taking(t) => \A u \in Loads, e \in Entries :
              Holds(u, e)' => IF u = t THEN e = Head(m_scans) ELSE Holds(u, e)
         /\ \A t \in Loads : \A r : Scan(t, r) => \A u \in Loads, e \in Entries :
              Holds(u, e)' => Holds(u, e)
         /\ \A f, own, over : Judging(f, own, over) => \A u \in Loads, e \in Entries : Holds(u, e)' => Holds(u, e)
<1>0. pc \in [Loads -> ThreadPcs] /\ finfo \in [Loads -> Entries \cup {NoEntry}]
  BY DEF TypeOK
<1>1. \A e \in Entries : e # NoEntry
  BY DEF Entries, NoEntry
<1>2. Quiet => \A u \in Loads, e \in Entries : Holds(u, e)' => Holds(u, e)
  BY <1>1 DEF Quiet, Holds
<1>3. ASSUME NEW t \in Loads, Noting(t), NEW u \in Loads, NEW e \in Entries, Holds(u, e)'
      PROVE  Holds(u, e) /\ u # t
  BY <1>0, <1>1, <1>3 DEF Noting, Holds
<1>4. ASSUME NEW t \in Loads, Taking(t), NEW u \in Loads, NEW e \in Entries, Holds(u, e)'
      PROVE  IF u = t THEN e = Head(m_scans) ELSE Holds(u, e)
  BY <1>0, <1>4 DEF Taking, Take, Holds
<1>5. ASSUME NEW t \in Loads, NEW r, Scan(t, r), NEW u \in Loads, NEW e \in Entries, Holds(u, e)'
      PROVE  Holds(u, e)
  BY <1>0, <1>5 DEF Scan, Holds
<1>6. ASSUME NEW f, NEW own, NEW over, Judging(f, own, over), NEW u \in Loads, NEW e \in Entries, Holds(u, e)'
      PROVE  Holds(u, e)
  <2>1. finfo' = finfo /\ pc' \in {pc, Broadcast(pc)}
    BY <1>6 DEF Judging
  <2> QED BY <1>6, <2>1 DEF Holds, Broadcast
<1> QED BY <1>2, <1>3, <1>4, <1>5, <1>6

\* A change that makes an entry and may delete another: one of another path,
\* that is clean and was never counted again.
LEMMA MadeIs ==
  ASSUME TypeOK, Places, NEW f \in Watched, JudgeNew(f) \/ JudgeNewEvict(f)
  PROVE  /\ NewEntry(f) /\ created' \notin evicted'
         /\ CachedOf(f)' = CachedOf(f) \cup {created'} /\ IsInjective(caches'[f])
         /\ \A g \in Watched \ {f} :
              /\ IsInjective(caches'[g]) /\ CachedOf(g)' \subseteq CachedOf(g)
              /\ \A e \in CachedOf(g) : e \in CachedOf(g)' \/ e \in evicted'
         /\ \A g \in Watched : CachedOf(g)' \cap evicted' = {}
         /\ evicted \subseteq evicted' /\ evicted' \subseteq 1 .. created
         /\ \A e \in evicted' \ evicted : entry[e].result = White /\ entry[e].count = 1
<1>1. NewEntry(f) /\ created \in Nat /\ created' = created + 1 /\ created' \in Entries
  <2>1. NewEntry(f)
    BY DEF JudgeNew, JudgeNewEvict
  <2> QED BY <2>1, NewIs
<1>2. /\ caches \in [Watched -> Seq(Entries)] /\ evicted \subseteq 1 .. created
      /\ \A g \in Watched : IsInjective(caches[g]) /\ CachedOf(g) \subseteq Entries
      /\ \A g \in Watched : \A e \in CachedOf(g) :
           e <= created /\ e \notin evicted /\ entry[e].path = g
  BY NotBlackIs DEF TypeOK, Places
<1>3. created' \notin CachedOf(f)
  BY <1>1, <1>2
<1> DEFINE s == Append(caches[f], created')
<1>4. /\ s \in Seq(Entries) /\ ToSet(s) = CachedOf(f) \cup {created'} /\ IsInjective(s)
  BY <1>1, <1>2, <1>3, AppendIs DEF CachedOf
<1>5. caches' = [caches EXCEPT ![f] = s] => caches'[f] = s /\ \A g \in Watched \ {f} : caches'[g] = caches[g]
  BY <1>2
<1>6. CASE JudgeNew(f)
  <2>1. caches' = [caches EXCEPT ![f] = s] /\ evicted' = evicted
    BY <1>6 DEF JudgeNew
  <2>2. caches'[f] = s /\ \A g \in Watched \ {f} : caches'[g] = caches[g]
    BY <1>5, <2>1
  <2> HIDE DEF s
  <2>3. CachedOf(f)' = CachedOf(f) \cup {created'} /\ \A g \in Watched \ {f} : CachedOf(g)' = CachedOf(g)
    BY <1>4, <2>2 DEF CachedOf
  <2>4. created' \notin evicted /\ created' \notin 1 .. created
    BY <1>1, <1>2
  <2>5. IsInjective(caches'[f]) /\ CachedOf(f)' = CachedOf(f) \cup {created'}
    BY <1>4, <2>2, <2>3
  <2>6. ASSUME NEW g \in Watched
        PROVE  CachedOf(g)' \cap evicted = {}
    <3>1. CachedOf(g) \cap evicted = {}
      BY <1>2
    <3> QED BY <2>3, <2>4, <3>1
  <2>7. /\ evicted' = evicted /\ evicted' \subseteq 1 .. created /\ evicted' \ evicted = {}
        /\ \A g \in Watched : CachedOf(g)' \cap evicted' = {}
    BY <1>2, <2>1, <2>6
  <2>8. ASSUME NEW g \in Watched \ {f}
        PROVE  IsInjective(caches'[g]) /\ CachedOf(g)' = CachedOf(g)
    BY <1>2, <2>2, <2>3
  <2>9. created' \notin evicted'
    BY <2>1, <2>4
  <2> QED BY <1>1, <2>5, <2>7, <2>8, <2>9
<1>7. CASE JudgeNewEvict(f)
  <2>1. PICK v \in Victims(f) : /\ caches' = [caches EXCEPT ![f] = s, ![v] = <<>>]
                                /\ evicted' = evicted \cup {caches[v][1]}
    BY <1>7 DEF JudgeNewEvict
  <2>2. /\ v \in Watched /\ v # f /\ caches[v] \in Seq(Entries) /\ Len(caches[v]) = 1
        /\ entry[caches[v][1]].result = White /\ entry[caches[v][1]].count = 1
    BY <1>2 DEF Victims
  <2>3. /\ caches'[f] = s /\ caches'[v] = <<>>
        /\ \A g \in Watched \ {f, v} : caches'[g] = caches[g]
    BY <1>2, <2>1, <2>2
  <2> DEFINE x == caches[v][1]
  <2>4. CachedOf(v) = {x} /\ x \in Entries
    <3>1. \A e : e \in CachedOf(v) <=> \E i \in 1 .. Len(caches[v]) : caches[v][i] = e
      BY <2>2, Elements DEF CachedOf
    <3>2. CachedOf(v) = {x}
      BY <2>2, <3>1
    <3> QED BY <1>2, <2>2, <3>2
  <2>5. CachedOf(v)' = {} /\ IsInjective(caches'[v])
    <3>1. <<>> \in Seq(Entries) /\ Len(<<>>) = 0
      OBVIOUS
    <3>2. ToSet(<<>>) = {} /\ IsInjective(<<>>)
      BY <3>1, Elements DEF IsInjective
    <3> QED BY <2>3, <3>2 DEF CachedOf
  <2> HIDE DEF s, x
  <2>6. /\ CachedOf(f)' = CachedOf(f) \cup {created'}
        /\ \A g \in Watched \ {f, v} : CachedOf(g)' = CachedOf(g)
    BY <1>4, <2>3 DEF CachedOf
  <2>7. /\ evicted' = evicted \cup {x} /\ x <= created /\ x \notin evicted
        /\ entry[x].path = v /\ entry[x].result = White /\ entry[x].count = 1
    BY <1>2, <2>1, <2>2, <2>4 DEF x
  <2>8. created' \notin evicted' /\ evicted' \subseteq 1 .. created
    <3>1. x \in 1 .. created
      BY <1>1, <2>4, <2>7 DEF Entries
    <3>2. evicted' \subseteq 1 .. created
      BY <1>2, <2>7, <3>1
    <3>3. created' \notin 1 .. created
      BY <1>1
    <3> QED BY <3>2, <3>3
  <2>9. ASSUME NEW g \in Watched PROVE CachedOf(g)' \cap evicted' = {}
    <3>1. CASE g = v
      BY <2>5, <3>1
    <3>2. CASE g = f
      BY <1>2, <2>2, <2>6, <2>7, <2>8, <3>2
    <3>3. CASE g \notin {f, v}
      BY <1>2, <2>6, <2>7, <3>3
    <3> QED BY <3>1, <3>2, <3>3
  <2>10. ASSUME NEW g \in Watched \ {f}
         PROVE  /\ IsInjective(caches'[g]) /\ CachedOf(g)' \subseteq CachedOf(g)
                /\ \A e \in CachedOf(g) : e \in CachedOf(g)' \/ e \in evicted'
    BY <1>2, <2>3, <2>4, <2>5, <2>6, <2>7
  <2>11. IsInjective(caches'[f])
    BY <1>4, <2>3
  <2> QED BY <1>1, <2>6, <2>7, <2>8, <2>9, <2>10, <2>11
<1> QED BY <1>6, <1>7

\* What a change or a scan counts and queues.
LEMMA CacheTypesAre == ASSUME TypeOK PROVE created \in Nat /\ m_scans \in Seq(Entries)
<1>1. created \in Entries \cup {0} /\ m_scans \in Seq(Entries)
  BY DEF TypeOK
<1> QED BY <1>1 DEF Entries

\* What is queued or held stays where it is found, and what a change deletes
\* is neither.
LEMMA PlacesStep ==
  ASSUME TypeOK, Started, Places, Once, TypeOK', [Next]_vars
  PROVE  Places'
<1>0. /\ created \in Nat /\ m_scans \in Seq(Entries) /\ entry \in [Entries -> EntryRec]
      /\ \A f \in Watched : CachedOf(f) \subseteq Entries
      /\ \A e \in Entries : entry[e].path \in Watched
  <2>1. entry \in [Entries -> EntryRec]
    BY DEF TypeOK, EntryRec
  <2>2. \A e \in Entries : entry[e] \in EntryRec
    BY <2>1
  <2>3. \A e \in Entries : entry[e].path \in Watched
    BY <2>2 DEF EntryRec
  <2>4. created \in Nat /\ m_scans \in Seq(Entries)
    BY CacheTypesAre
  <2>5. \A f \in Watched : CachedOf(f) \subseteq Entries
    BY NotBlackIs
  <2> QED BY <2>1, <2>3, <2>4, <2>5
<1> DEFINE SameCache == caches' = caches /\ created' = created /\ evicted' = evicted
           SamePaths == \A e \in Entries : entry'[e].path = entry[e].path
           Used(e) == e \in Waiting \/ \E t \in Loads : Holds(t, e)
\* When the cache lists the same entries.
<1>1. ASSUME SameCache, SamePaths, wrapped \subseteq wrapped',
             \A e \in Entries : (Used(e))' => Used(e) \/ e \in CachedOf(entry[e].path)
      PROVE  Places'
  <2>1. \A f \in Watched : CachedOf(f)' = CachedOf(f)
    BY <1>1 DEF CachedOf
  <2>2. evicted' \subseteq 1 .. created' /\ \A f \in Watched : IsInjective(caches'[f])
    BY <1>1 DEF Places
  <2>3. ASSUME NEW f \in Watched, NEW e \in CachedOf(f)'
        PROVE  e <= created' /\ e \notin evicted' /\ entry'[e].path = f
    BY <1>0, <1>1, <2>1, <2>3 DEF Places
  <2>4. ASSUME NEW e \in Entries, (Used(e))'
        PROVE  e \in CachedOf(entry[e].path) \/ e \in evicted \cap wrapped
    BY <1>1, <2>4 DEF Places
  <2>5. ASSUME NEW e \in Entries, (Used(e))'
        PROVE  e \in CachedOf(entry[e].path)' \/ e \in evicted' \cap wrapped'
    <3>0. SUFFICES ASSUME e \in CachedOf(entry[e].path) PROVE e \in CachedOf(entry[e].path)'
      BY <1>1, <2>4, <2>5
    <3>1. e \in CachedOf(entry[e].path) /\ entry[e].path \in Watched /\ entry'[e].path = entry[e].path
      BY <1>0, <1>1, <3>0
    <3>2. CachedOf(entry[e].path)' = ToSet(caches'[entry'[e].path])
      BY DEF CachedOf
    <3> QED BY <1>1, <3>1, <3>2 DEF CachedOf
  <2> QED BY <2>2, <2>3, <2>5 DEF Places
<1>2. CASE Quiet
  <2>1. SameCache /\ SamePaths /\ Waiting' = Waiting /\ wrapped' = wrapped
    BY <1>2 DEF Quiet, cacheVars, Waiting
  <2>2. \A u \in Loads, e \in Entries : Holds(u, e)' => Holds(u, e)
    BY <1>2, HoldersAre
  <2> QED BY <1>1, <2>1, <2>2
<1>3. ASSUME NEW t \in Loads, Noting(t) PROVE Places'
  <2>1. SameCache /\ Waiting' = Waiting /\ entry' = ResultNoted(t) /\ wrapped' = wrapped
    BY <1>3 DEF Noting, Waiting, history
  <2>2. SamePaths
    BY <2>1, NotedIs
  <2>3. \A u \in Loads, e \in Entries : Holds(u, e)' => Holds(u, e)
    BY <1>3, HoldersAre
  <2> QED BY <1>1, <2>1, <2>2, <2>3
<1>4. ASSUME NEW t \in Loads, Taking(t) PROVE Places'
  <2>1. SameCache /\ wrapped' = wrapped
    BY <1>4 DEF Taking, Take
  <2>2. Take(t, ResultNoted(t)) /\ m_scans # <<>>
    BY <1>4 DEF Taking
  <2>3. /\ ResultNoted(t) \in [Entries -> EntryRec]
        /\ \A e \in Entries : ResultNoted(t)[e].path = entry[e].path
    BY NotedIs
  <2>4. /\ Waiting = {Head(m_scans)} \cup Waiting'
        /\ \A e \in Entries : entry'[e].path = ResultNoted(t)[e].path
    BY <2>2, <2>3, TakeIs
  <2>5. SamePaths
    BY <2>3, <2>4
  <2>6. \A u \in Loads, e \in Entries : Holds(u, e)' => Holds(u, e) \/ e = Head(m_scans)
    BY <1>4, HoldersAre
  <2>7. \A e \in Entries : (Used(e))' => Used(e)
    BY <2>4, <2>6
  <2> QED BY <1>1, <2>1, <2>5, <2>7
<1>5. ASSUME NEW t \in Loads, NEW r \in {Queued, White, Black}, Scan(t, r) PROVE Places'
  <2>1. SameCache /\ SamePaths /\ Waiting' = Waiting /\ wrapped' = wrapped
    BY <1>5 DEF Scan, cacheVars, Waiting
  <2>2. \A u \in Loads, e \in Entries : Holds(u, e)' => Holds(u, e)
    BY <1>5, HoldersAre
  <2> QED BY <1>1, <2>1, <2>2
<1>6. ASSUME NEW f \in Watched, NEW own, NEW over \in SUBSET Entries, Judging(f, own, over) PROVE Places'
  <2>1. \A u \in Loads, e \in Entries : Holds(u, e)' => Holds(u, e)
    BY <1>6, HoldersAre
  <2>2. CASE JudgeIgnored(f, own, over)
    <3>1. SameCache /\ Waiting' = Waiting
      BY <2>2 DEF JudgeIgnored, Waiting
    <3>2. SamePaths /\ wrapped \subseteq wrapped'
      BY <2>2, IgnoredIs
    <3> QED BY <1>1, <2>1, <3>1, <3>2
  <2>3. CASE JudgeRescan(f, own, over)
    <3>1. SameCache
      BY <2>3 DEF JudgeRescan
    <3>2. SamePaths /\ wrapped \subseteq wrapped'
      BY <2>3, RescanIs
    <3>3. PICK x \in CachedOf(f) : Waiting' = Waiting \cup {x}
      BY <2>3, RescanIs
    <3>4. entry[x].path = f
      BY DEF Places
    <3>5. \A e \in Entries : (Used(e))' => Used(e) \/ e \in CachedOf(entry[e].path)
      BY <2>1, <3>3, <3>4
    <3> QED BY <1>1, <3>1, <3>2, <3>5
  <2>4. CASE JudgeNew(f) \/ JudgeNewEvict(f)
    <3>1. /\ NewEntry(f) /\ created' \notin evicted'
          /\ CachedOf(f)' = CachedOf(f) \cup {created'} /\ IsInjective(caches'[f])
          /\ \A g \in Watched \ {f} :
               /\ IsInjective(caches'[g]) /\ CachedOf(g)' \subseteq CachedOf(g)
               /\ \A e \in CachedOf(g) : e \in CachedOf(g)' \/ e \in evicted'
          /\ \A g \in Watched : CachedOf(g)' \cap evicted' = {}
          /\ evicted \subseteq evicted' /\ evicted' \subseteq 1 .. created
          /\ \A e \in evicted' \ evicted : entry[e].result = White /\ entry[e].count = 1
      BY <2>4, MadeIs
    <3>2. /\ created' = created + 1 /\ created' \in Entries
          /\ entry'[created'].path = f
          /\ \A e \in Entries : e # created' => entry'[e] = entry[e]
          /\ Waiting' = Waiting \cup {created'}
      BY <3>1, NewIs
    <3>3. evicted' \subseteq 1 .. created' /\ \A g \in Watched : IsInjective(caches'[g])
      BY <1>0, <3>1, <3>2
    <3>4. ASSUME NEW g \in Watched, NEW e \in CachedOf(g)'
          PROVE  e <= created' /\ e \notin evicted' /\ entry'[e].path = g
      <4>1. e \notin evicted'
        BY <3>1, <3>4
      <4>2. CASE e = created'
        <5>1. ASSUME g # f PROVE FALSE
          BY <1>0, <3>1, <3>2, <3>4, <4>2, <5>1 DEF Places
        <5> QED BY <1>0, <3>2, <4>1, <4>2, <5>1
      <4>3. CASE e # created'
        <5>1. e \in CachedOf(g)
          BY <3>1, <3>4, <4>3
        <5>2. e \in Entries /\ e <= created /\ entry[e].path = g
          BY <1>0, <5>1 DEF Places
        <5> QED BY <1>0, <3>2, <4>1, <4>3, <5>2 DEF Entries
      <4> QED BY <4>2, <4>3
    <3>50. wrapped' = wrapped
      BY <3>1 DEF NewEntry
    <3>5. ASSUME NEW e \in Entries, (Used(e))'
          PROVE  e \in CachedOf(entry[e].path)' \/ e \in evicted' \cap wrapped'
      <4>1. CASE e = created'
        <5>1. ToSet(caches'[f]) = CachedOf(f) \cup {created'}
          BY <3>1 DEF CachedOf
        <5> QED BY <3>2, <4>1, <5>1 DEF CachedOf
      <4>2. CASE e # created'
        <5>1. Used(e)
          BY <2>1, <3>2, <3>5, <4>2
        <5> DEFINE g == entry[e].path
        <5>0. SUFFICES ASSUME ~ (e \in evicted' \cap wrapped') PROVE e \in CachedOf(entry[e].path)'
          OBVIOUS
        <5>2. g \in Watched /\ e \in CachedOf(g) /\ e <= created /\ e \notin evicted
          BY <1>0, <3>1, <3>50, <5>0, <5>1 DEF Places
        <5>3. e \notin evicted'
          <6>1. SUFFICES ASSUME e \in evicted' \ evicted PROVE FALSE
            BY <5>2
          <6>2. entry[e].result = White /\ entry[e].count = 1 /\ e \notin wrapped
            BY <3>1, <3>50, <5>0, <6>1
          <6>3. entry[e].result \in {Queued, Scanning}
            BY <5>1, <5>2, <6>2 DEF Once
          <6> QED BY <6>2, <6>3 DEF Queued, Scanning, White
        <5> HIDE DEF g
        <5>4. e \in ToSet(caches'[g])
          BY <3>1, <5>2, <5>3 DEF CachedOf
        <5>5. entry'[e].path = g
          BY <3>2, <4>2 DEF g
        <5> QED BY <5>4, <5>5 DEF CachedOf
      <4> QED BY <4>1, <4>2
    <3> QED BY <3>3, <3>4, <3>5 DEF Places
  <2> QED BY <1>6, <2>2, <2>3, <2>4 DEF Judging
<1> QED BY <1>2, <1>3, <1>4, <1>5, <1>6, StepKinds

\* An entry that is not counted again is not queued again.
LEMMA OnceStep ==
  ASSUME TypeOK, Started, Places, Once, [Next]_vars
  PROVE  Once'
<1>0. /\ created \in Nat /\ m_scans \in Seq(Entries) /\ entry \in [Entries -> EntryRec]
      /\ \A f \in Watched : CachedOf(f) \subseteq Entries
      /\ \A e \in Entries : e # NoEntry /\ entry[e].count \in 0 .. Many
  <2>1. entry \in [Entries -> EntryRec]
    BY DEF TypeOK, EntryRec
  <2>2. \A e \in Entries : entry[e] \in EntryRec
    BY <2>1
  <2>3. \A e \in Entries : entry[e].count \in 0 .. Many
    BY <2>2 DEF EntryRec
  <2>4. created \in Nat /\ m_scans \in Seq(Entries)
    BY CacheTypesAre
  <2>5. \A f \in Watched : CachedOf(f) \subseteq Entries
    BY NotBlackIs
  <2>6. \A e \in Entries : e # NoEntry
    BY DefenEngineConstants DEF Entries, NoEntry
  <2> QED BY <2>1, <2>3, <2>4, <2>5, <2>6
<1>00. Queued # Scanning
  BY DEF Queued, Scanning
<1> DEFINE Fine(e) == /\ e \in Waiting => entry[e].result = Queued
                      /\ Single(m_scans, e)
                      /\ \A t \in Loads : Holds(t, e) => entry[e].result = Scanning /\ e \notin Waiting
                      /\ \A t, u \in Loads : Holds(t, e) /\ Holds(u, e) => t = u
           Same(e) == entry'[e].count = entry[e].count /\ (entry[e].count = 1 => (Fine(e))')
\* It is enough that the counts stay and that what had them is fine again.
<1>1. ASSUME created' = created, wrapped' = wrapped,
             \A e \in Entries \ wrapped : e <= created => Same(e)
      PROVE  Once'
  BY <1>1 DEF Once
<1>2. ASSUME NEW e \in Entries \ wrapped, e <= created, entry[e].count = 1 PROVE Fine(e)
  BY <1>2 DEF Once
\* A step that leaves the queue and the results to what is said of them.
<1>3. ASSUME m_scans' = m_scans, NEW e \in Entries, entry'[e].result = entry[e].result, Fine(e),
             \A u \in Loads : Holds(u, e)' => Holds(u, e)
      PROVE  (Fine(e))'
  BY <1>3 DEF Waiting
<1>4. CASE Quiet
  <2>1. created' = created /\ m_scans' = m_scans /\ entry' = entry /\ wrapped' = wrapped
    BY <1>4 DEF Quiet, cacheVars
  <2>2. \A u \in Loads, e \in Entries : Holds(u, e)' => Holds(u, e)
    BY <1>4, HoldersAre
  <2>3. ASSUME NEW e \in Entries \ wrapped, e <= created PROVE Same(e)
    BY <1>2, <1>3, <2>1, <2>2, <2>3
  <2> QED BY <1>1, <2>1, <2>3
<1>5. ASSUME NEW t \in Loads, Noting(t) PROVE Once'
  <2>1. /\ created' = created /\ m_scans' = m_scans /\ entry' = ResultNoted(t) /\ pc[t] = "lock"
        /\ wrapped' = wrapped
    BY <1>5 DEF Noting, history
  <2>2. \A u \in Loads, e \in Entries : Holds(u, e)' => Holds(u, e) /\ u # t
    BY <1>5, HoldersAre
  <2>3. \A e \in Entries : /\ entry'[e].count = entry[e].count
                           /\ finfo[t] # e => entry'[e].result = entry[e].result
    BY <2>1, NotedIs
  <2>4. ASSUME NEW e \in Entries \ wrapped, e <= created, entry[e].count = 1 PROVE (Fine(e))'
    <3>1. Fine(e)
      BY <1>2, <2>4
    <3>2. CASE finfo[t] # e
      BY <1>3, <2>1, <2>2, <2>3, <3>1, <3>2
    <3>3. CASE finfo[t] = e
      <4>1. Holds(t, e)
        BY <2>1, <3>3 DEF Holds
      <4>2. e \notin Waiting /\ \A u \in Loads : ~ Holds(u, e)'
        BY <2>2, <3>1, <4>1
      <4> QED BY <2>1, <3>1, <4>2 DEF Waiting
    <3> QED BY <3>2, <3>3
  <2>5. \A e \in Entries \ wrapped : e <= created => Same(e)
    BY <2>3, <2>4
  <2> QED BY <1>1, <2>1, <2>5
<1>6. ASSUME NEW t \in Loads, Taking(t) PROVE Once'
  <2>1. /\ Take(t, ResultNoted(t)) /\ m_scans # <<>> /\ pc[t] # "exit" /\ created' = created
        /\ wrapped' = wrapped
    BY <1>6 DEF Taking, Take
  <2>2. /\ ResultNoted(t) \in [Entries -> EntryRec]
        /\ \A e \in Entries :
             /\ ResultNoted(t)[e].count = entry[e].count
             /\ ResultNoted(t)[e].result = IF finfo[t] = e THEN result[t] ELSE entry[e].result
    BY NotedIs
  <2> DEFINE h == Head(m_scans)
  <2>3. /\ h \in Entries /\ Waiting = {h} \cup Waiting'
        /\ \A x : Single(m_scans, x) => Single(m_scans', x) /\ (h # x \/ x \notin Waiting')
        /\ \A e \in Entries :
             /\ entry'[e].count = ResultNoted(t)[e].count
             /\ entry'[e].result = IF e = h THEN Scanning ELSE ResultNoted(t)[e].result
    BY <2>1, <2>2, TakeIs
  <2>4. \A u \in Loads, e \in Entries : Holds(u, e)' => IF u = t THEN e = h ELSE Holds(u, e)
    BY <1>6, HoldersAre
  <2> HIDE DEF h
  <2>5. ASSUME NEW e \in Entries \ wrapped, e <= created, entry[e].count = 1 PROVE (Fine(e))'
    <3>1. Fine(e) /\ (finfo[t] = e => Holds(t, e))
      BY <1>2, <2>1, <2>5 DEF Holds
    <3>2. CASE e = h
      <4>1. e \in Waiting /\ e \notin Waiting' /\ Single(m_scans', e) /\ entry'[e].result = Scanning
        BY <2>3, <3>1, <3>2
      <4>2. \A u \in Loads : Holds(u, e)' => u = t
        BY <2>4, <3>1, <4>1
      <4> QED BY <4>1, <4>2
    <3>3. CASE e # h
      <4>1. (e \in Waiting <=> e \in Waiting') /\ Single(m_scans', e)
        BY <2>3, <3>1, <3>3
      <4>2. \A u \in Loads : Holds(u, e)' => Holds(u, e) /\ u # t
        BY <2>4, <3>3
      <4>3. CASE finfo[t] = e
        <5>1. e \notin Waiting' /\ \A u \in Loads : ~ Holds(u, e)'
          BY <3>1, <4>1, <4>2, <4>3
        <5> QED BY <4>1, <5>1
      <4>4. CASE finfo[t] # e
        <5>1. entry'[e].result = entry[e].result
          BY <2>2, <2>3, <3>3, <4>4
        <5> QED BY <3>1, <4>1, <4>2, <5>1
      <4> QED BY <4>3, <4>4
    <3> QED BY <3>2, <3>3
  <2>6. \A e \in Entries \ wrapped : e <= created => Same(e)
    BY <2>2, <2>3, <2>5
  <2> QED BY <1>1, <2>1, <2>6
<1>7. ASSUME NEW t \in Loads, NEW r \in {Queued, White, Black}, Scan(t, r) PROVE Once'
  <2>1. created' = created /\ m_scans' = m_scans /\ entry' = entry /\ wrapped' = wrapped
    BY <1>7 DEF Scan, cacheVars
  <2>2. \A u \in Loads, e \in Entries : Holds(u, e)' => Holds(u, e)
    BY <1>7, HoldersAre
  <2>3. ASSUME NEW e \in Entries \ wrapped, e <= created PROVE Same(e)
    BY <1>2, <1>3, <2>1, <2>2, <2>3
  <2> QED BY <1>1, <2>1, <2>3
<1>8. ASSUME NEW f \in Watched, NEW own, NEW over \in SUBSET Entries, Judging(f, own, over) PROVE Once'
  <2>1. \A u \in Loads, e \in Entries : Holds(u, e)' => Holds(u, e)
    BY <1>8, HoldersAre
  <2>2. ASSUME NEW e \in Entries \ wrapped, e <= created, e \notin over
        PROVE  More(e, over) # 0 /\ More(e, over) # 1
    BY <1>0, <2>2, MoreIs DEF Once
\* Whatever is counted again has a larger count than one, or wraps.
  <2>3. ASSUME created' = created, wrapped \subseteq wrapped',
               \A e \in Entries : \/ entry'[e].count = More(e, over) /\ (e \in over => e \in wrapped')
                                  \/ entry'[e] = entry[e] /\ (Fine(e) => (Fine(e))')
        PROVE  Once'
    BY <1>2, <2>2, <2>3 DEF Once
  <2>4. CASE JudgeIgnored(f, own, over)
    <3>1. created' = created /\ m_scans' = m_scans
      BY <2>4 DEF JudgeIgnored
    <3>2. /\ wrapped \subseteq wrapped'
          /\ \A e \in Entries : entry'[e] # entry[e] =>
               entry'[e].count = More(e, over) /\ (e \in over => e \in wrapped')
      BY <2>4, IgnoredIs
    <3>3. ASSUME NEW e \in Entries, entry'[e] = entry[e], Fine(e) PROVE (Fine(e))'
      BY <1>3, <2>1, <3>1, <3>3
    <3> QED BY <2>3, <3>1, <3>2, <3>3
  <2>5. CASE JudgeRescan(f, own, over)
    <3>1. created' = created
      BY <2>5 DEF JudgeRescan
    <3>2. /\ wrapped \subseteq wrapped'
          /\ \A e \in Entries : IF e \in CachedOf(f) /\ InPlay(e)
                                  THEN entry'[e].count = More(e, over) /\ (e \in over => e \in wrapped')
                                ELSE entry'[e] = entry[e]
          /\ \E x \in CachedOf(f) : /\ InPlay(x) /\ Waiting' = Waiting \cup {x}
                                    /\ \A e : e # x /\ Single(m_scans, e) => Single(m_scans', e)
      BY <2>5, RescanIs
    <3>3. PICK x \in CachedOf(f) : /\ InPlay(x) /\ Waiting' = Waiting \cup {x}
                                   /\ \A e : e # x /\ Single(m_scans, e) => Single(m_scans', e)
      BY <3>2
    <3>4. ASSUME NEW e \in Entries, e # x, entry'[e] = entry[e], Fine(e) PROVE (Fine(e))'
      BY <2>1, <3>3, <3>4
    <3>5. \A e \in Entries : \/ entry'[e].count = More(e, over) /\ (e \in over => e \in wrapped')
                             \/ entry'[e] = entry[e] /\ (Fine(e) => (Fine(e))')
      BY <3>2, <3>3, <3>4
    <3> QED BY <2>3, <3>1, <3>2, <3>5
  <2>6. CASE JudgeNew(f) \/ JudgeNewEvict(f)
    <3>1. NewEntry(f)
      BY <2>6 DEF JudgeNew, JudgeNewEvict
    <3>2. /\ created' = created + 1 /\ created' \in Entries
          /\ entry'[created'].result = Queued /\ entry'[created'].count = 1
          /\ \A e \in Entries : e # created' => entry'[e] = entry[e]
          /\ Waiting' = Waiting \cup {created'}
          /\ \A e : e # created' /\ Single(m_scans, e) => Single(m_scans', e)
          /\ Single(m_scans', created')
      BY <3>1, NewIs
    <3>3. \A u \in Loads : ~ Holds(u, created')
      <4>1. SUFFICES ASSUME NEW u \in Loads, Holds(u, created') PROVE FALSE
        OBVIOUS
      <4> DEFINE g == entry[created'].path
      <4>2. (created' \in CachedOf(g) \/ created' \in evicted) /\ g \in Watched
        <5>1. entry[created'] \in EntryRec
          BY <1>0, <3>2
        <5> QED BY <3>2, <4>1, <5>1 DEF Places, EntryRec
      <4> HIDE DEF g
      <4>3. created' <= created
        <5>0. created \in Nat /\ evicted \subseteq 1 .. created
          BY CacheTypesAre DEF Places
        <5>1. \A e \in evicted : e <= created
          BY <5>0
        <5>2. \A e \in CachedOf(g) : e <= created
          BY <4>2 DEF Places
        <5> QED BY <4>2, <5>1, <5>2
      <4> QED BY <1>0, <3>2, <4>3
    <3>33. wrapped' = wrapped
      BY <3>1 DEF NewEntry
    <3>4. ASSUME NEW e \in Entries \ wrapped, e <= created'
          PROVE  entry'[e].count # 0 /\ (entry'[e].count = 1 => (Fine(e))')
      <4>1. CASE e = created'
        <5>1. \A u \in Loads : ~ Holds(u, e)'
          BY <2>1, <3>3, <4>1
        <5> QED BY <3>2, <4>1, <5>1
      <4>2. CASE e # created'
        <5>1. e <= created /\ entry'[e] = entry[e] /\ entry[e].count # 0
          BY <1>0, <3>2, <3>4, <4>2 DEF Once, Entries
        <5>2. ASSUME entry[e].count = 1 PROVE (Fine(e))'
          <6>1. Fine(e)
            BY <1>2, <5>1, <5>2
          <6> QED BY <2>1, <3>2, <4>2, <5>1, <6>1
        <5> QED BY <5>1, <5>2
      <4> QED BY <4>1, <4>2
    <3> QED BY <3>33, <3>4 DEF Once
  <2> QED BY <1>8, <2>4, <2>5, <2>6 DEF Judging
<1> QED BY <1>4, <1>5, <1>6, <1>7, <1>8, StepKinds

\* Loads are counted up, and with a single one there is one scan thread.
LEMMA OneThread ==
  ASSUME TypeOK, Started, [Next]_vars, loads' <= 1
  PROVE  loads <= 1 /\ \A t \in Loads : t # 1 => pc[t] = "none" /\ finfo[t] = NoEntry
<1>1. loads \in Nat
  BY DefenEngineConstants DEF TypeOK
<1>2. loads' \in {loads, loads + 1}
  <2>1. CASE Quiet
    BY <2>1 DEF Quiet
  <2>2. CASE \E t \in Loads : Noting(t)
    BY <1>1, <2>2 DEF Noting
  <2>3. CASE \E t \in Loads : Taking(t)
    BY <1>1, <2>3 DEF Taking, Take, controlVars
  <2>4. CASE \E t \in Loads, r \in {Queued, White, Black} : Scan(t, r)
    BY <1>1, <2>4 DEF Scan, controlVars
  <2>5. CASE \E f \in Watched, own \in SUBSET Entries, over \in SUBSET Entries : Judging(f, own, over)
    BY <1>1, <2>5 DEF Judging
  <2> QED BY <2>1, <2>2, <2>3, <2>4, <2>5, StepKinds
<1>3. loads <= 1
  BY <1>1, <1>2
<1>4. ASSUME NEW t \in Loads, t # 1 PROVE pc[t] = "none" /\ finfo[t] = NoEntry
  <2>1. t > loads
    BY <1>1, <1>3, <1>4, DefenEngineConstants DEF Loads
  <2> QED BY <2>1 DEF Started
<1> QED BY <1>3, <1>4

\* A second entry in play comes from an infected one that is scanned again.
LEMMA OneInPlayStep ==
  ASSUME TypeOK, Started, Places, loads <= 1 => OneInPlay, [Next]_vars, loads' <= 1
  PROVE  OneInPlay'
<1>0. /\ OneInPlay
      /\ \A t \in Loads : t # 1 => pc[t] = "none" /\ finfo[t] = NoEntry
      /\ \A f \in Watched : CachedOf(f) \subseteq Entries
      /\ \A t \in Loads : finfo[t] # NoEntry => finfo[t] \in Entries
      /\ \A f \in Watched : \A e \in CachedOf(f) : entry[e].path = f
  BY OneThread, NotBlackIs DEF TypeOK, Places
\* It is enough that no entry comes into play, unless the file is revived.
<1>1. ASSUME revived \subseteq revived', caches' = caches,
             \A f \in Watched \ revived' : \A e \in CachedOf(f) : InPlay(e)' => InPlay(e),
             \A t \in Loads : finfo'[t] # NoEntry => InPlay(finfo[t])'
      PROVE  OneInPlay'
  <2>1. \A f \in Watched : CachedOf(f)' = CachedOf(f)
    BY <1>1 DEF CachedOf
  <2> QED BY <1>0, <1>1, <2>1 DEF OneInPlay
<1>2. CASE Quiet
  BY <1>0, <1>2 DEF Quiet, cacheVars, history, OneInPlay, InPlay, CachedOf
<1>3. ASSUME NEW t \in Loads, Noting(t) PROVE OneInPlay'
  <2>1. /\ caches' = caches /\ revived' = revived /\ entry' = ResultNoted(t)
        /\ finfo' = [finfo EXCEPT ![t] = NoEntry] /\ pc[t] # "none"
    BY <1>3 DEF Noting, history
  <2>2. \A e \in Entries : entry'[e].result = IF finfo[t] = e THEN result[t] ELSE entry[e].result
    BY <2>1, NotedIs
  <2>3. \A e \in Entries : finfo[t] = e => InPlay(e)
    BY <1>0 DEF OneInPlay, Entries, NoEntry
  <2>4. \A f \in Watched : \A e \in CachedOf(f) : InPlay(e)' => InPlay(e)
    BY <1>0, <2>2, <2>3 DEF InPlay
  <2>5. \A u \in Loads : finfo'[u] = NoEntry
    <3>1. t = 1 /\ finfo \in [Loads -> Entries \cup {NoEntry}]
      BY <1>0, <2>1 DEF TypeOK
    <3> QED BY <1>0, <2>1, <3>1
  <2> QED BY <1>1, <2>1, <2>4, <2>5
<1>4. ASSUME NEW t \in Loads, Taking(t) PROVE OneInPlay'
  <2>1. /\ Take(t, ResultNoted(t)) /\ m_scans # <<>> /\ caches' = caches
        /\ finfo' = [finfo EXCEPT ![t] = Head(m_scans)] /\ revived \subseteq revived'
    BY <1>4 DEF Taking, Take
  <2>2. /\ ResultNoted(t) \in [Entries -> EntryRec]
        /\ \A e \in Entries :
             ResultNoted(t)[e].result = IF finfo[t] = e THEN result[t] ELSE entry[e].result
    BY NotedIs
  <2> DEFINE h == Head(m_scans)
  <2>3. /\ h \in Entries
        /\ \A e \in Entries :
             entry'[e].result = IF e = h THEN Scanning ELSE ResultNoted(t)[e].result
        /\ ResultNoted(t)[h].result = Black => entry[h].path \in revived'
    BY <2>1, <2>2, TakeIs
  <2>4. finfo' = [finfo EXCEPT ![t] = h]
    BY <2>1
  <2> HIDE DEF h
  <2>5. \A e \in Entries : ResultNoted(t)[e].result # Black => InPlay(e)
    BY <1>0, <2>2 DEF OneInPlay, Entries, NoEntry, InPlay
  <2>6. ASSUME NEW f \in Watched \ revived', NEW e \in CachedOf(f), InPlay(e)' PROVE InPlay(e)
    <3>1. e \in Entries /\ entry[e].path = f
      BY <1>0
    <3>2. CASE e = h
      BY <2>3, <2>5, <3>1, <3>2
    <3>3. CASE e # h
      BY <2>3, <2>5, <2>6, <3>1, <3>3 DEF InPlay
    <3> QED BY <3>2, <3>3
  <2>7. \A u \in Loads : finfo'[u] # NoEntry => InPlay(finfo[u])'
    <3>1. ASSUME NEW u \in Loads, u # t PROVE finfo'[u] = NoEntry
      <4>1. t = 1 /\ finfo \in [Loads -> Entries \cup {NoEntry}]
        BY <1>0, <1>4 DEF TypeOK, Taking
      <4> QED BY <1>0, <2>4, <3>1, <4>1
    <3>2. finfo'[t] = h /\ entry'[h].result = Scanning
      BY <2>3, <2>4 DEF TypeOK
    <3> QED BY <3>1, <3>2 DEF InPlay, Scanning, Black
  <2> QED BY <1>1, <2>1, <2>6, <2>7
<1>5. ASSUME NEW t \in Loads, NEW r \in {Queued, White, Black}, Scan(t, r) PROVE OneInPlay'
  BY <1>0, <1>5 DEF Scan, cacheVars, OneInPlay, InPlay, CachedOf
<1>6. ASSUME NEW f \in Watched, NEW own, NEW over \in SUBSET Entries, Judging(f, own, over) PROVE OneInPlay'
  <2>1. revived' = revived /\ finfo' = finfo
    BY <1>6 DEF Judging
  <2>2. CASE JudgeIgnored(f, own, over) \/ JudgeRescan(f, own, over)
    <3>1. caches' = caches
      BY <2>2 DEF JudgeIgnored, JudgeRescan
    <3>2. ASSUME NEW e \in Entries PROVE InPlay(e)' <=> InPlay(e)
      <4>1. CASE JudgeIgnored(f, own, over)
        <5>1. /\ entry'[e] # entry[e] => InPlay(e)
              /\ entry'[e].result \in {entry[e].result, Queued}
          BY <4>1, IgnoredIs
        <5> QED BY <5>1 DEF InPlay, Queued, Black
      <4>2. CASE JudgeRescan(f, own, over)
        <5>1. IF e \in CachedOf(f) /\ InPlay(e) THEN entry'[e].result = Queued ELSE entry'[e] = entry[e]
          BY <4>2, RescanIs
        <5> QED BY <5>1 DEF InPlay, Queued, Black
      <4> QED BY <2>2, <4>1, <4>2
    <3>3. \A t \in Loads : finfo'[t] # NoEntry => InPlay(finfo[t])'
      BY <1>0, <2>1, <3>2 DEF OneInPlay, InPlay
    <3> QED BY <1>0, <1>1, <2>1, <3>1, <3>2, <3>3
  <2>3. CASE JudgeNew(f) \/ JudgeNewEvict(f)
    <3>1. /\ NewEntry(f) /\ CachedOf(f)' = CachedOf(f) \cup {created'}
          /\ \A g \in Watched \ {f} : CachedOf(g)' \subseteq CachedOf(g)
      BY <2>3, MadeIs
    <3>2. /\ created' \in Entries /\ created' = created + 1 /\ created \in Nat
          /\ entry'[created'].result = Queued
          /\ \A e \in Entries : e # created' => entry'[e] = entry[e]
          /\ \A e \in CachedOf(f) : ~ InPlay(e)
      BY <3>1, NewIs
    <3>3. \A g \in Watched : \A e \in CachedOf(g) : e # created' /\ (InPlay(e)' <=> InPlay(e))
      <4>1. SUFFICES ASSUME NEW g \in Watched, NEW e \in CachedOf(g)
                     PROVE  e # created' /\ (InPlay(e)' <=> InPlay(e))
        OBVIOUS
      <4>2. e \in Entries /\ e <= created
        BY <1>0 DEF Places
      <4>3. e # created' /\ entry'[e] = entry[e]
        BY <3>2, <4>2 DEF Entries
      <4> QED BY <4>3 DEF InPlay
    <3>4. \A g \in Watched \ revived' : \A d, e \in CachedOf(g)' : InPlay(d)' /\ InPlay(e)' => d = e
      <4>1. SUFFICES ASSUME NEW g \in Watched \ revived, NEW d \in CachedOf(g)', NEW e \in CachedOf(g)',
                            InPlay(d)', InPlay(e)'
                     PROVE  d = e
        BY <2>1
      <4>2. CASE g = f
        BY <3>1, <3>2, <3>3, <4>1, <4>2
      <4>3. CASE g # f
        BY <1>0, <3>1, <3>3, <4>1, <4>3 DEF OneInPlay
      <4> QED BY <4>2, <4>3
    <3>5. \A t \in Loads : finfo'[t] # NoEntry => InPlay(finfo[t])'
      <4>1. ASSUME NEW e \in Entries, InPlay(e) PROVE InPlay(e)'
        <5>1. entry'[e].result \in {Queued, entry[e].result}
          BY <3>2
        <5> QED BY <4>1, <5>1 DEF InPlay, Queued, Black
      <4> QED BY <1>0, <2>1, <4>1 DEF OneInPlay, InPlay
    <3> QED BY <3>4, <3>5 DEF OneInPlay
  <2> QED BY <1>6, <2>2, <2>3 DEF Judging
<1> QED BY <1>2, <1>3, <1>4, <1>5, <1>6, StepKinds

\* An entry that is marked as queued is in the queue, or its scan got no answer.
LEMMA MarkedIsQueuedStep ==
  ASSUME TypeOK, Started, Places, loads <= 1 => OneInPlay /\ MarkedIsQueued, [Next]_vars,
         loads' <= 1, TypeOK', Places'
  PROVE  MarkedIsQueued'
<1>00. SUFFICES ASSUME m_run' \/ loads' = 0 PROVE AllMarked'
  BY DEF MarkedIsQueued
<1>01. loads <= 1 /\ (m_run \/ loads = 0)
  <2>1. loads <= 1 /\ loads \in Nat
    BY OneThread, DefenEngineConstants DEF TypeOK
  <2>2. CASE Quiet
    <3>1. ~ (m_run' = FALSE /\ loads' > 0) /\ loads' \in {loads, loads + 1}
      BY <1>00, <2>1, <2>2 DEF Quiet
    <3>2. m_run' = m_run \/ loads' = loads + 1
      BY <2>2, <3>1 DEF Quiet
    <3> QED BY <1>00, <2>1, <3>1, <3>2
  <2>3. CASE UNCHANGED <<m_run, loads>>
    BY <1>00, <2>1, <2>3
  <2>4. Quiet \/ UNCHANGED <<m_run, loads>>
    BY StepKinds DEF Noting, Taking, Take, Scan, Judging, controlVars
  <2> QED BY <2>1, <2>2, <2>3, <2>4
<1>0. /\ OneInPlay /\ AllMarked /\ m_scans \in Seq(Entries)
      /\ finfo \in [Loads -> Entries \cup {NoEntry}]
      /\ pc \in [Loads -> ThreadPcs] /\ result \in [Loads -> Results]
      /\ \A t \in Loads : t # 1 => pc[t] = "none" /\ finfo[t] = NoEntry
      /\ \A f \in Watched : CachedOf(f) \subseteq Entries
      /\ \A f \in Watched : \A e \in CachedOf(f) : entry[e].path = f
      /\ \A e \in Entries : e # NoEntry /\ entry[e].path \in Watched
  <2>1. \A e \in Entries : entry[e].path \in Watched
    <3>1. entry \in [Entries -> EntryRec]
      BY DEF TypeOK, EntryRec
    <3>2. \A e \in Entries : entry[e] \in EntryRec
      BY <3>1
    <3> QED BY <3>2 DEF EntryRec
  <2>2. OneInPlay /\ AllMarked /\ \A t \in Loads : t # 1 => pc[t] = "none" /\ finfo[t] = NoEntry
    BY <1>01, OneThread DEF MarkedIsQueued
  <2>3. \A f \in Watched : CachedOf(f) \subseteq Entries
    BY NotBlackIs
  <2>4. (\A f \in Watched : \A e \in CachedOf(f) : entry[e].path = f) /\ \A e \in Entries : e # NoEntry
    BY DEF Places, Entries, NoEntry
  <2>5. /\ m_scans \in Seq(Entries) /\ finfo \in [Loads -> Entries \cup {NoEntry}]
        /\ pc \in [Loads -> ThreadPcs] /\ result \in [Loads -> Results]
    BY DEF TypeOK
  <2> QED BY <2>1, <2>2, <2>3, <2>4, <2>5
<1> DEFINE Excused(f) == f \in excused \cup revived
           Told(e) == entry[e].result = Queued => e \in Waiting \/ Excused(entry[e].path)
           NoteTold == \A t \in Loads :
             pc[t] \in {"test", "lock"} /\ finfo[t] # NoEntry /\ result[t] = Queued =>
               Excused(entry[finfo[t]].path)
           ChangeTold == \A f \in dirty :
             (\E e \in Waiting : entry[e].path = f) \/ Excused(f)
\* What the queue is asked.
<1>1. \A f : InQueue(f) <=> \E e \in Waiting : entry[e].path = f
  <2>1. \A e : e \in Waiting <=> \E i \in DOMAIN m_scans : m_scans[i] = e
    BY <1>0, Elements DEF Waiting
  <2> QED BY <2>1 DEF InQueue
<1>2. (\A f \in Watched : \A e \in CachedOf(f) : Told(e)) /\ NoteTold /\ ChangeTold
  BY <1>0, <1>1 DEF AllMarked
\* It is enough to say it of the next state in these terms.
<1>3. ASSUME \A f \in Watched : \A e \in CachedOf(f)' : (Told(e))', NoteTold', ChangeTold'
      PROVE  AllMarked'
  <2>1. m_scans' \in Seq(Entries)
    BY DEF TypeOK
  <2>2. \A e : e \in Waiting' <=> \E i \in DOMAIN m_scans' : m_scans'[i] = e
    BY <2>1, Elements DEF Waiting
  <2>3. \A f : InQueue(f)' <=> \E e \in Waiting' : entry'[e].path = f
    BY <2>2 DEF InQueue
  <2>4. \A f \in Watched : \A e \in CachedOf(f)' : entry'[e].path = f
    BY DEF Places
  <2> QED BY <1>3, <2>3, <2>4 DEF AllMarked, NoteTold, ChangeTold
<1>4. CASE Quiet
  <2>1. UNCHANGED <<caches, entry, m_scans, finfo, result, revived>>
    BY <1>4 DEF Quiet, cacheVars
  <2>2. Waiting' = Waiting /\ \A f : CachedOf(f)' = CachedOf(f)
    BY <2>1 DEF CachedOf, Waiting
  <2>3. PICK lost : dirty' = dirty \cup lost /\ excused' = excused \cup lost
    BY <1>00, <1>4 DEF Quiet
  <2>4. NoteTold'
    <3>1. \A t \in Loads : finfo[t] # NoEntry => (pc'[t] \in {"test", "lock"} => pc[t] \in {"test", "lock"})
      BY <1>4 DEF Quiet
    <3> QED BY <1>2, <2>1, <2>3, <3>1
  <2>5. ChangeTold' /\ \A f \in Watched : \A e \in CachedOf(f)' : (Told(e))'
    BY <1>2, <2>1, <2>2, <2>3
  <2> QED BY <1>3, <2>4, <2>5
<1>5. ASSUME NEW t \in Loads, Noting(t) PROVE AllMarked'
  <2>1. /\ UNCHANGED <<caches, m_scans, dirty, excused, revived>> /\ entry' = ResultNoted(t)
        /\ finfo' = [finfo EXCEPT ![t] = NoEntry] /\ pc[t] = "lock"
    BY <1>5 DEF Noting, history
  <2>2. \A e \in Entries : /\ entry'[e].path = entry[e].path
                           /\ entry'[e].result = IF finfo[t] = e THEN result[t] ELSE entry[e].result
    BY <2>1, NotedIs
  <2>3. /\ \A f : CachedOf(f)' = CachedOf(f)
        /\ Waiting' = Waiting /\ Waiting \subseteq Entries
    BY <1>0, <2>1, Elements DEF CachedOf, Waiting
  <2>4. \A e \in Entries : finfo[t] = e /\ result[t] = Queued => Excused(entry[e].path)
    BY <1>0, <1>2, <2>1
  <2>5. ASSUME NEW f \in Watched, NEW e \in CachedOf(f)' PROVE (Told(e))'
    <3>1. e \in Entries /\ Told(e)
      BY <1>0, <1>2, <2>3
    <3> QED BY <2>1, <2>2, <2>3, <2>4, <3>1
  <2>6. t = 1 /\ \A u \in Loads : finfo'[u] = NoEntry
    BY <1>0, <2>1
  <2>7. ChangeTold'
    BY <1>2, <2>1, <2>2, <2>3
  <2> QED BY <1>3, <2>5, <2>6, <2>7
<1>6. ASSUME NEW t \in Loads, Taking(t) PROVE AllMarked'
  <2> DEFINE h == Head(m_scans)
             F == entry[h].path
  <2>1. /\ Take(t, ResultNoted(t)) /\ m_scans # <<>> /\ caches' = caches
        /\ pc[t] \in {"lock", "woken"} /\ pc' = [pc EXCEPT ![t] = "scan"]
        /\ finfo' = [finfo EXCEPT ![t] = h] /\ revived \subseteq revived'
        /\ dirty' = dirty \ {F} /\ excused' = excused \ {F}
    BY <1>6 DEF Taking, Take
  <2>2. /\ ResultNoted(t) \in [Entries -> EntryRec]
        /\ \A e \in Entries :
             /\ ResultNoted(t)[e].path = entry[e].path
             /\ ResultNoted(t)[e].result = IF finfo[t] = e THEN result[t] ELSE entry[e].result
    BY NotedIs
  <2>3. /\ h \in Entries /\ Waiting = {h} \cup Waiting'
        /\ \A e \in Entries :
             /\ entry'[e].path = ResultNoted(t)[e].path
             /\ entry'[e].result = IF e = h THEN Scanning ELSE ResultNoted(t)[e].result
        /\ ResultNoted(t)[h].result = Black => F \in revived'
    BY <2>1, <2>2, TakeIs
  <2>4. h \in CachedOf(F) /\ F \in Watched /\ Waiting \subseteq Entries
    <3>1. Waiting \subseteq Entries
      BY <1>0, Elements DEF Waiting
    <3>2. h \in Waiting /\ h \notin evicted
      BY <1>6, <2>3 DEF Taking, UsedFreed, Waiting
    <3> QED BY <1>0, <2>3, <3>1, <3>2 DEF Places
  <2> HIDE DEF h, F
  <2>5. \A e \in Entries : ResultNoted(t)[e].result # Black => InPlay(e)
    BY <1>0, <2>2 DEF OneInPlay, InPlay
  <2>6. ASSUME NEW f \in Watched, NEW e \in CachedOf(f)' PROVE (Told(e))'
    <3>1. e \in CachedOf(f) /\ e \in Entries /\ Told(e) /\ entry[e].path = f /\ entry'[e].path = f
      <4>1. e \in CachedOf(f)
        BY <2>1, <2>6 DEF CachedOf
      <4> QED BY <1>0, <1>2, <2>2, <2>3, <4>1
    <3>2. SUFFICES ASSUME entry'[e].result = Queued, f \notin revived'
                   PROVE  e \in Waiting' \/ f \in excused'
      BY <3>1
    <3>3. e # h /\ ResultNoted(t)[e].result = Queued
      BY <2>3, <3>1, <3>2 DEF Queued, Scanning
    <3>4. f # F
      <4>1. SUFFICES ASSUME f = F PROVE FALSE
        OBVIOUS
      <4>2. InPlay(h) /\ InPlay(e) /\ f \notin revived
        BY <2>1, <2>3, <2>5, <3>1, <3>2, <3>3, <4>1 DEF Queued, Black
      <4> QED BY <2>4, <3>1, <3>3, <4>1, <4>2, <1>0 DEF OneInPlay
    <3>5. CASE finfo[t] = e
      <4>1. pc[t] = "lock" /\ result[t] = Queued
        BY <1>0, <2>1, <2>2, <3>1, <3>3, <3>5 DEF Started
      <4> QED BY <1>0, <1>2, <2>1, <3>1, <3>2, <3>4, <3>5, <4>1
    <3>6. CASE finfo[t] # e
      <4>1. entry[e].result = Queued
        BY <2>2, <3>1, <3>3, <3>6
      <4> QED BY <2>1, <2>3, <3>1, <3>2, <3>3, <3>4, <4>1
    <3> QED BY <3>5, <3>6
  <2>7. t = 1 /\ pc'[t] = "scan" /\ \A u \in Loads : u # t => finfo'[u] = NoEntry
    BY <1>0, <2>1
  <2>8. ChangeTold'
    <3>1. SUFFICES ASSUME NEW g \in dirty, g # F
                   PROVE  (\E e \in Waiting' : entry'[e].path = g) \/ g \in excused' \cup revived'
      BY <2>1
    <3>2. ASSUME NEW e \in Waiting, entry[e].path = g PROVE e \in Waiting' /\ entry'[e].path = g
      BY <2>2, <2>3, <2>4, <3>1, <3>2 DEF F
    <3> QED BY <1>2, <2>1, <3>1, <3>2
  <2> QED BY <1>3, <2>6, <2>7, <2>8
<1>7. ASSUME NEW t \in Loads, NEW r \in {Queued, White, Black}, Scan(t, r) PROVE AllMarked'
  <2>0. m_run
    BY <1>01, <1>7 DEF Scan, Started, Loads
  <2>1. /\ UNCHANGED <<caches, entry, m_scans, finfo, revived>> /\ pc[t] = "scan"
        /\ result' = [result EXCEPT ![t] = r] /\ excused \subseteq excused'
        /\ r = Queued => entry[finfo[t]].path \in excused'
        /\ \A f \in dirty' : f \in dirty \/ f \in excused'
    BY <1>7, <2>0 DEF Scan, WhileRun, cacheVars
  <2>2. /\ \A f : CachedOf(f)' = CachedOf(f)
        /\ Waiting' = Waiting
    BY <2>1 DEF CachedOf, Waiting
  <2>3. t = 1 /\ \A u \in Loads : u # t => finfo[u] = NoEntry
    BY <1>0, <2>1
  <2>4. NoteTold'
    BY <1>0, <2>1, <2>3
  <2>5. ChangeTold'
    BY <1>2, <2>1, <2>2
  <2>6. \A f \in Watched : \A e \in CachedOf(f)' : (Told(e))'
    BY <1>2, <2>1, <2>2
  <2> QED BY <1>3, <2>4, <2>5, <2>6
<1>8. ASSUME NEW f \in Watched, NEW own, NEW over \in SUBSET Entries, Judging(f, own, over) PROVE AllMarked'
  <2>0. m_run
    BY <1>01, <1>8 DEF Judging
  <2>1. /\ dirty' = dirty \cup {f} /\ pc' \in {pc, Broadcast(pc)}
        /\ UNCHANGED <<finfo, result, revived>> /\ excused \subseteq excused'
    <3>1. excused \subseteq excused'
      BY <1>8, IgnoredIs DEF Judging, JudgeRescan, JudgeNew, JudgeNewEvict, NewEntry
    <3> QED BY <1>8, <2>0, <3>1 DEF Judging, WhileRun
  <2>2. \A t \in Loads : pc'[t] \in {"test", "lock"} => pc[t] \in {"test", "lock"}
    BY <2>1 DEF Broadcast
  <2>3. Waiting \subseteq Entries /\ created \in Nat
    <3>1. Waiting \subseteq Entries
      BY <1>0, Elements DEF Waiting
    <3>2. created \in Nat
      BY DEF TypeOK, Entries
    <3> QED BY <3>1, <3>2
\* As long as the paths of what is held stay.
  <2>4. ASSUME \A e \in Entries : e <= created => entry'[e].path = entry[e].path PROVE NoteTold'
    <3>1. SUFFICES ASSUME NEW t \in Loads, pc[t] \in {"test", "lock"}, finfo[t] # NoEntry, result[t] = Queued
                   PROVE  entry'[finfo[t]].path \in excused \cup revived
      BY <2>1, <2>2
    <3>2. finfo[t] \in Entries /\ Holds(t, finfo[t])
      BY <1>0, <3>1 DEF Holds
    <3>3. finfo[t] <= created
      <4>1. \A e \in evicted : e <= created
        BY <2>3 DEF Places
      <4>2. /\ entry[finfo[t]].path \in Watched
            /\ finfo[t] \in CachedOf(entry[finfo[t]].path) \/ finfo[t] \in evicted
        BY <1>0, <3>2 DEF Places
      <4> QED BY <4>1, <4>2 DEF Places
    <3> QED BY <1>2, <2>4, <3>1, <3>2, <3>3
  <2>5. CASE JudgeIgnored(f, own, over)
    <3>1. UNCHANGED <<caches, m_scans>> /\ Waiting' = Waiting /\ \A g : CachedOf(g)' = CachedOf(g)
      BY <2>5 DEF JudgeIgnored, Waiting, CachedOf
    <3>2. /\ \A e \in Entries : /\ entry'[e].path = entry[e].path
                                /\ entry'[e] # entry[e] => e \in CachedOf(f) /\ InPlay(e)
          /\ \E x \in CachedOf(f) :
               /\ InPlay(x) /\ entry'[x].result = entry[x].result
               /\ entry[x].result = Queued \/ f \in excused'
      BY <2>0, <2>5, IgnoredIs
    <3>3. PICK x \in CachedOf(f) : /\ InPlay(x) /\ entry'[x].result = entry[x].result
                                   /\ entry[x].result = Queued \/ f \in excused'
      BY <3>2
    <3>4. ASSUME NEW g \in Watched, NEW e \in CachedOf(g) PROVE (Told(e))'
      <4>1. e \in Entries /\ Told(e) /\ entry[e].path = g /\ entry'[e].path = g
        BY <1>0, <1>2, <3>2
      <4>2. CASE entry'[e].result = entry[e].result
        BY <2>1, <3>1, <4>1, <4>2
      <4>3. CASE entry'[e].result # entry[e].result
        <5>1. e # x /\ e \in CachedOf(f) /\ InPlay(e)
          BY <3>2, <3>3, <4>1, <4>3
        <5>2. f \in revived /\ g = f
          BY <1>0, <3>3, <4>1, <5>1 DEF OneInPlay
        <5> QED BY <2>1, <4>1, <5>2
      <4> QED BY <4>2, <4>3
    <3>5. ChangeTold'
      <4>1. SUFFICES ASSUME NEW g \in dirty \cup {f}
                     PROVE  \/ \E e \in Waiting : entry'[e].path = g
                            \/ g \in excused' \cup revived
        BY <2>1, <3>1
      <4>2. \A e \in Waiting : entry'[e].path = entry[e].path
        BY <2>3, <3>2
      <4>3. CASE g \in dirty
        BY <1>2, <2>1, <3>2, <4>2, <4>3
      <4>4. CASE g = f
        BY <1>0, <1>2, <2>1, <3>3, <4>2, <4>4
      <4> QED BY <4>1, <4>3, <4>4
    <3> QED BY <1>3, <2>4, <3>1, <3>2, <3>4, <3>5
  <2>6. CASE JudgeRescan(f, own, over)
    <3>1. UNCHANGED <<caches, excused>> /\ \A g : CachedOf(g)' = CachedOf(g)
      BY <2>6 DEF JudgeRescan, CachedOf
    <3>2. /\ \A e \in Entries : /\ entry'[e].path = entry[e].path
                                /\ ~ (e \in CachedOf(f) /\ InPlay(e)) => entry'[e] = entry[e]
          /\ \E x \in CachedOf(f) : x \in Entries /\ InPlay(x) /\ Waiting' = Waiting \cup {x}
      BY <2>6, RescanIs
    <3>3. PICK x \in CachedOf(f) : x \in Entries /\ InPlay(x) /\ Waiting' = Waiting \cup {x}
      BY <3>2
    <3>4. ASSUME NEW g \in Watched, NEW e \in CachedOf(g) PROVE (Told(e))'
      <4>1. e \in Entries /\ Told(e) /\ entry[e].path = g /\ entry'[e].path = g
        BY <1>0, <1>2, <3>2
      <4>2. CASE ~ (e \in CachedOf(f) /\ InPlay(e))
        <5>1. entry'[e] = entry[e]
          BY <3>2, <4>1, <4>2
        <5> QED BY <2>1, <3>3, <4>1, <5>1
      <4>3. CASE e \in CachedOf(f) /\ InPlay(e)
        <5>1. e = x \/ f \in revived
          BY <1>0, <3>3, <4>3 DEF OneInPlay
        <5>2. g = f
          BY <1>0, <4>1, <4>3
        <5> QED BY <2>1, <3>3, <4>1, <5>1, <5>2
      <4> QED BY <4>2, <4>3
    <3>5. ChangeTold'
      <4>1. SUFFICES ASSUME NEW g \in dirty \cup {f}
                     PROVE  \/ \E e \in Waiting' : entry'[e].path = g
                            \/ g \in excused \cup revived
        BY <2>1, <3>1
      <4>2. \A e \in Waiting : e \in Waiting' /\ entry'[e].path = entry[e].path
        BY <2>3, <3>2, <3>3
      <4>3. CASE g \in dirty
        BY <1>2, <4>2, <4>3
      <4>4. CASE g = f
        <5>1. x \in Waiting' /\ entry'[x].path = f
          BY <1>0, <3>2, <3>3
        <5> QED BY <4>4, <5>1
      <4> QED BY <4>1, <4>3, <4>4
    <3> QED BY <1>3, <2>4, <3>1, <3>2, <3>4, <3>5
  <2>7. CASE JudgeNew(f) \/ JudgeNewEvict(f)
    <3>1. /\ NewEntry(f) /\ CachedOf(f)' = CachedOf(f) \cup {created'}
          /\ \A g \in Watched \ {f} : CachedOf(g)' \subseteq CachedOf(g)
      BY <2>7, MadeIs
    <3>2. /\ created' \in Entries /\ created' = created + 1
          /\ entry'[created'].path = f
          /\ \A e \in Entries : e # created' => entry'[e] = entry[e]
          /\ Waiting' = Waiting \cup {created'} /\ created' \notin Waiting
      BY <3>1, NewIs
    <3>3. excused' = excused
      BY <3>1 DEF NewEntry
    <3>4. ASSUME NEW g \in Watched, NEW e \in CachedOf(g)' PROVE (Told(e))'
      <4>1. CASE e = created'
        BY <3>2, <4>1
      <4>2. CASE e # created'
        <5>1. e \in CachedOf(g)
          BY <3>1, <3>4, <4>2
        <5>2. e \in Entries /\ Told(e) /\ entry'[e] = entry[e]
          BY <1>0, <1>2, <3>2, <4>2, <5>1
        <5> QED BY <2>1, <3>2, <5>2
      <4> QED BY <4>1, <4>2
    <3>5. ChangeTold'
      <4>1. SUFFICES ASSUME NEW g \in dirty \cup {f}
                     PROVE  \/ \E e \in Waiting' : entry'[e].path = g
                            \/ g \in excused \cup revived
        BY <2>1, <3>3
      <4>2. \A e \in Waiting : e \in Waiting' /\ entry'[e].path = entry[e].path
        BY <2>3, <3>2
      <4>3. CASE g \in dirty
        BY <1>2, <4>2, <4>3
      <4>4. CASE g = f
        BY <3>2, <4>4
      <4> QED BY <4>1, <4>3, <4>4
    <3>6. \A e \in Entries : e <= created => entry'[e].path = entry[e].path
      BY <2>3, <3>2 DEF Entries
    <3> QED BY <1>3, <2>4, <3>4, <3>5, <3>6
  <2> QED BY <1>8, <2>5, <2>6, <2>7 DEF Judging
<1> QED BY <1>4, <1>5, <1>6, <1>7, <1>8, StepKinds

\* The initial states, in which there is nothing to say it of.
LEMMA DefenInitInv ==
  ASSUME Init
  PROVE  DefenInv
<1>1. TypeOK
  <2>1. /\ (CHOOSE f \in Watched : TRUE) \in Watched /\ {Queued} \subseteq Results
        /\ 0 \in 0 .. Many /\ 0 \in 0 .. MaxLoads
    BY DefenEngineConstants DEF Results, Many
  <2>2. entry \in [Entries -> EntryRec]
    BY <2>1 DEF Init, EntryRec
  <2>3. <<>> \in Seq(Entries)
    OBVIOUS
  <2>4. caches \in [Watched -> Seq(Entries)] /\ m_scans \in Seq(Entries)
    BY <2>3 DEF Init
  <2>5. /\ pc \in [Loads -> ThreadPcs] /\ finfo \in [Loads -> Entries \cup {NoEntry}]
        /\ result \in [Loads -> Results] /\ mon \in [Loads -> {"none", "init", "loop", "poll", "exit"}]
    BY <2>1 DEF Init, ThreadPcs
  <2>6. /\ created \in Entries \cup {0} /\ evicted \subseteq Entries
        /\ {m_run, mStatus, fanotify} \subseteq BOOLEAN
        /\ m_thread \in Loads \cup {0} /\ mDefenceThread \in Loads \cup {0} /\ loads \in 0 .. MaxLoads
        /\ cpc \in {"idle", "broadcast", "join", "monjoin", "rejoin", "deleted", "wild"}
        /\ dirty \cup excused \cup revived \subseteq Watched /\ wrapped \subseteq Entries
    BY <2>1 DEF Init
  <2> QED BY <2>2, <2>4, <2>5, <2>6 DEF TypeOK, EntryRec
<1>2. /\ \A f \in Watched : CachedOf(f) = {} /\ IsInjective(caches[f])
      /\ Waiting = {} /\ \A e : Single(m_scans, e)
  <2>1. <<>> \in Seq(Entries) /\ Len(<<>>) = 0
    OBVIOUS
  <2>2. ToSet(<<>>) = {} /\ IsInjective(<<>>) /\ \A e : Single(<<>>, e)
    <3>1. ToSet(<<>>) = {} /\ IsInjective(<<>>)
      BY <2>1, Elements
    <3>2. \A e : Single(<<>>, e)
      BY <2>1 DEF Single
    <3> QED BY <3>1, <3>2
  <2>3. m_scans = <<>> /\ \A f \in Watched : caches[f] = <<>>
    BY DEF Init
  <2> QED BY <2>2, <2>3 DEF CachedOf, Waiting
<1>3. /\ created = 0 /\ evicted = {} /\ dirty = {} /\ loads = 0 /\ cpc = "idle" /\ mStatus = FALSE
      /\ \A t \in Loads : pc[t] = "none" /\ mon[t] = "none" /\ finfo[t] = NoEntry
  BY DEF Init
<1>4. \A t \in Loads, e \in Entries : ~ Holds(t, e)
  BY <1>3 DEF Holds, Entries, NoEntry
<1>5. Started
  BY <1>3 DEF Started
<1>6. Places
  BY <1>2, <1>3, <1>4 DEF Places
<1>7. Once
  BY <1>3 DEF Once, Entries
<1>8. OneInPlay /\ MarkedIsQueued /\ Joined
  BY <1>2, <1>3 DEF OneInPlay, MarkedIsQueued, AllMarked, Joined, Deleted
<1> QED BY <1>1, <1>3, <1>5, <1>6, <1>7, <1>8 DEF DefenInv

LEMMA DefenInvStep ==
  ASSUME DefenInv, [Next]_vars
  PROVE  DefenInv'
<1>1. /\ TypeOK /\ Started /\ Places /\ Once
      /\ cpc # "idle" => loads > 0
      /\ loads <= 1 => OneInPlay /\ MarkedIsQueued /\ Joined
  BY DEF DefenInv
<1>2. TypeOK' /\ Started' /\ Once'
  BY <1>1, DefenTypesStep, StartedStep, OnceStep
<1>3. Places'
  BY <1>1, <1>2, PlacesStep
<1>4. (loads' <= 1 => Joined') /\ (cpc' # "idle" => loads' > 0)
  BY <1>1, JoinedStep
<1>5. ASSUME loads' <= 1 PROVE OneInPlay' /\ MarkedIsQueued'
  BY <1>1, <1>2, <1>3, <1>5, OneInPlayStep, MarkedIsQueuedStep
<1> QED BY <1>2, <1>3, <1>4, <1>5 DEF DefenInv

\* The file monitor keeps its inductive invariant: what is queued or held is in
\* the cache unless its count wrapped, an entry that was not counted again is queued
\* once, and with one
\* load a file has one entry in play, which is in the queue if it is marked so
\* (onDefenEvent and ThreadMain of defenengine.cpp).
THEOREM MonitorInvariance == Spec => []DefenInv
<1>1. Init => DefenInv
  BY DefenInitInv
<1>2. DefenInv /\ [Next]_vars => DefenInv'
  BY DefenInvStep
<1> QED BY <1>1, <1>2, PTL DEF Spec

\* What the invariant says of the sequence that JudgeChange looks at.
LEMMA TwoInPlay ==
  ASSUME TypeOK, Places, NEW f \in Watched, Len(NotBlack(f)) > 1
  PROVE  \E d, e \in CachedOf(f) : InPlay(d) /\ InPlay(e) /\ d # e
<1> DEFINE s == NotBlack(f)
<1>1. /\ s \in Seq(Entries) /\ ToSet(s) = {e \in CachedOf(f) : InPlay(e)} /\ IsInjective(s)
      /\ \A e : e \in ToSet(s) <=> \E i \in 1 .. Len(s) : s[i] = e
  BY NotBlackIs DEF Places
<1> HIDE DEF s
<1>2. 1 \in 1 .. Len(s) /\ 2 \in 1 .. Len(s) /\ DOMAIN s = 1 .. Len(s)
  <2>1. Len(s) > 1
    BY DEF s
  <2> QED BY <1>1, <2>1
<1>3. s[1] # s[2] /\ s[1] \in ToSet(s) /\ s[2] \in ToSet(s)
  BY <1>1, <1>2 DEF IsInjective
<1> QED BY <1>1, <1>3

\* A deleted entry whose count did not wrap is neither queued nor held, a path has two entries in play
\* only after an infected one was scanned again, and after a single load the
\* engine is deleted when its threads have ended (JudgeChange, ThreadMain and
\* StopFileMonitor of defenengine.cpp), in every behaviour.
THEOREM EntriesAreSafe == Spec => []EntrySafety
<1>1. DefenInv => EntrySafety
  <2> SUFFICES ASSUME DefenInv PROVE EntrySafety
    OBVIOUS
  <2>0. TypeOK /\ Started /\ Places /\ (loads <= 1 => OneInPlay /\ Joined)
    BY DEF DefenInv
  <2>1. EvictedIsUnused
    <3>1. SUFFICES ASSUME NEW e \in evicted, e \in ToSet(m_scans) \cup Held, e \notin wrapped PROVE FALSE
      BY DEF EvictedIsUnused
    <3>2. e \in Entries
      BY <2>0 DEF TypeOK
    <3>3. e \in Waiting \/ \E t \in Loads : Holds(t, e)
      BY <3>1 DEF Waiting, Held, Holds
    <3>4. e \in CachedOf(entry[e].path)
      BY <2>0, <3>1, <3>2, <3>3 DEF Places
    <3>5. entry[e].path \in Watched
      <4>1. entry \in [Entries -> EntryRec]
        BY <2>0 DEF TypeOK, EntryRec
      <4>2. entry[e] \in EntryRec
        BY <3>2, <4>1
      <4> QED BY <4>2 DEF EntryRec
    <3> QED BY <2>0, <3>4, <3>5 DEF Places
  <2>2. OneEntryInPlay
    <3>1. SUFFICES ASSUME loads = 1, NEW f \in Watched, Len(NotBlack(f)) > 1 PROVE f \in revived
      BY DEF OneEntryInPlay
    <3>2. \E d, e \in CachedOf(f) : InPlay(d) /\ InPlay(e) /\ d # e
      BY <2>0, <3>1, TwoInPlay
    <3> QED BY <2>0, <3>1, <3>2 DEF OneInPlay
  <2>3. DeletedAfterThreads
    <3>1. SUFFICES ASSUME Deleted, loads = 1, NEW t \in Loads
                   PROVE  pc[t] \in {"none", "exit"} /\ mon[t] \in {"none", "exit"}
      BY DEF DeletedAfterThreads
    <3>2. pc[1] = "exit" /\ mon[1] = "exit"
      BY <2>0, <3>1 DEF Joined, Deleted
    <3>3. t = 1 \/ t > loads
      BY <3>1, DefenEngineConstants DEF Loads
    <3> QED BY <2>0, <3>2, <3>3 DEF Started
  <2> QED BY <2>0, <2>1, <2>2, <2>3 DEF EntrySafety
<1> QED BY <1>1, MonitorInvariance, PTL

\* A file that changed is queued for a scan, with the exceptions ChangeIsQueued
\* names (onDefenEvent and ThreadMain of defenengine.cpp), in every behaviour.
THEOREM ChangesAreQueued == Spec => []ChangeIsQueued
<1>1. DefenInv => ChangeIsQueued
  <2> SUFFICES ASSUME DefenInv, m_run, loads = 1 PROVE ChangeIsQueued
    BY DEF ChangeIsQueued
  <2>1. AllMarked
    BY DEF DefenInv, MarkedIsQueued
  <2> QED BY <2>1 DEF AllMarked, ChangeIsQueued
<1> QED BY <1>1, MonitorInvariance, PTL
================================================================================
