-------------------------- MODULE Registry_proofs --------------------------
(***************************************************************************)
(* Proofs about Registry, for any number of requests, names, definitions    *)
(* and activations, any seed, and any number of reviews.  Most of the work   *)
(* is about positions: what a rolled-back insert leaves of the order of a    *)
(* log, and where a commit puts its event among those committed before.     *)
(***************************************************************************)
EXTENDS Registry, SequenceTheorems, WellFoundedInduction, TLAPS

\* A set of numbers that is not empty has a least member.
LEMMA LeastExists ==
    ASSUME NEW S \in SUBSET Nat, S # {}
    PROVE  \E x \in S : \A y \in S : x =< y
  <1> DEFINE R == OpToRel(<, Nat)
  <1>1. IsWellFoundedOn(R, Nat) /\ \A x, y \in Nat : y < x => <<y, x>> \in R
    BY NatLessThanWellFounded DEF OpToRel
  <1> HIDE DEF R
  <1>2. \E x \in S : \A y \in S : ~(<<y, x>> \in R)
    BY <1>1, WFMin
  <1>3. PICK x \in S : \A y \in S : ~(<<y, x>> \in R)
    BY <1>2
  <1>4. \A n, m \in Nat : ~(n < m) => m =< n
    OBVIOUS
  <1> QED
    BY <1>1, <1>3, <1>4

-----------------------------------------------------------------------------
(* Lists of events                                                         *)

\* Versions are numbers, positions too.
LEMMA EventFacts ==
    ASSUME NEW events \in Seq(Event)
    PROVE  /\ \A i \in Visible(events) : i \in Nat /\ events[i].def.version \in Nat
           /\ \A i \in DOMAIN events : i \in Nat /\ events[i] \in Event
           /\ Visible(events) \subseteq DOMAIN events /\ DOMAIN events = 1..Len(events)
           /\ Len(events) \in Nat
  <1>1. Len(events) \in Nat /\ DOMAIN events = 1..Len(events)
    OBVIOUS
  <1>2. \A i \in DOMAIN events : i \in Nat /\ events[i] \in Event
    BY <1>1
  <1>3. \A e \in Event : e.def.version \in Nat
    BY RegistryAssumption DEF Event
  <1>4. Visible(events) \subseteq DOMAIN events
    BY DEF Visible
  <1> QED
    BY <1>1, <1>2, <1>3, <1>4

\* Both lists have the same committed events, in the same order.
Same(old, new, t) ==
    /\ t \in [Visible(new) -> Visible(old)]
    /\ \A i, j \in Visible(new) : i < j => t[i] < t[j]
    /\ \A i \in Visible(new) : new[i].def = old[t[i]].def
    /\ \A i \in Visible(old) : \E j \in Visible(new) : t[j] = i

\* A linear history is one of the committed events in their order only.
LEMMA LinearTransfers ==
    ASSUME NEW old \in Seq(Event), NEW new \in Seq(Event), NEW t, Same(old, new, t),
           NEW current, Linear(old, current)
    PROVE  Linear(new, current)
  <1> DEFINE from == Visible(old)
             at == Visible(new)
             V(i) == new[i].def.version
             U(i) == old[i].def.version
  <1>1. /\ t \in [at -> from]
        /\ \A i, j \in at : i < j => t[i] < t[j]
        /\ \A i \in at : new[i].def = old[t[i]].def
        /\ \A i \in from : \E j \in at : t[j] = i
    BY DEF Same
  <1>2. (\A i \in at : i \in Nat) /\ (\A i \in from : i \in Nat)
    BY EventFacts
  <1>3. \A i, j \in at : t[i] <= t[j] => i <= j
    BY <1>1, <1>2, SMTT(60)
  <1> SUFFICES ASSUME \A i, j \in at : V(i) = 1 /\ V(j) = 1 => i = j
               PROVE  /\ \A i, j \in at : i < j => V(i) < V(j)
                      /\ \A i \in at : V(i) = 1 \/ \E j \in at : V(j) = V(i) - 1
                      /\ \A i, j \in at : new[i].def.rootstock => j <= i
                      /\ IF at = {} THEN current = NoRow
                         ELSE \E i \in at : (\A j \in at : j <= i) /\ current = new[i].def
    BY DEF Linear
  <1>4. \A i, j \in from : U(i) = 1 /\ U(j) = 1 => i = j
    BY <1>1
  <1>5. /\ \A i, j \in from : i < j => U(i) < U(j)
        /\ \A i \in from : U(i) = 1 \/ \E j \in from : U(j) = U(i) - 1
        /\ \A i, j \in from : old[i].def.rootstock => j <= i
        /\ IF from = {} THEN current = NoRow
           ELSE \E i \in from : (\A j \in from : j <= i) /\ current = old[i].def
    BY <1>4 DEF Linear
  <1> HIDE DEF at, from
  <1>6. \A i, j \in at : i < j => V(i) < V(j)
    BY <1>1, <1>5
  <1>7. \A i \in at : V(i) = 1 \/ \E j \in at : V(j) = V(i) - 1
    <2> SUFFICES ASSUME NEW i \in at, V(i) # 1 PROVE \E j \in at : V(j) = V(i) - 1
      OBVIOUS
    <2>1. t[i] \in from /\ U(t[i]) = V(i)
      BY <1>1
    <2>2. PICK j \in from : U(j) = U(t[i]) - 1
      BY <1>5, <2>1
    <2>3. PICK k \in at : t[k] = j
      BY <1>1
    <2>4. V(k) = U(j)
      BY <1>1, <2>3
    <2> QED
      BY <2>1, <2>2, <2>4
  <1>8. \A i, j \in at : new[i].def.rootstock => j <= i
    BY <1>1, <1>3, <1>5
  <1>9. IF at = {} THEN current = NoRow
        ELSE \E i \in at : (\A j \in at : j <= i) /\ current = new[i].def
    <2>1. at = {} <=> from = {}
      BY <1>1
    <2>2. ASSUME from # {}
          PROVE  \E i \in at : (\A j \in at : j <= i) /\ current = new[i].def
      <3>1. PICK i \in from : (\A j \in from : j <= i) /\ current = old[i].def
        BY <1>5, <2>2
      <3>2. PICK k \in at : t[k] = i
        BY <1>1
      <3>3. (\A j \in at : j <= k) /\ current = new[k].def
        BY <1>1, <1>3, <3>1, <3>2
      <3> QED
        BY <3>3
    <2> QED
      BY <1>5, <2>1, <2>2
  <1> QED
    BY <1>6, <1>7, <1>8, <1>9

\* One open event of the list is committed.
Published(old, new, p) ==
    /\ p \in DOMAIN old /\ DOMAIN new = DOMAIN old
    /\ old[p].by # Nobody /\ new[p].by = Nobody /\ new[p].def = old[p].def
    /\ \A i \in DOMAIN old : i # p => new[i] = old[i]

\* The first version, or the next behind all that is committed.
Follows(old, p, current) ==
    LET d == old[p].def
    IN  \/ d.version = 1
        \/ /\ Visible(old) # {} /\ d.version = current.version + 1 /\ ~current.rootstock
           /\ \A j \in Visible(old) : j < p

\* Versions that follow each other begin with the first.
LEMMA FirstIsThere ==
    ASSUME NEW old \in Seq(Event), Visible(old) # {},
           \A i, j \in Visible(old) : i < j => old[i].def.version < old[j].def.version,
           \A i \in Visible(old) : \/ old[i].def.version = 1
                                   \/ \E j \in Visible(old) :
                                         old[j].def.version = old[i].def.version - 1
    PROVE  \E i \in Visible(old) : old[i].def.version = 1
  <1>1. PICK i \in Visible(old) : \A j \in Visible(old) : i <= j
    BY EventFacts, LeastExists
  <1>2. ASSUME NEW j \in Visible(old), old[j].def.version = old[i].def.version - 1
        PROVE  FALSE
    BY <1>1, <1>2, EventFacts
  <1> QED
    BY <1>2

\* A linear history stays one when such an event is committed and becomes the row.
LEMMA LinearPublished ==
    ASSUME NEW old \in Seq(Event), NEW new \in Seq(Event), NEW p, Published(old, new, p),
           NEW current, Linear(old, current), Follows(old, p, current)
    PROVE  Linear(new, old[p].def)
  <1> DEFINE from == Visible(old)
             at == Visible(new)
             d == old[p].def
             V(i) == new[i].def.version
             U(i) == old[i].def.version
  <1>1. /\ at = from \union {p} /\ p \notin from
        /\ \A i \in from : new[i] = old[i]
        /\ new[p].def = d
    BY DEF Published, Visible
  <1>2. /\ \A i \in from : i \in Nat /\ U(i) \in Nat
        /\ p \in Nat /\ d.version \in Nat
    BY EventFacts, RegistryAssumption DEF Published, Event
  <1> SUFFICES ASSUME \A i, j \in at : V(i) = 1 /\ V(j) = 1 => i = j
               PROVE  /\ \A i, j \in at : i < j => V(i) < V(j)
                      /\ \A i \in at : V(i) = 1 \/ \E j \in at : V(j) = V(i) - 1
                      /\ \A i, j \in at : new[i].def.rootstock => j <= i
                      /\ IF at = {} THEN d = NoRow
                         ELSE \E i \in at : (\A j \in at : j <= i) /\ d = new[i].def
    BY DEF Linear
  <1>3. \A i, j \in from : U(i) = 1 /\ U(j) = 1 => i = j
    BY <1>1
  <1>4. /\ \A i, j \in from : i < j => U(i) < U(j)
        /\ \A i \in from : U(i) = 1 \/ \E j \in from : U(j) = U(i) - 1
        /\ \A i, j \in from : old[i].def.rootstock => j <= i
        /\ IF from = {} THEN current = NoRow
           ELSE \E i \in from : (\A j \in from : j <= i) /\ current = old[i].def
    BY <1>3 DEF Linear
  <1>5. from # {} => \E i \in from : U(i) = 1
    BY <1>4, FirstIsThere
  <1>6. CASE from = {}
    <2>1. at = {p} /\ V(p) = 1
      BY <1>1, <1>6 DEF Follows
    <2> QED
      BY <1>1, <1>2, <2>1
  <1>7. CASE from # {} /\ d.version = 1
    BY <1>1, <1>5, <1>7
  <1>8. CASE from # {} /\ d.version # 1
    <2>1. d.version = current.version + 1 /\ ~current.rootstock /\ \A j \in from : j < p
      BY <1>8 DEF Follows
    <2>2. PICK m \in from : (\A j \in from : j <= m) /\ current = old[m].def
      BY <1>4, <1>8
    <2> HIDE DEF from, at, d
    <2>3. \A i \in from : U(i) <= U(m) /\ V(i) = U(i)
      BY <1>1, <1>2, <1>4, <2>2, SMTT(60)
    <2>4. V(p) = U(m) + 1
      BY <1>1, <2>1, <2>2
    <2>5. \A i, j \in at : i < j => V(i) < V(j)
      <3> SUFFICES ASSUME NEW i \in at, NEW j \in at, i < j PROVE V(i) < V(j)
        OBVIOUS
      <3>1. CASE i \in from /\ j \in from
        BY <1>4, <2>3, <3>1
      <3>2. CASE i \in from /\ j = p
        <4>1. V(i) = U(i) /\ U(i) <= U(m) /\ U(i) \in Nat /\ U(m) \in Nat
          BY <1>2, <2>2, <2>3, <3>2
        <4>2. V(j) = U(m) + 1
          BY <2>4, <3>2
        <4> HIDE DEF U, V
        <4> QED
          BY <4>1, <4>2
      <3>3. CASE i = p /\ j \in from
        <4>1. p \in Nat /\ j \in Nat /\ j < p /\ p < j
          BY <1>2, <2>1, <3>3
        <4> QED
          BY <4>1
      <3>4. CASE i = p /\ j = p
        BY <1>2, <3>4
      <3> QED
        BY <1>1, <3>1, <3>2, <3>3, <3>4
    <2>6. \A i \in at : V(i) = 1 \/ \E j \in at : V(j) = V(i) - 1
      <3>1. V(m) = V(p) - 1 /\ m \in at
        BY <1>1, <1>2, <2>2, <2>3, <2>4
      <3>2. \A i \in from : V(i) = 1 \/ \E j \in at : V(j) = V(i) - 1
        BY <1>1, <1>4, <2>3
      <3> QED
        BY <1>1, <3>1, <3>2
    <2>7. \A i, j \in at : new[i].def.rootstock => j <= i
      <3>1. \A i \in from : ~new[i].def.rootstock
        <4> SUFFICES ASSUME NEW i \in from, old[i].def.rootstock PROVE FALSE
          BY <1>1
        <4>1. m <= i /\ i <= m
          BY <1>4, <2>2
        <4> QED
          BY <1>2, <2>1, <2>2, <4>1
      <3> QED
        BY <1>1, <1>2, <2>1, <3>1
    <2>8. p \in at /\ (\A j \in at : j <= p) /\ d = new[p].def
      BY <1>1, <1>2, <2>1
    <2> QED
      BY <2>5, <2>6, <2>7, <2>8
  <1> QED
    BY <1>6, <1>7, <1>8

\* A list without an open event.
LEMMA WithoutIs ==
    ASSUME NEW old \in Seq(Event), NEW p \in DOMAIN old
    PROVE  /\ Without(old, p) \in Seq(Event) /\ DOMAIN Without(old, p) = 1..Len(old) - 1
           /\ \A i \in 1..Len(old) - 1 :
                 Without(old, p)[i] = IF i < p THEN old[i] ELSE old[i + 1]
  <1>1. Len(old) \in Nat /\ DOMAIN old = 1..Len(old) /\ Len(old) - 1 \in Nat
    BY EventFacts
  <1>2. \A i \in 1..Len(old) - 1 : i \in DOMAIN old /\ i + 1 \in DOMAIN old
    BY <1>1
  <1>3. \A i \in 1..Len(old) - 1 : old[i] \in Event /\ old[i + 1] \in Event
    BY <1>2, EventFacts
  <1> QED
    BY <1>1, <1>3 DEF Without

\* It has the same committed events, and the others but that one.
LEMMA WithoutSame ==
    ASSUME NEW old \in Seq(Event), NEW p \in DOMAIN old, old[p].by # Nobody
    PROVE  LET new == Without(old, p)
           IN  /\ \E t : Same(old, new, t)
               /\ \A i \in DOMAIN old : i # p => \E j \in DOMAIN new : new[j] = old[i]
               /\ \A j \in DOMAIN new : \E i \in DOMAIN old : i # p /\ new[j] = old[i]
               /\ Distinct(old) => Distinct(new)
               /\ \A v : Behind(old, v) => Behind(new, v)
  <1> DEFINE new == Without(old, p)
             T(i) == IF i < p THEN i ELSE i + 1
             S(i) == IF i < p THEN i ELSE i - 1
             t == [i \in Visible(new) |-> T(i)]
  <1>1. /\ new \in Seq(Event) /\ DOMAIN new = 1..Len(old) - 1
        /\ \A i \in 1..Len(old) - 1 : new[i] = IF i < p THEN old[i] ELSE old[i + 1]
    BY WithoutIs
  <1>2. Len(old) \in Nat /\ DOMAIN old = 1..Len(old) /\ p \in 1..Len(old)
    BY EventFacts
  <1> HIDE DEF new
  <1>3. \A i \in DOMAIN new : i \in Nat /\ T(i) \in DOMAIN old /\ T(i) # p /\ new[i] = old[T(i)]
    BY <1>1, <1>2
  <1>4. \A i, j \in DOMAIN new : (T(i) = T(j) => i = j) /\ (i < j <=> T(i) < T(j))
    BY <1>1, <1>2
  <1>5. \A i \in DOMAIN old : i # p => S(i) \in DOMAIN new /\ T(S(i)) = i
    BY <1>1, <1>2
  <1> HIDE DEF T, S
  <1>6. \A i \in DOMAIN new : i \in Visible(new) <=> T(i) \in Visible(old)
    BY <1>3 DEF Visible
  <1>7. Visible(old) \subseteq DOMAIN old \ {p} /\ Visible(new) \subseteq DOMAIN new
    BY DEF Visible
  <1>8. Same(old, new, t)
    <2>1. t \in [Visible(new) -> Visible(old)]
      BY <1>6, <1>7
    <2>2. \A i, j \in Visible(new) : i < j => t[i] < t[j]
      BY <1>4, <1>7
    <2>3. \A i \in Visible(new) : new[i].def = old[t[i]].def
      BY <1>3, <1>7
    <2>4. \A i \in Visible(old) : \E j \in Visible(new) : t[j] = i
      <3> SUFFICES ASSUME NEW i \in Visible(old) PROVE \E j \in Visible(new) : t[j] = i
        OBVIOUS
      <3>1. S(i) \in DOMAIN new /\ T(S(i)) = i
        BY <1>5, <1>7
      <3>2. S(i) \in Visible(new)
        BY <1>6, <3>1
      <3> QED
        BY <3>1, <3>2
    <2> HIDE DEF t
    <2> QED
      BY <2>1, <2>2, <2>3, <2>4 DEF Same
  <1>9. \A i \in DOMAIN old : i # p => \E j \in DOMAIN new : new[j] = old[i]
    BY <1>3, <1>5
  <1>10. \A j \in DOMAIN new : \E i \in DOMAIN old : i # p /\ new[j] = old[i]
    BY <1>3
  <1>11. Distinct(old) => Distinct(new)
    BY <1>3, <1>4 DEF Distinct
  <1>12. \A v : Behind(old, v) => Behind(new, v)
    <2> SUFFICES ASSUME NEW v, Behind(old, v), NEW i \in DOMAIN new, NEW j \in Visible(new),
                        new[i].by = v
                 PROVE  j < i
      BY DEF Behind
    <2>1. T(i) \in DOMAIN old /\ T(j) \in Visible(old) /\ old[T(i)].by = v /\ j \in DOMAIN new
      BY <1>3, <1>6, <1>7
    <2>2. T(j) < T(i)
      BY <2>1 DEF Behind
    <2> QED
      BY <1>4, <2>1, <2>2
  <1> HIDE DEF t
  <1> QED
    BY <1>8, <1>9, <1>10, <1>11, <1>12 DEF new

-----------------------------------------------------------------------------
(* What stays in the log                                                   *)

\* What the invariant says of one log.
LEMMA LogFacts ==
    ASSUME RegistryInv, NEW n \in Names
    PROVE  /\ log[n] \in Seq(Event) /\ DOMAIN log[n] = 1..Len(log[n]) /\ Len(log[n]) \in Nat
           /\ \A i \in DOMAIN log[n] : i \in Nat /\ log[n][i] \in Event /\ EventOK(n, log[n][i])
           /\ Distinct(log[n])
  <1>1. log[n] \in Seq(Event)
    BY DEF RegistryInv, ShapesOK
  <1> QED
    BY <1>1, EventFacts DEF RegistryInv, LogOK

\* A request holds one event at most, and only while it is Holding.
LEMMA HeldOnce ==
    ASSUME RegistryInv, NEW w \in Writers, NEW n \in Names, NEW i \in DOMAIN log[n],
           log[n][i].by = w
    PROVE  /\ Holding(w) /\ n = writer[w].def.name /\ log[n][i].def = writer[w].def
           /\ \A j \in DOMAIN log[n] : log[n][j].by = w => j = i
  <1>1. w # Nobody
    BY RegistryAssumption
  <1>2. EventOK(n, log[n][i]) /\ \A j \in DOMAIN log[n] : EventOK(n, log[n][j])
    BY LogFacts
  <1>3. \A j \in DOMAIN log[n] : log[n][j].by = w => log[n][j].def = writer[w].def
    BY <1>1, <1>2 DEF EventOK
  <1> QED
    BY <1>1, <1>2, <1>3, LogFacts DEF EventOK, Distinct

\* Committed events stay, with or without the row.
Stays ==
    /\ \A d \in Definitions : definitionEventExists(d) => definitionEventExists(d)'
    /\ \A t : t.name \in Names /\ tropismVersionExists(t) => tropismVersionExists(t)'
SameLog == \A n \in Names : log'[n] \in Seq(Event) /\ \E t : Same(log[n], log'[n], t)
Resolved == \A n \in Cultivars : \A i \in Committed(n) : tropismVersionExists(log[n][i].def.tropism)

\* Nothing that is looked up in the log changes with it.
LEMMA SameLogStays ==
    ASSUME RegistryInv, SameLog
    PROVE  /\ \A d : d.name \in Names => (definitionEventExists(d) <=> definitionEventExists(d)')
           /\ \A t : t.name \in Names => (tropismVersionExists(t) <=> tropismVersionExists(t)')
           /\ \A n \in Names : Committed(n) = {} <=> Committed(n)' = {}
  <1>1. ASSUME NEW n \in Names
        PROVE  /\ \A i \in Committed(n) : \E j \in Committed(n)' : log'[n][j].def = log[n][i].def
               /\ \A j \in Committed(n)' : \E i \in Committed(n) : log'[n][j].def = log[n][i].def
    <2>1. PICK t : Same(log[n], log'[n], t)
      BY DEF SameLog
    <2> QED
      BY <2>1 DEF Same, Committed
  <1>2. ASSUME NEW d, d.name \in Names
        PROVE  definitionEventExists(d) <=> definitionEventExists(d)'
    BY <1>1, <1>2 DEF definitionEventExists
  <1>3. ASSUME NEW t, t.name \in Names
        PROVE  tropismVersionExists(t) <=> tropismVersionExists(t)'
    BY <1>1, <1>3 DEF tropismVersionExists
  <1> QED
    BY <1>1, <1>2, <1>3

\* Then the rows fit as before.
LEMMA SameLogKeeps ==
    ASSUME RegistryInv, SameLog, UNCHANGED row
    PROVE  Stays /\ RowsOK' /\ HistoryIsLinear' /\ Resolved'
  <1>1. Stays
    BY SameLogStays, RegistryAssumption DEF Stays
  <1>2. RowsOK'
    BY SameLogStays DEF RegistryInv, RowsOK
  <1>3. HistoryIsLinear'
    <2> SUFFICES ASSUME NEW n \in Names PROVE Linear(log'[n], row[n])
      BY DEF HistoryIsLinear, Linear, NoRow
    <2>1. PICK t : Same(log[n], log'[n], t)
      BY DEF SameLog
    <2>2. log[n] \in Seq(Event) /\ log'[n] \in Seq(Event) /\ Linear(log[n], row[n])
      BY LogFacts DEF SameLog, RegistryInv, HistoryIsLinear
    <2> QED
      BY <2>1, <2>2, LinearTransfers
  <1>4. Resolved'
    <2> SUFFICES ASSUME NEW n \in Cultivars, NEW j \in Committed(n)',
                        NEW d, d = log'[n][j].def
                 PROVE  tropismVersionExists(d.tropism)'
      BY DEF Resolved, tropismVersionExists, Committed
    <2>1. n \in Names
      BY DEF Names
    <2>2. PICK t : Same(log[n], log'[n], t)
      BY <2>1 DEF SameLog
    <2>3. t[j] \in Committed(n) /\ d = log[n][t[j]].def
      BY <2>2 DEF Same, Committed
    <2>4. tropismVersionExists(d.tropism)
      BY <2>3 DEF RegistryInv, GrantedIsDefined
    <2>5. d.tropism.name \in Names
      <3>1. log[n][t[j]] \in Event /\ log[n][t[j]].def.name = n
        BY <2>1, <2>3, LogFacts, EventFacts DEF Committed, EventOK
      <3> QED
        BY <2>3, <3>1, RegistryAssumption DEF Event, Names
    <2> QED
      BY <2>4, <2>5, SameLogStays
  <1> QED
    BY <1>1, <1>2, <1>3, <1>4

-----------------------------------------------------------------------------
(* The requests beside the one that moves                                  *)

\* What a step leaves to a request v: its events, its locks and what it is to follow.
Undisturbed(v) ==
    /\ writer'[v] = writer[v]
    /\ \A n \in Names :
          /\ \A i \in DOMAIN log[n] : log[n][i].by = v => \E j \in DOMAIN log'[n] : log'[n][j] = log[n][i]
          /\ lock[n] = v => lock'[n] = v /\ row'[n] = row[n] /\ (Behind(log[n], v) => Behind(log'[n], v))

\* What a request defines has a name.
LEMMA DefIsNamed ==
    ASSUME RegistryInv, NEW w \in Writers, ~At(w, "idle")
    PROVE  /\ writer[w].def \in Definitions /\ writer[w].def.name \in Names
           /\ writer[w].def.name \in Cultivars => writer[w].def.tropism.name \in Names
  BY RegistryAssumption DEF RegistryInv, ShapesOK, Names

\* Then its part of the invariant stays.
LEMMA OtherStays ==
    ASSUME RegistryInv, NEW v \in Writers, Stays, Undisturbed(v)
    PROVE  WriterOK(v)'
  <1>d. PICK d : d = writer[v].def
    OBVIOUS
  <1> DEFINE n == d.name
  <1>0. /\ writer'[v] = writer[v] /\ WriterOK(v)
        /\ \A p : At(v, p)' <=> At(v, p)
        /\ (Holding(v)' <=> Holding(v)) /\ (Defining(v)' <=> Defining(v))
    BY DEF Undisturbed, RegistryInv, Holding, Defining, At
  <1>1. CASE At(v, "idle") \/ At(v, "evaluate") \/ At(v, "separate") \/ At(v, "read")
    BY <1>0, <1>1, SMTT(60) DEF WriterOK, Holding, Defining, At
  <1>2. CASE At(v, "insert") \/ At(v, "project") \/ At(v, "commit")
    <2>1. /\ ~At(v, "idle") /\ d \in Definitions /\ n \in Names
          /\ n \in Cultivars => d.tropism.name \in Names
      BY <1>d, <1>2, DefIsNamed DEF At
    <2>2. writer[v].fresh => At(v, "commit") /\ lock'[n] = v
      BY <1>d, <1>0, <2>1 DEF WriterOK, Undisturbed
    <2>3. Holding(v) => \E i \in DOMAIN log'[n] : log'[n][i] = [def |-> d, by |-> v]
      <3> SUFFICES ASSUME Holding(v)
                   PROVE  \E i \in DOMAIN log'[n] : log'[n][i] = [def |-> d, by |-> v]
        OBVIOUS
      <3>1. PICK i \in DOMAIN log[n] : log[n][i] = [def |-> d, by |-> v]
        BY <1>d, <1>0 DEF WriterOK
      <3>2. log[n][i].by = v
        BY <3>1
      <3> QED
        BY <2>1, <3>1, <3>2 DEF Undisturbed
    <2>4. Defining(v) => /\ Normal(d) /\ (n \in Cultivars => tropismVersionExists(d.tropism)')
                         /\ definitionEventExists(d)' \/ d.version = 1 \/ Successor(v)'
      <3> SUFFICES ASSUME Defining(v)
                   PROVE  /\ Normal(d) /\ (n \in Cultivars => tropismVersionExists(d.tropism)')
                          /\ definitionEventExists(d)' \/ d.version = 1 \/ Successor(v)'
        OBVIOUS
      <3>1. /\ Normal(d) /\ (n \in Cultivars => tropismVersionExists(d.tropism))
            /\ definitionEventExists(d) \/ d.version = 1 \/ Successor(v)
        BY <1>d, <1>0 DEF WriterOK
      <3>2. n \in Cultivars => tropismVersionExists(d.tropism)'
        BY <2>1, <3>1 DEF Stays
      <3>3. definitionEventExists(d) => definitionEventExists(d)'
        BY <2>1 DEF Stays
      <3>4. Successor(v) => Successor(v)'
        BY <1>d, <1>0, <2>1 DEF Successor, Undisturbed
      <3> QED
        BY <3>1, <3>2, <3>3, <3>4
    <2>5. At(v, "commit") /\ ~writer[v].fresh /\ writer[v].decision = "grant" =>
              definitionEventExists(d)'
      BY <1>d, <1>0, <2>1 DEF WriterOK, Stays
    <2> QED
      BY <1>d, <1>0, <2>2, <2>3, <2>4, <2>5 DEF WriterOK, definitionEventExists, tropismVersionExists, Committed
  <1> QED
    BY <1>0, <1>1, <1>2 DEF RegistryInv, ShapesOK, WriterState, Phase, At

-----------------------------------------------------------------------------
(* Steps that leave the log and the rows                                   *)

\* The log as it is.
LEMMA LogStays ==
    ASSUME RegistryInv, UNCHANGED log
    PROVE  SameLog
  <1> SUFFICES ASSUME NEW n \in Names
               PROVE  log'[n] \in Seq(Event) /\ \E t : Same(log[n], log'[n], t)
    BY DEF SameLog
  <1>1. Same(log[n], log[n], [i \in Visible(log[n]) |-> i])
    BY DEF Same
  <1> QED
    BY <1>1, LogFacts

\* What was granted stays so.
LEMMA GrantedStays ==
    ASSUME RegistryInv, Stays, Resolved', UNCHANGED <<outcomes, approvers>>
    PROVE  GrantedIsDefined'
  <1>1. ASSUME NEW a \in Activations, NEW o \in outcomes[a], o.decision = "grant"
        PROVE  definitionEventExists(o.def)' /\ ~o.def.rootstock /\ approvers \ {Proposer[a]} # {}
    <2>1. o.def \in Definitions
      BY <1>1 DEF RegistryInv, ShapesOK, Outcome
    <2> QED
      BY <1>1, <2>1 DEF RegistryInv, GrantedIsDefined, Stays
  <1> QED
    BY <1>1 DEF GrantedIsDefined, Resolved, definitionEventExists

\* One request moves on, without an event: it holds what it held.
Moved(w, new) ==
    /\ new \in WriterState /\ (new.phase # "idle" => new.def \in Definitions)
    /\ writer' = [writer EXCEPT ![w] = new]
    /\ (new.phase = "project" \/ (new.phase = "commit" /\ new.fresh)) <=> Holding(w)
    /\ Holding(w) => new.def = writer[w].def
    /\ lock' \in [Names -> Writers \union {Nobody}]
    /\ \A n \in Names, v \in Writers : v # w /\ lock[n] = v => lock'[n] = v

\* Such a step keeps all but what is about the request and the seed.
LEMMA Moves ==
    ASSUME RegistryInv, NEW w \in Writers, NEW new, Moved(w, new),
           UNCHANGED <<log, row, seed, outcomes, approver, approvers>>,
           WriterOK(w)', ActivationOK(w)', SeedOK'
    PROVE  RegistryInv'
  <1>1. Stays /\ RowsOK' /\ HistoryIsLinear' /\ Resolved'
    BY LogStays, SameLogKeeps
  <1>2. GrantedIsDefined'
    BY <1>1, GrantedStays
  <1>3. writer \in [Writers -> WriterState]
    BY DEF RegistryInv, ShapesOK
  <1>4. writer'[w] = new /\ \A v \in Writers : v # w => writer'[v] = writer[v]
    BY <1>3 DEF Moved
  <1>5. ShapesOK'
    BY <1>3, <1>4 DEF RegistryInv, ShapesOK, Moved, At
  <1>6. \A v \in Writers : (Holding(v)' <=> Holding(v)) /\ (Holding(v) => writer'[v].def = writer[v].def)
    BY <1>4 DEF Moved, Holding, At
  <1>7. LogOK'
    <2> SUFFICES ASSUME NEW n \in Names, NEW i \in DOMAIN log[n]
                 PROVE  EventOK(n, log[n][i])'
      BY LogFacts DEF LogOK, Distinct, EventOK
    <2>1. EventOK(n, log[n][i]) /\ log[n][i].by \in Writers \union {Nobody}
      BY LogFacts DEF Event
    <2> QED
      BY <1>6, <2>1 DEF EventOK
  <1>8. ASSUME NEW v \in Writers, v # w
        PROVE  WriterOK(v)' /\ ActivationOK(v)'
    <2>1. Undisturbed(v)
      BY <1>4, <1>8 DEF Undisturbed, Moved
    <2>2. WriterOK(v)'
      BY <1>1, <2>1, OtherStays
    <2>3. ActivationOK(v)'
      BY <1>4, <1>8 DEF RegistryInv, ActivationOK, At
    <2> QED
      BY <2>2, <2>3
  <1>9. \A v \in Writers : WriterOK(v)' /\ ActivationOK(v)'
    BY <1>8
  <1>10. (approver # Nobody => approver \in approvers)'
    BY DEF RegistryInv
  <1> QED
    BY <1>1, <1>2, <1>5, <1>7, <1>9, <1>10 DEF RegistryInv

\* A request that is not of the seed, or goes on with what the seed defines.
LEMMA SeedStays ==
    ASSUME RegistryInv, NEW w \in Writers, NEW new, Stays, UNCHANGED seed,
           writer' = [writer EXCEPT ![w] = new],
           new.via = Seeding /\ new.phase # "idle" => OfSeed(w) /\ new.def = writer[w].def
    PROVE  SeedOK'
  <1>1. writer \in [Writers -> WriterState]
    BY DEF RegistryInv, ShapesOK
  <1>2. writer'[w] = new /\ \A v \in Writers : v # w => writer'[v] = writer[v]
    BY <1>1
  <1>3. \A v \in Writers : OfSeed(v)' => OfSeed(v) /\ writer'[v].def = writer[v].def
    BY <1>2 DEF OfSeed, At
  <1>4. \A k \in 1..Len(SeedOrder) : SeedOrder[k] \in Definitions
    BY RegistryAssumption
  <1>5. \A k \in 1..Len(SeedOrder) : seed.done \/ k < seed.next => definitionEventExists(SeedOrder[k])'
    BY <1>4 DEF RegistryInv, SeedOK, Stays
  <1>6. \A v \in Writers : OfSeed(v)' =>
            /\ seed.next > 0 /\ writer'[v].def = SeedOrder[seed.next]
            /\ \A u \in Writers : OfSeed(u)' => u = v
    BY <1>3 DEF RegistryInv, SeedOK
  <1> QED
    BY <1>5, <1>6 DEF SeedOK, definitionEventExists

\* No row, no event: what is committed stays.
LEMMA QuietStays ==
    ASSUME RegistryInv, UNCHANGED <<log, row>>
    PROVE  Stays
  BY LogStays, SameLogKeeps

\* What the invariant says of one request.
LEMMA WriterFacts ==
    ASSUME RegistryInv, NEW w \in Writers
    PROVE  /\ writer \in [Writers -> WriterState] /\ writer[w] \in WriterState
           /\ WriterOK(w) /\ ActivationOK(w)
           /\ lock \in [Names -> Writers \union {Nobody}]
  BY DEF RegistryInv, ShapesOK

\* A request begins.
LEMMA StartStep ==
    ASSUME RegistryInv, NEW w \in Writers, NEW d \in Definitions,
           NEW via \in Activations \union {Direct, Seeding}, NEW phase \in {"read", "evaluate"},
           phase = "evaluate" <=> via \in Activations,
           Start(w, d, via, phase), UNCHANGED <<log, row, lock, seed, proposal, activation>>,
           via = Seeding => seed.next > 0 /\ d = SeedOrder[seed.next]
                            /\ \A v \in Writers : At(v, "idle") \/ writer[v].via # Seeding
    PROVE  RegistryInv'
  <1> DEFINE new == [Idle EXCEPT !.phase = phase, !.def = d, !.via = via]
  <1>1. /\ writer' = [writer EXCEPT ![w] = new] /\ At(w, "idle")
        /\ UNCHANGED <<log, row, lock, seed, approver, approvers, outcomes>>
    BY DEF Start, proposal, activation
  <1>2. /\ new \in WriterState /\ new.phase = phase /\ new.def = d /\ new.via = via
        /\ new.fresh = FALSE /\ new.decision = "grant"
    BY DEF Idle, WriterState, Phase, Decisions, NoRow
  <1> HIDE DEF new
  <1>3. ~Holding(w)
    BY <1>1 DEF Holding, At
  <1>4. Moved(w, new)
    BY <1>1, <1>2, <1>3, WriterFacts DEF Moved
  <1>5. writer'[w] = new /\ \A v \in Writers : v # w => writer'[v] = writer[v]
    BY <1>1, WriterFacts
  <1>6. WriterOK(w)' /\ ActivationOK(w)'
    BY <1>2, <1>5 DEF WriterOK, ActivationOK, Holding, Defining, At
  <1>7. SeedOK'
    <2>1. CASE via # Seeding
      BY <1>1, <1>2, <2>1, QuietStays, SeedStays
    <2>2. CASE via = Seeding
      <3>1. \A v \in Writers : OfSeed(v)' => v = w
        BY <1>5, <2>2 DEF OfSeed, At
      <3> QED
        BY <1>1, <1>2, <1>5, <2>2, <3>1 DEF RegistryInv, SeedOK, definitionEventExists, Committed
    <2> QED
      BY <2>1, <2>2
  <1> QED
    BY <1>1, <1>4, <1>6, <1>7, Moves

\* The checks: what is admitted is on record, a first version, or follows the row that is
\* now locked.
LEMMA AdmitStep ==
    ASSUME RegistryInv, NEW w \in Writers, Admit(w)
    PROVE  RegistryInv'
  <1> DEFINE new == [writer[w] EXCEPT !.phase = "insert"]
  <1>0. PICK d : d = writer[w].def
    OBVIOUS
  <1> DEFINE n == d.name
  <1>1. /\ At(w, "read") /\ Admitted(d) /\ ForUpdate(w, n)
        /\ writer' = [writer EXCEPT ![w].phase = "insert"]
        /\ UNCHANGED <<log, row, seed, approver, approvers, outcomes>>
    BY <1>0 DEF Admit, Go, proposal, activation
  <1>2. writer' = [writer EXCEPT ![w] = new]
    BY <1>1, WriterFacts
  <1>3. /\ new \in WriterState /\ new.phase = "insert" /\ new.def = d /\ new.via = writer[w].via
        /\ new.fresh = writer[w].fresh /\ new.decision = writer[w].decision
    BY <1>0, WriterFacts DEF WriterState, Phase
  <1> HIDE DEF new
  <1>4. ~Holding(w) /\ ~writer[w].fresh /\ ~At(w, "idle")
    BY <1>1, WriterFacts DEF Holding, At, WriterOK
  <1>5. d \in Definitions /\ n \in Names
    BY <1>0, <1>4, DefIsNamed
  <1>6. \/ row[n] = NoRow /\ lock' = lock
        \/ row[n] # NoRow /\ lock[n] = Nobody /\ lock' = [lock EXCEPT ![n] = w]
    BY <1>1 DEF ForUpdate
  <1>7. Moved(w, new)
    <2>1. \A m \in Names, v \in Writers : v # w /\ lock[m] = v => lock'[m] = v
      BY <1>5, <1>6, WriterFacts, RegistryAssumption
    <2>2. lock' \in [Names -> Writers \union {Nobody}]
      BY <1>5, <1>6, WriterFacts
    <2> QED
      BY <1>2, <1>3, <1>4, <1>5, <2>1, <2>2 DEF Moved
  <1>8. writer'[w] = new
    BY <1>2, WriterFacts
  <1>9. /\ Normal(d) /\ (n \in Cultivars => tropismVersionExists(d.tropism))
        /\ row[n] = NoRow => d.version = 1
        /\ row[n] # NoRow => \/ d = row[n] \/ definitionEventExists(d)
                             \/ d.version = row[n].version + 1 /\ ~row[n].rootstock
    <2>1. row[n] # NoRow => row[n] \in Definitions /\ row[n].name = n
      BY <1>5 DEF RegistryInv, ShapesOK, RowsOK
    <2>2. row[n] # NoRow /\ n \in Tropisms => ~row[n].rootstock
      BY <2>1, RegistryAssumption
    <2>3. CASE n \in Tropisms /\ DefineTropism(d)
      <3>1. n \notin Cultivars
        BY <2>3, RegistryAssumption
      <3> QED
        BY <2>2, <2>3, <3>1 DEF DefineTropism, normalizeTropismInput, Normal
    <2>4. CASE n \in Cultivars /\ DefineCultivarInTx(d)
      BY <2>4 DEF DefineCultivarInTx, normalizeCultivarInput, Normal
    <2>5. CASE n \in Projections /\ DefineProjection(d)
      <3>1. n \notin Cultivars
        BY <2>5, RegistryAssumption
      <3> QED
        BY <2>5, <3>1 DEF DefineProjection, normalizeInput, Normal
    <2> QED
      BY <1>1, <2>3, <2>4, <2>5 DEF Admitted
  <1>10. row[n] # NoRow /\ d = row[n] => definitionEventExists(d)
    BY <1>5 DEF RegistryInv, RowsOK
  <1>11. row[n] # NoRow => lock'[n] = w
    BY <1>5, <1>6, WriterFacts
  <1>12. Behind(log[n], w)
    BY <1>4, <1>5, HeldOnce DEF Behind
  <1>13. WriterOK(w)'
    <2>1. /\ Normal(d) /\ (n \in Cultivars => tropismVersionExists(d.tropism)')
      BY <1>1, <1>9 DEF tropismVersionExists, Committed
    <2>2. definitionEventExists(d) => definitionEventExists(d)'
      BY <1>1 DEF definitionEventExists, Committed
    <2>3. row[n] # NoRow /\ d.version = row[n].version + 1 /\ ~row[n].rootstock => Successor(w)'
      BY <1>1, <1>3, <1>8, <1>11, <1>12 DEF Successor
    <2>4. definitionEventExists(d)' \/ d.version = 1 \/ Successor(w)'
      BY <1>9, <1>10, <2>2, <2>3
    <2>5. At(w, "insert")' /\ ~Holding(w)' /\ ~At(w, "commit")' /\ writer'[w].fresh = FALSE
      BY <1>3, <1>4, <1>8, WriterFacts DEF At, Holding, WriterState
    <2> QED
      BY <1>3, <1>8, <2>1, <2>4, <2>5 DEF WriterOK, definitionEventExists, tropismVersionExists, Committed
  <1>14. ActivationOK(w)'
    BY <1>1, <1>3, <1>8, WriterFacts DEF ActivationOK, At
  <1>15. SeedOK'
    BY <1>0, <1>1, <1>2, <1>3, <1>4, QuietStays, SeedStays DEF OfSeed
  <1> QED
    BY <1>1, <1>7, <1>13, <1>14, <1>15, Moves

\* A request goes on to phase with decision, without an event of its own.
LEMMA GoesOn ==
    ASSUME RegistryInv, NEW w \in Writers, NEW new \in WriterState,
           writer' = [writer EXCEPT ![w] = new], ~At(w, "idle"), ~Holding(w), ~writer[w].fresh,
           new.def = writer[w].def, new.via = writer[w].via, new.fresh = writer[w].fresh,
           new.phase \in {"separate", "read", "commit"},
           new.phase = "commit" /\ new.decision = "grant" => definitionEventExists(writer[w].def),
           UNCHANGED <<log, row, lock, seed, approver, approvers, outcomes>>, ActivationOK(w)'
    PROVE  RegistryInv'
  <1>1. writer[w].def \in Definitions
    BY DefIsNamed
  <1>2. Moved(w, new)
    BY <1>1, WriterFacts DEF Moved, WriterState
  <1>3. writer'[w] = new
    BY WriterFacts
  <1>4. WriterOK(w)'
    <2>1. /\ ~Holding(w)' /\ ~Defining(w)' /\ ~writer'[w].fresh
          /\ At(w, "commit")' => new.phase = "commit"
      BY <1>3 DEF Holding, Defining, At
    <2> QED
      BY <1>3, <2>1 DEF WriterOK, definitionEventExists, Committed
  <1>5. SeedOK'
    BY QuietStays, SeedStays DEF OfSeed
  <1> QED
    BY <1>2, <1>4, <1>5, Moves

\* The event is on record.
LEMMA KnownStep ==
    ASSUME RegistryInv, NEW w \in Writers, At(w, "insert"), definitionEventExists(writer[w].def),
           Go(w, "commit"), UNCHANGED <<log, row, lock, seed, proposal, activation>>
    PROVE  RegistryInv'
  <1> DEFINE new == [writer[w] EXCEPT !.phase = "commit"]
  <1>1. writer' = [writer EXCEPT ![w] = new]
    BY WriterFacts DEF Go
  <1>2. /\ new \in WriterState /\ new.phase = "commit" /\ new.def = writer[w].def
        /\ new.via = writer[w].via /\ new.fresh = writer[w].fresh
        /\ new.decision = writer[w].decision
    BY WriterFacts DEF WriterState, Phase
  <1> HIDE DEF new
  <1>3. ~Holding(w) /\ ~writer[w].fresh /\ ~At(w, "idle")
    BY WriterFacts DEF Holding, At, WriterOK
  <1>4. writer'[w] = new
    BY <1>1, WriterFacts
  <1>5. UNCHANGED <<approver, approvers, outcomes>>
    BY DEF proposal, activation
  <1>6. ActivationOK(w)'
    BY <1>2, <1>4, <1>5, WriterFacts DEF ActivationOK, At
  <1> QED
    BY <1>1, <1>2, <1>3, <1>5, <1>6, GoesOn

\* The decision about an activation.
LEMMA EvaluateStep ==
    ASSUME RegistryInv, NEW w \in Writers, NEW decision \in Decisions, Evaluate(w, decision)
    PROVE  RegistryInv'
  <1> DEFINE decided == IF writer[w].def.rootstock THEN "deny" ELSE decision
             new == [writer[w] EXCEPT !.phase = IF decided = "grant" THEN "separate" ELSE "commit",
                                      !.decision = decided]
  <1>1. writer' = [writer EXCEPT ![w] = new]
    BY WriterFacts DEF Evaluate, WriterState
  <1>2. /\ new \in WriterState /\ new.phase \in {"separate", "commit"} /\ new.def = writer[w].def
        /\ new.phase = "commit" => new.decision # "grant"
        /\ new.decision = "grant" => ~writer[w].def.rootstock
        /\ new.phase = "separate" => new.decision = "grant"
        /\ new.via = writer[w].via /\ new.fresh = writer[w].fresh
    BY WriterFacts DEF WriterState, Phase, Decisions
  <1> HIDE DEF new
  <1>3. At(w, "evaluate") /\ ~Holding(w) /\ ~writer[w].fresh /\ ~At(w, "idle")
    BY WriterFacts DEF Evaluate, Holding, At, WriterOK
  <1>4. writer'[w] = new
    BY <1>1, WriterFacts
  <1>5. UNCHANGED <<log, row, lock, seed, approver, approvers, outcomes>>
    BY DEF Evaluate, proposal, activation
  <1>6. writer[w].via \in Activations
    BY <1>3, WriterFacts DEF ActivationOK
  <1>7. ActivationOK(w)'
    BY <1>2, <1>4, <1>5, <1>6, WriterFacts DEF ActivationOK, At
  <1> QED
    BY <1>1, <1>2, <1>3, <1>5, <1>7, GoesOn

\* The approval is somebody else's, or the activation escalates.
LEMMA SeparateStep ==
    ASSUME RegistryInv, NEW w \in Writers, Separate(w)
    PROVE  RegistryInv'
  <1> DEFINE fit == approvalSeparated(writer[w].via)
             new == [writer[w] EXCEPT !.phase = IF fit THEN "read" ELSE "commit",
                                      !.decision = IF fit THEN @ ELSE "escalate"]
  <1>1. writer' = [writer EXCEPT ![w] = new]
    BY WriterFacts DEF Separate, Go, WriterState
  <1>2. /\ new \in WriterState /\ new.phase = (IF fit THEN "read" ELSE "commit")
        /\ new.def = writer[w].def /\ new.via = writer[w].via /\ new.fresh = writer[w].fresh
        /\ new.decision = IF fit THEN writer[w].decision ELSE "escalate"
    BY WriterFacts DEF WriterState, Phase, Decisions
  <1> HIDE DEF new
  <1>3. At(w, "separate") /\ ~Holding(w) /\ ~writer[w].fresh /\ ~At(w, "idle")
    BY WriterFacts DEF Separate, Holding, At, WriterOK
  <1>4. writer'[w] = new
    BY <1>1, WriterFacts
  <1>5. UNCHANGED <<log, row, lock, seed, approver, approvers, outcomes>>
    BY DEF Separate, proposal, activation
  <1>6. fit => approvers \ {Proposer[writer[w].via]} # {}
    BY DEF approvalSeparated, RegistryInv
  <1>7. ActivationOK(w)'
    BY <1>2, <1>3, <1>4, <1>5, <1>6, WriterFacts DEF ActivationOK, At
  <1> HIDE DEF fit
  <1> QED
    BY <1>1, <1>2, <1>3, <1>5, <1>7, GoesOn

\* The row is locked and written.
LEMMA ApplyStep ==
    ASSUME RegistryInv, NEW w \in Writers, Apply(w)
    PROVE  RegistryInv'
  <1> DEFINE new == [writer[w] EXCEPT !.phase = "commit", !.fresh = TRUE]
  <1>0. PICK d : d = writer[w].def
    OBVIOUS
  <1> DEFINE n == d.name
  <1>1. /\ At(w, "project") /\ lock[n] \in {Nobody, w} /\ lock' = [lock EXCEPT ![n] = w]
        /\ UNCHANGED <<log, row, seed, approver, approvers, outcomes>>
    BY <1>0 DEF Apply, proposal, activation
  <1>2. writer' = [writer EXCEPT ![w] = new]
    BY WriterFacts DEF Apply, WriterState
  <1>3. /\ new \in WriterState /\ new.phase = "commit" /\ new.def = d /\ new.via = writer[w].via
        /\ new.fresh = TRUE /\ new.decision = writer[w].decision
    BY <1>0, WriterFacts DEF WriterState, Phase
  <1> HIDE DEF new
  <1>4. Holding(w) /\ Defining(w) /\ ~At(w, "idle") /\ ~At(w, "evaluate") /\ ~At(w, "separate") /\ ~At(w, "commit")
    BY <1>1 DEF Holding, Defining, At
  <1>5. d \in Definitions /\ n \in Names
    BY <1>0, <1>4, DefIsNamed
  <1>6. /\ lock' \in [Names -> Writers \union {Nobody}] /\ lock'[n] = w
        /\ \A m \in Names, v \in Writers : v # w /\ lock[m] = v => lock'[m] = v
    BY <1>1, <1>5, WriterFacts, RegistryAssumption
  <1>7. Moved(w, new)
    BY <1>0, <1>2, <1>3, <1>4, <1>5, <1>6, SMTT(60) DEF Moved
  <1>8. writer'[w] = new
    BY <1>2, WriterFacts
  <1>9. WriterOK(w)'
    <2>1. Successor(w) => Successor(w)'
      BY <1>0, <1>1, <1>3, <1>6, <1>8 DEF Successor
    <2>2. Holding(w)' /\ At(w, "commit")' /\ writer'[w].fresh = TRUE /\ Defining(w)'
      BY <1>3, <1>8 DEF Holding, Defining, At
    <2> QED
      BY <1>0, <1>1, <1>3, <1>4, <1>6, <1>8, <2>1, <2>2, WriterFacts
      DEF WriterOK, definitionEventExists, tropismVersionExists, Committed
  <1>10. ActivationOK(w)'
    BY <1>0, <1>1, <1>3, <1>4, <1>8, WriterFacts DEF ActivationOK, At
  <1>11. SeedOK'
    BY <1>0, <1>1, <1>2, <1>3, <1>4, QuietStays, SeedStays DEF OfSeed
  <1> QED
    BY <1>1, <1>7, <1>9, <1>10, <1>11, Moves

-----------------------------------------------------------------------------
(* Steps beside the definitions                                            *)

\* The seed command starts.
LEMMA SeedStep ==
    ASSUME RegistryInv, Seed
    PROVE  RegistryInv'
  <1>1. /\ UNCHANGED <<log, row, lock, writer, approver, approvers, outcomes>>
        /\ seed.next = 0 /\ seed' = [seed EXCEPT !.next = 1, !.runs = @ + 1]
    BY DEF Seed, proposal, activation
  <1>2. /\ seed' \in [next : 0..Len(SeedOrder), done : BOOLEAN, runs : Nat]
        /\ seed'.next = 1 /\ seed'.done = seed.done
    <2>1. Len(SeedOrder) \in Nat /\ Len(SeedOrder) > 0
      BY RegistryAssumption
    <2>2. seed \in [next : 0..Len(SeedOrder), done : BOOLEAN, runs : Nat]
      BY DEF RegistryInv, ShapesOK
    <2>3. 1 \in 0..Len(SeedOrder) /\ seed.runs + 1 \in Nat
      BY <2>1, <2>2
    <2>4. /\ seed' = [next |-> 1, done |-> seed.done, runs |-> seed.runs + 1]
          /\ seed.done \in BOOLEAN
      BY <1>1, <2>2
    <2> QED
      BY <2>3, <2>4
  <1>3. ShapesOK'
    BY <1>1, <1>2 DEF RegistryInv, ShapesOK, At
  <1>4. SeedOK'
    <2>1. \A w \in Writers : ~OfSeed(w) /\ ~OfSeed(w)'
      BY <1>1 DEF RegistryInv, SeedOK, OfSeed, At
    <2>2. \A k \in 1..Len(SeedOrder) : ~(k < 1)
      BY RegistryAssumption
    <2> QED
      BY <1>1, <1>2, <2>1, <2>2 DEF RegistryInv, SeedOK, definitionEventExists, Committed
  <1>5. LogOK' /\ RowsOK' /\ HistoryIsLinear' /\ GrantedIsDefined'
    <2>1. RowsOK' /\ HistoryIsLinear' /\ Resolved' /\ Stays
      BY <1>1, LogStays, SameLogKeeps
    <2>2. GrantedIsDefined'
      BY <1>1, <2>1, GrantedStays
    <2>3. LogOK'
      BY <1>1 DEF RegistryInv, LogOK, EventOK, Holding, At
    <2> QED
      BY <2>1, <2>2, <2>3
  <1>6. \A w \in Writers : WriterOK(w)' /\ ActivationOK(w)'
    <2> SUFFICES ASSUME NEW w \in Writers PROVE WriterOK(w)' /\ ActivationOK(w)'
      OBVIOUS
    <2>1. WriterOK(w) /\ ActivationOK(w)
      BY WriterFacts
    <2>2. Undisturbed(w) /\ Stays
      BY <1>1, QuietStays DEF Undisturbed
    <2> QED
      BY <1>1, <2>1, <2>2, OtherStays DEF ActivationOK, At
  <1> QED
    BY <1>1, <1>3, <1>4, <1>5, <1>6 DEF RegistryInv

\* A review: approvals are only ever added.
LEMMA ReviewStep ==
    ASSUME RegistryInv, NEW t \in Tokens, NEW status, Review(t, status)
    PROVE  RegistryInv'
  <1>1. /\ UNCHANGED <<log, row, lock, writer, seed, outcomes>>
        /\ approvers \subseteq approvers'
        /\ approver' # Nobody => approver' \in approvers'
    BY DEF Review, activation, RegistryInv
  <1>2. ShapesOK' /\ SeedOK'
    BY <1>1 DEF RegistryInv, ShapesOK, SeedOK, OfSeed, definitionEventExists, Committed, At
  <1>3. LogOK' /\ RowsOK' /\ HistoryIsLinear'
    <2>1. RowsOK' /\ HistoryIsLinear'
      BY <1>1, LogStays, SameLogKeeps
    <2>2. LogOK'
      BY <1>1, SMTT(60) DEF RegistryInv, LogOK, EventOK, Holding, At
    <2> QED
      BY <2>1, <2>2
  <1>4. GrantedIsDefined'
    <2>1. ASSUME NEW a \in Activations, NEW o \in outcomes[a], o.decision = "grant"
          PROVE  approvers' \ {Proposer[a]} # {}
      BY <1>1, <2>1 DEF RegistryInv, GrantedIsDefined
    <2>2. Resolved' /\ Stays
      BY <1>1, LogStays, SameLogKeeps
    <2>3. ASSUME NEW a \in Activations, NEW o \in outcomes[a], o.decision = "grant"
          PROVE  definitionEventExists(o.def)' /\ ~o.def.rootstock
      <3>1. o.def \in Definitions
        BY DEF RegistryInv, ShapesOK, Outcome
      <3> QED
        BY <2>2, <2>3, <3>1 DEF RegistryInv, GrantedIsDefined, Stays
    <2> QED
      BY <1>1, <2>1, <2>2, <2>3 DEF GrantedIsDefined, Resolved, definitionEventExists
  <1>5. \A w \in Writers : WriterOK(w)' /\ ActivationOK(w)'
    <2> SUFFICES ASSUME NEW w \in Writers PROVE WriterOK(w)' /\ ActivationOK(w)'
      OBVIOUS
    <2>1. Undisturbed(w) /\ Stays
      BY <1>1, QuietStays DEF Undisturbed
    <2>2. ActivationOK(w)'
      BY <1>1, WriterFacts DEF ActivationOK, At
    <2> QED
      BY <2>1, <2>2, OtherStays
  <1> QED
    BY <1>1, <1>2, <1>3, <1>4, <1>5 DEF RegistryInv

-----------------------------------------------------------------------------
(* Steps that change the log                                               *)

\* The log of d's name has an event of w more, the first that defines d.
Inserted(w, d) ==
    /\ \A i \in DOMAIN log[d.name] : log[d.name][i].def # d
    /\ log' = [log EXCEPT ![d.name] = Append(@, [def |-> d, by |-> w])]

\* An insert: nothing is committed, and the event is behind all that is.
LEMMA InsertStep ==
    ASSUME RegistryInv, NEW w \in Writers, At(w, "insert"), NEW d, d = writer[w].def,
           Inserted(w, d), Go(w, "project"), UNCHANGED <<row, lock, seed, proposal, activation>>
    PROVE  RegistryInv'
  <1> DEFINE n == d.name
             e == [def |-> d, by |-> w]
             new == [writer[w] EXCEPT !.phase = "project"]
  <1>1. writer' = [writer EXCEPT ![w] = new]
    BY WriterFacts DEF Go
  <1>2. /\ new \in WriterState /\ new.phase = "project" /\ new.def = d /\ new.via = writer[w].via
        /\ new.fresh = writer[w].fresh /\ new.decision = writer[w].decision
    BY WriterFacts DEF WriterState, Phase
  <1> HIDE DEF new
  <1>3. writer'[w] = new /\ \A v \in Writers : v # w => writer'[v] = writer[v]
    BY <1>1, WriterFacts
  <1>4. ~Holding(w) /\ ~writer[w].fresh /\ ~At(w, "idle") /\ Defining(w) /\ w # Nobody
    BY WriterFacts, RegistryAssumption DEF Holding, Defining, At, WriterOK
  <1>5. d \in Definitions /\ n \in Names /\ e \in Event
    BY <1>4, DefIsNamed DEF Event
  <1>6. UNCHANGED <<approver, approvers, outcomes>>
    BY DEF proposal, activation
  <1>7. /\ log[n] \in Seq(Event) /\ Len(log[n]) \in Nat /\ DOMAIN log[n] = 1..Len(log[n])
        /\ log \in [Names -> Seq(Event)]
    BY <1>5, LogFacts DEF RegistryInv, ShapesOK
  <1>8. /\ log'[n] \in Seq(Event) /\ DOMAIN log'[n] = 1..Len(log[n]) + 1
        /\ log'[n][Len(log[n]) + 1] = e
        /\ \A i \in DOMAIN log[n] : log'[n][i] = log[n][i]
        /\ \A m \in Names : m # n => log'[m] = log[m]
        /\ log' \in [Names -> Seq(Event)]
    <2>1. log'[n] = Append(log[n], e) /\ (\A m \in Names : m # n => log'[m] = log[m])
          /\ DOMAIN log' = Names
      BY <1>5, <1>7, SMTT(60) DEF Inserted
    <2>2. \A m \in Names : log[m] \in Seq(Event)
      BY <1>7
    <2> HIDE DEF e, n
    <2>3. /\ Append(log[n], e) \in Seq(Event) /\ Len(Append(log[n], e)) = Len(log[n]) + 1
          /\ \A i \in 1..Len(log[n]) : Append(log[n], e)[i] = log[n][i]
          /\ Append(log[n], e)[Len(log[n]) + 1] = e
      BY <1>5, <1>7, AppendProperties
    <2>4. DOMAIN log'[n] = 1..Len(log[n]) + 1
      BY <2>1, <2>3, LenProperties
    <2>5. log' = [m \in Names |-> log'[m]]
      BY <1>5, <1>7 DEF Inserted, n
    <2>6. log' \in [Names -> Seq(Event)]
      BY <2>1, <2>2, <2>3, <2>5
    <2> QED
      BY <1>7, <2>1, <2>3, <2>4, <2>6
  <1>50. e.def = d /\ e.by = w /\ e = [def |-> d, by |-> w] /\ n = d.name
    OBVIOUS
  <1> HIDE DEF e, n
  <1>9. Visible(log'[n]) = Visible(log[n])
    <2>1. \A i \in DOMAIN log[n] : i \in DOMAIN log'[n] /\ log'[n][i] = log[n][i]
      BY <1>7, <1>8
    <2>2. \A i \in DOMAIN log'[n] : i \in DOMAIN log[n] \/ i = Len(log[n]) + 1
      BY <1>7, <1>8
    <2>3. log'[n][Len(log[n]) + 1].by # Nobody
      BY <1>4, <1>8, <1>50
    <2> QED
      BY <2>1, <2>2, <2>3 DEF Visible
  <1>10. SameLog
    <2> SUFFICES ASSUME NEW m \in Names
                 PROVE  log'[m] \in Seq(Event) /\ \E t : Same(log[m], log'[m], t)
      BY DEF SameLog
    <2>1. log'[m] \in Seq(Event) /\ Visible(log'[m]) = Visible(log[m])
      BY <1>8, <1>9, LogFacts
    <2>2. \A i \in Visible(log[m]) : log'[m][i] = log[m][i]
      BY <1>8 DEF Visible
    <2>3. Same(log[m], log'[m], [i \in Visible(log[m]) |-> i])
      BY <2>1, <2>2 DEF Same
    <2> QED
      BY <2>1, <2>3
  <1>11. Stays /\ RowsOK' /\ HistoryIsLinear' /\ Resolved'
    BY <1>10, SameLogKeeps
  <1>12. GrantedIsDefined'
    BY <1>6, <1>11, GrantedStays
  <1>13. ShapesOK'
    BY <1>1, <1>2, <1>3, <1>5, <1>6, <1>8, WriterFacts DEF RegistryInv, ShapesOK, At
  <1>14. SeedOK'
    BY <1>1, <1>2, <1>4, <1>11, SeedStays DEF OfSeed
  <1>15. \A m \in Names : \A i \in DOMAIN log[m] : log[m][i].by # w
    BY <1>4, HeldOnce
  <1>16. /\ Holding(w)' /\ Defining(w)' /\ ~At(w, "commit")'
         /\ \A v \in Writers : v # w => (Holding(v)' <=> Holding(v))
    BY <1>2, <1>3 DEF Holding, Defining, At
  <1>17. WriterOK(w)
    BY WriterFacts
  <1>18. LogOK'
    <2>1. ASSUME NEW m \in Names, NEW i \in DOMAIN log[m], NEW ev, ev = log[m][i]
          PROVE  EventOK(m, ev)'
      <3>1. /\ EventOK(m, ev) /\ ev.by \in Writers \union {Nobody} /\ ev.by # w
        BY <1>15, <2>1, LogFacts DEF Event
      <3> QED
        BY <1>3, <1>16, <3>1 DEF EventOK
    <2>2. ASSUME NEW m \in Names, NEW i \in DOMAIN log'[m], NEW ev, ev = log'[m][i]
          PROVE  EventOK(m, ev)'
      <3>1. CASE i \in DOMAIN log[m]
        <4>1. ev = log[m][i]
          BY <1>8, <2>2, <3>1
        <4> QED
          BY <2>1, <3>1, <4>1
      <3>2. CASE i \notin DOMAIN log[m]
        <4>1. m = n /\ i = Len(log[n]) + 1
          BY <1>7, <1>8, <3>2, SMTT(60)
        <4>2. ev.def = d /\ ev.by = w
          BY <1>8, <1>50, <2>2, <4>1
        <4>3. Normal(d)
          BY <1>4, <1>17 DEF WriterOK
        <4> QED
          BY <1>2, <1>3, <1>16, <1>50, <4>1, <4>2, <4>3 DEF EventOK
      <3> QED
        BY <3>1, <3>2
    <2>3. ASSUME NEW m \in Names
          PROVE  Distinct(log'[m])
      <3>1. CASE m # n
        BY <1>8, <3>1, LogFacts
      <3>2. CASE m = n
        <4>1. \A i, j \in DOMAIN log[n] : log[n][i].def = log[n][j].def => i = j
          BY <1>5, LogFacts DEF Distinct
        <4>2. \A i \in DOMAIN log[n] : log'[n][i].def # d
          BY <1>8 DEF Inserted, n
        <4>3. \A i \in DOMAIN log'[n] : i \in DOMAIN log[n] \/ i = Len(log[n]) + 1
          BY <1>7, <1>8
        <4>4. log'[n][Len(log[n]) + 1].def = d
          BY <1>8, <1>50
        <4> QED
          BY <1>8, <3>2, <4>1, <4>2, <4>3, <4>4 DEF Distinct
      <3> QED
        BY <3>1, <3>2
    <2> QED
      BY <2>2, <2>3 DEF LogOK, Distinct, EventOK, Holding, At
  <1>19. ASSUME NEW v \in Writers, v # w
         PROVE  WriterOK(v)' /\ ActivationOK(v)'
    <2>1. Undisturbed(v)
      <3> SUFFICES ASSUME NEW m \in Names
                   PROVE  /\ \A i \in DOMAIN log[m] : log[m][i].by = v =>
                                 \E j \in DOMAIN log'[m] : log'[m][j] = log[m][i]
                          /\ Behind(log[m], v) => Behind(log'[m], v)
        BY <1>3, <1>19 DEF Undisturbed
      <3>1. CASE m # n
        BY <1>8, <3>1
      <3>2. CASE m = n
        <4>1. \A i \in DOMAIN log[n] : i \in DOMAIN log'[n]
          BY <1>7, <1>8
        <4>2. \A i \in DOMAIN log'[n] : i \in DOMAIN log[n] \/ i = Len(log[n]) + 1
          BY <1>7, <1>8
        <4>3. log'[n][Len(log[n]) + 1].by # v
          BY <1>8, <1>19, <1>50
        <4> QED
          BY <1>8, <1>9, <3>2, <4>1, <4>2, <4>3 DEF Behind
      <3> QED
        BY <3>1, <3>2
    <2>2. WriterOK(v)'
      BY <1>11, <2>1, OtherStays
    <2>3. ActivationOK(v)'
      BY <1>3, <1>6, <1>19, WriterFacts, SMTT(60) DEF ActivationOK, At
    <2> QED
      BY <2>2, <2>3
  <1>20. WriterOK(w)'
    <2>1. \E i \in DOMAIN log'[n] : log'[n][i] = e
      BY <1>7, <1>8
    <2>2. Behind(log'[n], w)
      BY <1>5, <1>7, <1>8, <1>9, <1>15 DEF Behind, Visible
    <2>3. /\ Normal(d) /\ (n \in Cultivars => tropismVersionExists(d.tropism))
          /\ definitionEventExists(d) \/ d.version = 1 \/ Successor(w)
      BY <1>4, <1>17, <1>50 DEF WriterOK
    <2>4. n \in Cultivars => tropismVersionExists(d.tropism)'
      BY <1>4, <1>11, <1>50, <2>3, DefIsNamed DEF Stays
    <2>5. definitionEventExists(d)' \/ d.version = 1 \/ Successor(w)'
      <3>1. definitionEventExists(d) => definitionEventExists(d)'
        BY <1>5, <1>11 DEF Stays
      <3>2. Successor(w) => Successor(w)'
        BY <1>2, <1>3, <1>50, <2>2 DEF Successor
      <3> QED
        BY <2>3, <3>1, <3>2
    <2> QED
      BY <1>2, <1>3, <1>4, <1>16, <1>50, <2>1, <2>3, <2>4, <2>5, ZenonT(60)
      DEF WriterOK, definitionEventExists, tropismVersionExists, Committed
  <1>21. ActivationOK(w)'
    BY <1>2, <1>3, <1>6, WriterFacts DEF ActivationOK, At
  <1>22. (approver # Nobody => approver \in approvers)'
    BY <1>6 DEF RegistryInv
  <1>23. \A v \in Writers : WriterOK(v)' /\ ActivationOK(v)'
    BY <1>19, <1>20, <1>21
  <1> QED
    BY <1>11, <1>12, <1>13, <1>14, <1>18, <1>22, <1>23 DEF RegistryInv

-----------------------------------------------------------------------------
(* The end of a transaction                                                *)

\* The request w is over: its locks are free and no event is its own; what the others
\* hold is theirs.
Ended(w) ==
    /\ writer' = [writer EXCEPT ![w] = Idle]
    /\ lock' = [n \in Names |-> IF lock[n] = w THEN Nobody ELSE lock[n]]
    /\ \A n \in Names :
          /\ log'[n] \in Seq(Event) /\ Distinct(log'[n])
          /\ \A j \in DOMAIN log'[n] : \E i \in DOMAIN log[n] :
                /\ log'[n][j].def = log[n][i].def
                /\ \/ log'[n][j].by = Nobody
                   \/ log'[n][j].by = log[n][i].by /\ log[n][i].by # w
    /\ \A v \in Writers \ {w}, n \in Names :
          /\ \A i \in DOMAIN log[n] : log[n][i].by = v => \E j \in DOMAIN log'[n] : log'[n][j] = log[n][i]
          /\ lock[n] = v => row'[n] = row[n] /\ (Behind(log[n], v) => Behind(log'[n], v))
    /\ UNCHANGED <<approver, approvers>>

\* Then the log is in order and the requests are as they should be.
LEMMA Ends ==
    ASSUME RegistryInv, NEW w \in Writers, Ended(w), Stays
    PROVE  /\ LogOK' /\ \A v \in Writers : WriterOK(v)' /\ ActivationOK(v)'
           /\ lock' \in [Names -> Writers \union {Nobody}] /\ writer' \in [Writers -> WriterState]
           /\ \A v \in Writers : ~At(v, "idle")' => writer'[v].def \in Definitions
           /\ writer'[w] = Idle /\ \A v \in Writers : v # w => writer'[v] = writer[v]
           /\ \A v \in Writers : OfSeed(v)' => v # w /\ OfSeed(v)
           /\ (approver # Nobody => approver \in approvers)'
  <1>1. /\ writer' = [writer EXCEPT ![w] = Idle]
        /\ lock' = [n \in Names |-> IF lock[n] = w THEN Nobody ELSE lock[n]]
        /\ UNCHANGED <<approver, approvers>>
    BY DEF Ended
  <1>2. Idle \in WriterState
    BY DEF Idle, WriterState, Phase, Decisions
  <1>3. writer'[w] = Idle /\ \A v \in Writers : v # w => writer'[v] = writer[v]
    BY <1>1, WriterFacts
  <1>4. lock' \in [Names -> Writers \union {Nobody}] /\ writer' \in [Writers -> WriterState]
    BY <1>1, <1>2, WriterFacts
  <1>5. \A v \in Writers : v # w => (Holding(v)' <=> Holding(v))
    BY <1>3 DEF Holding, At
  <1>6. LogOK'
    <2>1. ASSUME NEW n \in Names, NEW j \in DOMAIN log'[n], NEW ev, ev = log'[n][j]
          PROVE  EventOK(n, ev)'
      <3>1. PICK i \in DOMAIN log[n] :
                /\ ev.def = log[n][i].def
                /\ ev.by = Nobody \/ (ev.by = log[n][i].by /\ log[n][i].by # w)
        BY <2>1 DEF Ended
      <3>2. EventOK(n, log[n][i]) /\ log[n][i].by \in Writers \union {Nobody}
        BY LogFacts DEF Event
      <3> QED
        BY <1>3, <1>5, <3>1, <3>2 DEF EventOK
    <2>2. \A n \in Names : Distinct(log'[n])
      BY DEF Ended
    <2> QED
      BY <2>1, <2>2 DEF LogOK, Distinct, EventOK, Holding, At
  <1>7. ASSUME NEW v \in Writers, v # w
        PROVE  WriterOK(v)' /\ ActivationOK(v)'
    <2>1. \A n \in Names : lock[n] = v => lock'[n] = v
      BY <1>1, <1>7
    <2>2. v \in Writers \ {w}
      BY <1>7
    <2>3. Undisturbed(v)
      BY <1>3, <2>1, <2>2 DEF Undisturbed, Ended
    <2>4. ActivationOK(v)'
      BY <1>1, <1>3, <1>7, WriterFacts DEF ActivationOK, At
    <2> QED
      BY <2>3, <2>4, OtherStays
  <1>8. WriterOK(w)' /\ ActivationOK(w)'
    BY <1>3, RegistryAssumption DEF Idle, WriterOK, ActivationOK, Holding, Defining, At
  <1>9. \A v \in Writers : ~At(v, "idle")' => v # w /\ writer'[v].def \in Definitions
    <2>1. ~At(w, "idle")' => FALSE
      BY <1>3 DEF At, Idle
    <2>2. \A v \in Writers : v # w /\ ~At(v, "idle")' => writer'[v].def \in Definitions
      BY <1>3, DefIsNamed DEF At
    <2> QED
      BY <2>1, <2>2
  <1>10. \A v \in Writers : OfSeed(v)' => v # w /\ OfSeed(v)
    BY <1>3, <1>9 DEF OfSeed, At
  <1>11. (approver # Nobody => approver \in approvers)'
    BY <1>1 DEF RegistryInv
  <1> QED
    BY <1>3, <1>4, <1>6, <1>7, <1>8, <1>9, <1>10, <1>11

\* A refusal or an abort takes the event back out of the middle of the log.
LEMMA UndoStep ==
    ASSUME RegistryInv, NEW w \in Writers, Undo(w), ~At(w, "idle"),
           UNCHANGED <<row, proposal, activation>>
    PROVE  RegistryInv'
  <1>1. UNCHANGED <<row, approver, approvers, outcomes>>
    BY DEF proposal, activation
  <1>2. ASSUME NEW n \in Names, NEW i \in DOMAIN log[n], log[n][i].by = w
        PROVE  log'[n] = Without(log[n], i)
    <2>1. \A j \in DOMAIN log[n] : log[n][j].by = w => j = i
      BY <1>2, HeldOnce
    <2>2. i = CHOOSE j \in DOMAIN log[n] : log[n][j].by = w
      BY <1>2, <2>1
    <2> QED
      BY <1>2, <2>2 DEF Undo
  <1>3. ASSUME NEW n \in Names, ~\E i \in DOMAIN log[n] : log[n][i].by = w
        PROVE  log'[n] = log[n]
    BY <1>3 DEF Undo
  <1>4. w # Nobody
    BY RegistryAssumption
  <1>5. ASSUME NEW n \in Names
        PROVE  /\ log'[n] \in Seq(Event) /\ Distinct(log'[n])
               /\ \E t : Same(log[n], log'[n], t)
               /\ \A j \in DOMAIN log'[n] : \E i \in DOMAIN log[n] : log'[n][j] = log[n][i] /\ log[n][i].by # w
               /\ \A i \in DOMAIN log[n] : log[n][i].by # w => \E j \in DOMAIN log'[n] : log'[n][j] = log[n][i]
               /\ \A v : Behind(log[n], v) => Behind(log'[n], v)
    <2>1. CASE \E i \in DOMAIN log[n] : log[n][i].by = w
      <3>1. PICK i \in DOMAIN log[n] : log[n][i].by = w
        BY <2>1
      <3>2. \A j \in DOMAIN log[n] : log[n][j].by = w => j = i
        BY <3>1, HeldOnce
      <3>3. log'[n] = Without(log[n], i) /\ log[n] \in Seq(Event) /\ Distinct(log[n])
        BY <1>2, <3>1, LogFacts
      <3>4. log'[n] \in Seq(Event)
        BY <3>3, WithoutIs
      <3>5. /\ \E t : Same(log[n], log'[n], t) 
            /\ \A k \in DOMAIN log[n] : k # i => \E j \in DOMAIN log'[n] : log'[n][j] = log[n][k]
            /\ \A j \in DOMAIN log'[n] : \E k \in DOMAIN log[n] : k # i /\ log'[n][j] = log[n][k]
            /\ Distinct(log'[n])
            /\ \A v : Behind(log[n], v) => Behind(log'[n], v)
        BY <1>4, <3>1, <3>3, WithoutSame
      <3> QED
        BY <3>1, <3>2, <3>4, <3>5
    <2>2. CASE ~\E i \in DOMAIN log[n] : log[n][i].by = w
      <3>1. log'[n] = log[n]
        BY <1>3, <2>2
      <3>2. Same(log[n], log[n], [i \in Visible(log[n]) |-> i])
        BY DEF Same
      <3> QED
        BY <2>2, <3>1, <3>2, LogFacts
    <2> QED
      BY <2>1, <2>2
  <1>6. SameLog
    BY <1>5 DEF SameLog
  <1>7. Stays /\ RowsOK' /\ HistoryIsLinear' /\ Resolved'
    BY <1>1, <1>6, SameLogKeeps
  <1>8. GrantedIsDefined'
    BY <1>1, <1>7, GrantedStays
  <1>9. Ended(w)
    <2>1. ASSUME NEW v \in Writers \ {w}, NEW n \in Names
          PROVE  /\ \A i \in DOMAIN log[n] : log[n][i].by = v => \E j \in DOMAIN log'[n] : log'[n][j] = log[n][i]
                 /\ lock[n] = v => row'[n] = row[n] /\ (Behind(log[n], v) => Behind(log'[n], v))
      <3>1. \A i \in DOMAIN log[n] : log[n][i].by = v => log[n][i].by # w
        BY <2>1
      <3> QED
        BY <1>1, <1>5, <3>1
    <2>2. ASSUME NEW n \in Names
          PROVE  /\ log'[n] \in Seq(Event) /\ Distinct(log'[n])
                 /\ \A j \in DOMAIN log'[n] : \E i \in DOMAIN log[n] :
                       /\ log'[n][j].def = log[n][i].def
                       /\ \/ log'[n][j].by = Nobody
                          \/ log'[n][j].by = log[n][i].by /\ log[n][i].by # w
      <3>1. ASSUME NEW j \in DOMAIN log'[n]
            PROVE  \E i \in DOMAIN log[n] : /\ log'[n][j].def = log[n][i].def
                                            /\ log'[n][j].by = log[n][i].by /\ log[n][i].by # w
        <4>1. PICK i \in DOMAIN log[n] : log'[n][j] = log[n][i] /\ log[n][i].by # w
          BY <1>5
        <4> QED
          BY <4>1
      <3> QED
        BY <1>5, <3>1
    <2>3. /\ writer' = [writer EXCEPT ![w] = Idle]
          /\ lock' = [n \in Names |-> IF lock[n] = w THEN Nobody ELSE lock[n]]
      BY DEF Undo
    <2> QED
      BY <1>1, <2>1, <2>2, <2>3 DEF Ended
  <1>10. seed' = IF writer[w].via = Seeding THEN [seed EXCEPT !.next = 0] ELSE seed
    BY DEF Undo
  <1>11. seed \in [next : 0..Len(SeedOrder), done : BOOLEAN, runs : Nat]
    BY DEF RegistryInv, ShapesOK
  <1>12. /\ seed' \in [next : 0..Len(SeedOrder), done : BOOLEAN, runs : Nat]
         /\ seed'.done = seed.done /\ seed'.next = IF writer[w].via = Seeding THEN 0 ELSE seed.next
    <2>1. Len(SeedOrder) \in Nat
      BY RegistryAssumption
    <2>2. 0 \in 0..Len(SeedOrder)
      BY <2>1
    <2> QED
      BY <1>10, <1>11, <2>2
  <1>13. ShapesOK'
    <2>1. log' \in [Names -> Seq(Event)]
      <3>1. log' = [n \in Names |-> log'[n]]
        BY DEF Undo
      <3> QED
        BY <1>5, <3>1
    <2>2. lock' \in [Names -> Writers \union {Nobody}] /\ writer' \in [Writers -> WriterState]
          /\ \A v \in Writers : ~At(v, "idle")' => writer'[v].def \in Definitions
      BY <1>7, <1>9, Ends
    <2> QED
      BY <1>1, <1>12, <2>1, <2>2 DEF RegistryInv, ShapesOK, At
  <1>14. SeedOK'
    <2>1. \A v \in Writers : OfSeed(v)' => v # w /\ OfSeed(v) /\ writer'[v] = writer[v]
      BY <1>7, <1>9, Ends
    <2>2. ASSUME NEW k \in 1..Len(SeedOrder), seed'.done \/ k < seed'.next
          PROVE  definitionEventExists(SeedOrder[k])'
      <3>1. SeedOrder[k] \in Definitions /\ k \in Nat /\ ~(k < 0)
        BY RegistryAssumption
      <3>2. seed.done \/ k < seed.next
        BY <1>12, <2>2, <3>1
      <3>3. definitionEventExists(SeedOrder[k])
        BY <3>2 DEF RegistryInv, SeedOK
      <3> QED
        BY <1>7, <3>1, <3>3 DEF Stays
    <2>3. ASSUME NEW v \in Writers, OfSeed(v)'
          PROVE  /\ seed'.next > 0 /\ writer'[v].def = SeedOrder[seed'.next]
                 /\ \A u \in Writers : OfSeed(u)' => u = v
      <3>1. v # w /\ OfSeed(v) /\ writer'[v] = writer[v]
        BY <2>1, <2>3
      <3>2. ~OfSeed(w)
        BY <3>1 DEF RegistryInv, SeedOK
      <3>3. seed'.next = seed.next
        BY <1>12, <3>2 DEF OfSeed
      <3> QED
        BY <2>1, <3>1, <3>3 DEF RegistryInv, SeedOK
    <2> QED
      BY <2>2, <2>3 DEF SeedOK, definitionEventExists
  <1>15. LogOK' /\ (\A v \in Writers : WriterOK(v)' /\ ActivationOK(v)')
         /\ (approver # Nobody => approver \in approvers)'
    BY <1>7, <1>9, Ends
  <1> QED
    BY <1>7, <1>8, <1>13, <1>14, <1>15 DEF RegistryInv

\* What the end of a transaction makes visible: its event, or nothing.
LEMMA PublishStep ==
    ASSUME RegistryInv, NEW w \in Writers, At(w, "commit"), Publish(w), NEW d, d = writer[w].def,
           UNCHANGED <<approver, approvers>>
    PROVE  /\ Stays /\ RowsOK' /\ HistoryIsLinear' /\ Resolved' /\ Ended(w)
           /\ log' \in [Names -> Seq(Event)] /\ row' \in [Names -> Definitions \union {NoRow}]
           /\ writer[w].decision = "grant" => definitionEventExists(d)'
  <1> DEFINE n == d.name
  <1>1. /\ row' = IF writer[w].fresh THEN [row EXCEPT ![n] = d] ELSE row
        /\ log' = [m \in Names |-> [i \in DOMAIN log[m] |->
                     IF log[m][i].by = w THEN [log[m][i] EXCEPT !.by = Nobody] ELSE log[m][i]]]
        /\ lock' = [m \in Names |-> IF lock[m] = w THEN Nobody ELSE lock[m]]
        /\ writer' = [writer EXCEPT ![w] = Idle]
    BY DEF Publish
  <1>2. /\ d \in Definitions /\ n \in Names /\ ~At(w, "idle") /\ WriterOK(w) /\ w # Nobody
        /\ writer[w].fresh \in BOOLEAN
    BY DefIsNamed, WriterFacts, RegistryAssumption DEF At, WriterState
  <1>3. row \in [Names -> Definitions \union {NoRow}]
    BY DEF RegistryInv, ShapesOK
  <1>4. row' \in [Names -> Definitions \union {NoRow}]
    BY <1>1, <1>2, <1>3
  <1>5. ASSUME NEW m \in Names
        PROVE  /\ DOMAIN log'[m] = DOMAIN log[m] /\ log'[m] \in Seq(Event)
               /\ \A i \in DOMAIN log[m] :
                     /\ log[m][i].by # w => log'[m][i] = log[m][i]
                     /\ log[m][i].by = w => log'[m][i].by = Nobody /\ log'[m][i].def = log[m][i].def
    <2>1. /\ DOMAIN log[m] = 1..Len(log[m]) /\ Len(log[m]) \in Nat
          /\ \A i \in DOMAIN log[m] : log[m][i] \in Event
      BY LogFacts
    <2>2. log'[m] = [i \in DOMAIN log[m] |->
                       IF log[m][i].by = w THEN [log[m][i] EXCEPT !.by = Nobody] ELSE log[m][i]]
      BY <1>1
    <2>3. \A ev \in Event : /\ [ev EXCEPT !.by = Nobody] \in Event
                            /\ [ev EXCEPT !.by = Nobody].by = Nobody
                            /\ [ev EXCEPT !.by = Nobody].def = ev.def
      BY DEF Event
    <2>4. DOMAIN log'[m] = 1..Len(log[m]) /\ \A i \in 1..Len(log[m]) : log'[m][i] \in Event
      BY <2>1, <2>2, <2>3
    <2>5. PICK size \in Nat : DOMAIN log'[m] = 1..size
      BY <2>1, <2>4
    <2>6. log'[m] \in Seq(Event)
      <3>1. log'[m] = [i \in 1..size |-> log'[m][i]]
        BY <2>2, <2>5
      <3>2. \A i \in 1..size : log'[m][i] \in Event
        BY <2>4, <2>5
      <3> QED
        BY <3>1, <3>2
    <2> QED
      BY <2>1, <2>2, <2>3, <2>6
  <1>6. log' \in [Names -> Seq(Event)]
    <2>1. log' = [m \in Names |-> log'[m]]
      BY <1>1
    <2> QED
      BY <1>5, <2>1
  <1>7. Ended(w)
    <2>1. ASSUME NEW m \in Names
          PROVE  /\ log'[m] \in Seq(Event) /\ Distinct(log'[m])
                 /\ \A j \in DOMAIN log'[m] : \E i \in DOMAIN log[m] :
                       /\ log'[m][j].def = log[m][i].def
                       /\ \/ log'[m][j].by = Nobody
                          \/ log'[m][j].by = log[m][i].by /\ log[m][i].by # w
      <3>1. \A i \in DOMAIN log[m] : /\ log'[m][i].def = log[m][i].def
                                     /\ log'[m][i].by = Nobody \/ (log'[m][i].by = log[m][i].by /\ log[m][i].by # w)
        BY <1>5
      <3>2. Distinct(log[m])
        BY LogFacts
      <3> QED
        BY <1>5, <3>1, <3>2 DEF Distinct
    <2>2. ASSUME NEW v \in Writers \ {w}, NEW m \in Names
          PROVE  /\ \A i \in DOMAIN log[m] : log[m][i].by = v => \E j \in DOMAIN log'[m] : log'[m][j] = log[m][i]
                 /\ lock[m] = v => row'[m] = row[m] /\ (Behind(log[m], v) => Behind(log'[m], v))
      <3>1. \A i \in DOMAIN log[m] : log[m][i].by = v => log'[m][i] = log[m][i]
        BY <1>5, <2>2
      <3>2. ASSUME lock[m] = v
            PROVE  row'[m] = row[m] /\ log'[m] = log[m]
        <4>1. ~(writer[w].fresh /\ m = n)
          BY <1>2, <2>2, <3>2 DEF WriterOK
        <4>2. row'[m] = row[m]
          BY <1>1, <1>2, <1>3, <4>1
        <4>3. \A i \in DOMAIN log[m] : log[m][i].by # w
          <5> SUFFICES ASSUME NEW i \in DOMAIN log[m], log[m][i].by = w PROVE FALSE
            OBVIOUS
          <5>1. Holding(w) /\ m = n
            BY HeldOnce
          <5> QED
            BY <4>1, <5>1 DEF Holding, At
        <4>4. \A i \in DOMAIN log[m] : log'[m][i] = log[m][i]
          BY <1>5, <4>3
        <4> QED
          BY <1>5, <4>2, <4>4, LogFacts, SeqEqual
      <3> QED
        BY <1>5, <3>1, <3>2
    <2> QED
      BY <1>1, <2>1, <2>2 DEF Ended
  <1>8. CASE ~writer[w].fresh
    <2>1. \A m \in Names : \A i \in DOMAIN log[m] : log[m][i].by # w
      <3>1. ~Holding(w)
        BY <1>8 DEF Holding, At
      <3> QED
        BY <3>1, HeldOnce
    <2>2. \A m \in Names : \A i \in DOMAIN log[m] : log'[m][i] = log[m][i]
      BY <1>5, <2>1
    <2>3. SameLog
      <3> SUFFICES ASSUME NEW m \in Names
                   PROVE  log'[m] \in Seq(Event) /\ \E t : Same(log[m], log'[m], t)
        BY DEF SameLog
      <3>1. Visible(log'[m]) = Visible(log[m]) /\ Visible(log[m]) \subseteq DOMAIN log[m]
        BY <1>5, <2>2 DEF Visible
      <3>2. Same(log[m], log'[m], [i \in Visible(log[m]) |-> i])
        BY <2>2, <3>1 DEF Same
      <3> QED
        BY <1>5, <3>2
    <2>4. UNCHANGED row
      BY <1>1, <1>8
    <2>5. Stays /\ RowsOK' /\ HistoryIsLinear' /\ Resolved'
      BY <2>3, <2>4, SameLogKeeps
    <2>6. writer[w].decision = "grant" => definitionEventExists(d)'
      BY <1>2, <1>8, <2>5 DEF WriterOK, Stays
    <2> QED
      BY <1>4, <1>6, <1>7, <2>5, <2>6
  <1>9. CASE writer[w].fresh
    <2>1. Holding(w) /\ Defining(w)
      BY <1>9 DEF Holding, Defining
    <2>2. PICK p \in DOMAIN log[n] : log[n][p] = [def |-> d, by |-> w]
      BY <1>2, <2>1 DEF WriterOK
    <2>3. log[n][p].by = w /\ log[n][p].def = d
      BY <2>2
    <2>4. \A m \in Names : \A i \in DOMAIN log[m] : log[m][i].by = w => m = n /\ i = p
      <3> SUFFICES ASSUME NEW m \in Names, NEW i \in DOMAIN log[m], log[m][i].by = w
                   PROVE  m = n /\ i = p
        OBVIOUS
      <3>1. m = n
        BY HeldOnce
      <3> QED
        BY <1>2, <2>2, <2>3, <3>1, HeldOnce
    <2>5. \A m \in Names : m # n =>
              row'[m] = row[m] /\ Visible(log'[m]) = Visible(log[m])
              /\ \A i \in DOMAIN log[m] : log'[m][i] = log[m][i]
      BY <1>1, <1>2, <1>3, <1>5, <2>4 DEF Visible
    <2>6. row'[n] = d
      BY <1>1, <1>2, <1>3, <1>9
    <2>7. Published(log[n], log'[n], p)
      BY <1>2, <1>5, <2>2, <2>3, <2>4, SMTT(60) DEF Published
    <2>8. /\ Visible(log'[n]) = Visible(log[n]) \union {p} /\ p \notin Visible(log[n])
          /\ \A i \in Visible(log[n]) : log'[n][i] = log[n][i]
          /\ log'[n][p].def = d
      BY <2>3, <2>7 DEF Published, Visible
    <2>9. definitionEventExists(d)'
      BY <2>8 DEF definitionEventExists, Committed
    <2>10. ASSUME NEW m \in Names, NEW i \in Visible(log[m])
           PROVE  i \in Visible(log'[m]) /\ log'[m][i] = log[m][i]
      <3>1. i \in DOMAIN log[m]
        BY DEF Visible
      <3> QED
        BY <2>5, <2>8, <3>1
    <2>11. Stays
      BY <2>10, RegistryAssumption DEF Stays, definitionEventExists, tropismVersionExists, Committed
    <2>12. Normal(d) /\ (n \in Cultivars => tropismVersionExists(d.tropism))
           /\ (definitionEventExists(d) \/ d.version = 1 \/ Successor(w))
      BY <1>2, <2>1 DEF WriterOK
    <2>13. ~definitionEventExists(d)
      <3> SUFFICES ASSUME NEW i \in Visible(log[n]), log[n][i].def = d PROVE FALSE
        BY DEF definitionEventExists, Committed
      <3>1. i \in DOMAIN log[n] /\ Distinct(log[n])
        BY <1>2, LogFacts DEF Visible
      <3>2. i = p
        BY <2>2, <2>3, <3>1 DEF Distinct
      <3> QED
        BY <2>8, <3>2
    <2>14. HistoryIsLinear'
      <3> SUFFICES \A m \in Names : Linear(log'[m], row'[m])
        BY DEF HistoryIsLinear, Linear, NoRow
      <3>1. Linear(log'[n], row'[n])
        <4>1. Follows(log[n], p, row[n])
          <5>1. CASE d.version = 1
            BY <2>3, <5>1 DEF Follows
          <5>2. CASE Successor(w)
            <6>1. /\ row[n] # NoRow /\ d.version = row[n].version + 1 /\ ~row[n].rootstock
                  /\ Behind(log[n], w)
              BY <5>2 DEF Successor
            <6>2. Visible(log[n]) # {}
              BY <1>2, <6>1 DEF RegistryInv, RowsOK, Committed
            <6>3. \A j \in Visible(log[n]) : j < p
              BY <2>2, <2>3, <6>1 DEF Behind
            <6> QED
              BY <2>3, <6>1, <6>2, <6>3 DEF Follows
          <5> QED
            BY <2>12, <2>13, <5>1, <5>2
        <4>2. Linear(log[n], row[n]) /\ log[n] \in Seq(Event) /\ log'[n] \in Seq(Event)
          BY <1>2, <1>5, LogFacts DEF RegistryInv, HistoryIsLinear
        <4>3. Linear(log'[n], log[n][p].def)
          BY <2>7, <4>1, <4>2, LinearPublished
        <4> QED
          BY <2>3, <2>6, <4>3
      <3>2. ASSUME NEW m \in Names, m # n
            PROVE  Linear(log'[m], row'[m])
        <4>1. log'[m] = log[m]
          BY <1>5, <2>5, <3>2, LogFacts, SeqEqual
        <4> QED
          BY <2>5, <3>2, <4>1 DEF RegistryInv, HistoryIsLinear
      <3> QED
        BY <3>1, <3>2
    <2>15. RowsOK'
      <3>1. ASSUME NEW m \in Names, m # n
            PROVE  /\ row'[m] = NoRow <=> Committed(m)' = {}
                   /\ row'[m] # NoRow => row'[m].name = m /\ definitionEventExists(row[m])'
        <4>1. /\ row[m] = NoRow <=> Visible(log[m]) = {}
              /\ row[m] # NoRow => row[m].name = m /\ definitionEventExists(row[m])
          BY DEF RegistryInv, RowsOK, Committed
        <4>2. row'[m] = row[m] /\ Visible(log'[m]) = Visible(log[m])
          BY <2>5, <3>1
        <4>3. row[m] # NoRow => definitionEventExists(row[m])'
          <5> SUFFICES ASSUME row[m] # NoRow PROVE definitionEventExists(row[m])'
            OBVIOUS
          <5>1. PICK i \in Visible(log[m]) : log[m][i].def = row[m]
            BY <4>1 DEF definitionEventExists, Committed
          <5>2. i \in Visible(log'[m]) /\ log'[m][i] = log[m][i]
            BY <2>10
          <5> QED
            BY <4>1, <4>2, <5>1, <5>2 DEF definitionEventExists, Committed
        <4> QED
          BY <4>1, <4>2, <4>3 DEF Committed
      <3>2. d # NoRow
        BY <2>12 DEF Normal, NoRow
      <3>3. Committed(n)' # {}
        BY <2>8 DEF Committed
      <3> QED
        BY <1>2, <2>6, <2>9, <3>1, <3>2, <3>3 DEF RowsOK, definitionEventExists, Committed
    <2>16. Resolved'
      <3> SUFFICES ASSUME NEW m \in Cultivars, NEW j \in Visible(log'[m]),
                          NEW c, c = log'[m][j].def
                   PROVE  tropismVersionExists(c.tropism)'
        BY DEF Resolved, tropismVersionExists, Committed
      <3>1. m \in Names
        BY DEF Names
      <3>2. CASE m = n /\ j = p
        <4>1. c = d
          BY <2>8, <3>2
        <4> QED
          BY <1>2, <2>11, <2>12, <3>2, <4>1, DefIsNamed DEF Stays
      <3>3. CASE ~(m = n /\ j = p)
        <4>1. j \in Visible(log[m]) /\ log'[m][j] = log[m][j]
          BY <2>5, <2>8, <2>10, <3>1, <3>3
        <4>2. tropismVersionExists(c.tropism)
          BY <4>1 DEF RegistryInv, GrantedIsDefined, Committed
        <4>3. log[m][j] \in Event /\ log[m][j].def.name = m
          BY <3>1, <4>1, LogFacts DEF Visible, EventOK
        <4>4. c.tropism.name \in Names
          BY <4>1, <4>3, RegistryAssumption DEF Event, Names
        <4> QED
          BY <2>11, <4>2, <4>4 DEF Stays
      <3> QED
        BY <3>2, <3>3
    <2> QED
      BY <1>4, <1>6, <1>7, <2>9, <2>11, <2>14, <2>15, <2>16
  <1> QED
    BY <1>2, <1>8, <1>9

\* A commit, of the seed or of anyone.
LEMMA CommitStep ==
    ASSUME RegistryInv, NEW w \in Writers, Commit(w)
    PROVE  RegistryInv'
  <1>1. PICK d : d = writer[w].def
    OBVIOUS
  <1>2. /\ At(w, "commit") /\ writer[w].via \in {Direct, Seeding} /\ Publish(w)
        /\ UNCHANGED <<approver, approvers, outcomes>>
    BY DEF Commit, proposal, activation
  <1>3. /\ Stays /\ RowsOK' /\ HistoryIsLinear' /\ Resolved' /\ Ended(w)
        /\ log' \in [Names -> Seq(Event)] /\ row' \in [Names -> Definitions \union {NoRow}]
        /\ writer[w].decision = "grant" => definitionEventExists(d)'
    BY <1>1, <1>2, PublishStep
  <1>4. /\ LogOK' /\ \A v \in Writers : WriterOK(v)' /\ ActivationOK(v)'
        /\ lock' \in [Names -> Writers \union {Nobody}] /\ writer' \in [Writers -> WriterState]
        /\ \A v \in Writers : ~At(v, "idle")' => writer'[v].def \in Definitions
        /\ \A v \in Writers : v # w => writer'[v] = writer[v]
        /\ \A v \in Writers : OfSeed(v)' => v # w /\ OfSeed(v)
        /\ (approver # Nobody => approver \in approvers)'
    BY <1>3, Ends
  <1>5. GrantedIsDefined'
    BY <1>2, <1>3, GrantedStays
  <1>6. /\ seed \in [next : 0..Len(SeedOrder), done : BOOLEAN, runs : Nat]
        /\ Len(SeedOrder) \in Nat /\ Direct # Seeding
        /\ \A k \in 1..Len(SeedOrder) : SeedOrder[k] \in Definitions
    BY RegistryAssumption DEF RegistryInv, ShapesOK
  <1>7. CASE writer[w].via = Direct
    <2>1. seed' = seed
      BY <1>7 DEF Commit
    <2>2. ShapesOK'
      BY <1>2, <1>3, <1>4, <2>1 DEF RegistryInv, ShapesOK, At
    <2>3. SeedOK'
      <3>1. \A k \in 1..Len(SeedOrder) : seed.done \/ k < seed.next => definitionEventExists(SeedOrder[k])'
        BY <1>3, <1>6 DEF RegistryInv, SeedOK, Stays
      <3>2. \A v \in Writers : OfSeed(v)' =>
                /\ seed.next > 0 /\ writer'[v].def = SeedOrder[seed.next]
                /\ \A u \in Writers : OfSeed(u)' => u = v
        BY <1>4 DEF RegistryInv, SeedOK
      <3> QED
        BY <2>1, <3>1, <3>2 DEF SeedOK, definitionEventExists
    <2> QED
      BY <1>3, <1>4, <1>5, <2>2, <2>3 DEF RegistryInv
  <1>8. CASE writer[w].via = Seeding
    <2>1. OfSeed(w)
      BY <1>2, <1>8 DEF OfSeed, At
    <2>2. seed.next > 0 /\ d = SeedOrder[seed.next] /\ \A v \in Writers : OfSeed(v) => v = w
      BY <1>1, <2>1 DEF RegistryInv, SeedOK
    <2>3. writer[w].decision = "grant"
      BY <1>8, WriterFacts, RegistryAssumption DEF ActivationOK
    <2>4. \A v \in Writers : ~OfSeed(v)'
      BY <1>4, <2>2
    <2>5. ASSUME NEW k \in 1..Len(SeedOrder), seed.done \/ k < seed.next + 1
          PROVE  definitionEventExists(SeedOrder[k])'
      <3>1. CASE seed.done \/ k < seed.next
        BY <1>3, <1>6, <3>1 DEF RegistryInv, SeedOK, Stays
      <3>2. CASE k = seed.next
        BY <1>3, <2>2, <2>3, <3>2
      <3> QED
        <4>1. seed.next \in Nat /\ k \in Nat
          BY <1>6
        <4> QED
          BY <2>5, <3>1, <3>2, <4>1
    <2>6. CASE seed.next = Len(SeedOrder)
      <3>1. seed' = [seed EXCEPT !.next = 0, !.done = TRUE]
        BY <1>6, <1>8, <2>6 DEF Commit
      <3>2. seed' \in [next : 0..Len(SeedOrder), done : BOOLEAN, runs : Nat]
        <4>1. 0 \in 0..Len(SeedOrder)
          BY <1>6
        <4> QED
          BY <1>6, <3>1, <4>1
      <3>3. ShapesOK'
        BY <1>2, <1>3, <1>4, <3>2 DEF RegistryInv, ShapesOK, At
      <3>4. \A k \in 1..Len(SeedOrder) : k < seed.next + 1
        BY <1>6, <2>6
      <3>5. SeedOK'
        BY <2>4, <2>5, <3>4 DEF SeedOK, definitionEventExists
      <3> QED
        BY <1>3, <1>4, <1>5, <3>3, <3>5 DEF RegistryInv
    <2>7. CASE seed.next # Len(SeedOrder)
      <3>1. seed' = [seed EXCEPT !.next = @ + 1]
        BY <1>6, <1>8, <2>7 DEF Commit
      <3>2. /\ seed' \in [next : 0..Len(SeedOrder), done : BOOLEAN, runs : Nat]
            /\ seed'.next = seed.next + 1 /\ seed'.done = seed.done
        <4>1. seed.next + 1 \in 0..Len(SeedOrder)
          BY <1>6, <2>7
        <4> QED
          BY <1>6, <3>1, <4>1
      <3>3. ShapesOK'
        BY <1>2, <1>3, <1>4, <3>2 DEF RegistryInv, ShapesOK, At
      <3>4. SeedOK'
        BY <2>4, <2>5, <3>2 DEF SeedOK, definitionEventExists
      <3> QED
        BY <1>3, <1>4, <1>5, <3>3, <3>4 DEF RegistryInv
    <2> QED
      BY <2>6, <2>7
  <1> QED
    BY <1>2, <1>7, <1>8

\* The commit of an activation with its outcome.
LEMMA CommitActivationStep ==
    ASSUME RegistryInv, NEW w \in Writers, CommitActivation(w)
    PROVE  RegistryInv'
  <1>1. PICK d : d = writer[w].def
    OBVIOUS
  <1>2. PICK a : a = writer[w].via
    OBVIOUS
  <1>3. PICK o : o = [decision |-> writer[w].decision, def |-> d,
                      named |-> IF writer[w].decision # "grant" THEN NoRow
                                ELSE IF writer[w].fresh THEN d ELSE row[d.name]]
    OBVIOUS
  <1>4. /\ At(w, "commit") /\ a \in Activations /\ Publish(w)
        /\ UNCHANGED <<seed, approver, approvers>>
        /\ outcomes' = [outcomes EXCEPT ![a] = @ \union {o}]
    BY <1>1, <1>2, <1>3 DEF CommitActivation
  <1>5. /\ Stays /\ RowsOK' /\ HistoryIsLinear' /\ Resolved' /\ Ended(w)
        /\ log' \in [Names -> Seq(Event)] /\ row' \in [Names -> Definitions \union {NoRow}]
        /\ writer[w].decision = "grant" => definitionEventExists(d)'
    BY <1>1, <1>4, PublishStep
  <1>6. /\ LogOK' /\ \A v \in Writers : WriterOK(v)' /\ ActivationOK(v)'
        /\ lock' \in [Names -> Writers \union {Nobody}] /\ writer' \in [Writers -> WriterState]
        /\ \A v \in Writers : ~At(v, "idle")' => writer'[v].def \in Definitions
        /\ writer'[w] = Idle
        /\ (approver # Nobody => approver \in approvers)'
    BY <1>5, Ends
  <1>7. d \in Definitions /\ d.name \in Names
    BY <1>1, <1>4, DefIsNamed DEF At
  <1>8. o \in Outcome /\ o.decision = writer[w].decision /\ o.def = d
    <2>1. writer[w].decision \in Decisions
      BY WriterFacts DEF WriterState
    <2>2. row[d.name] \in Definitions \union {NoRow}
      BY <1>7 DEF RegistryInv, ShapesOK
    <2> QED
      BY <1>3, <1>7, <2>1, <2>2 DEF Outcome
  <1>9. /\ outcomes \in [Activations -> SUBSET Outcome]
        /\ \A b \in Activations : outcomes'[b] = IF b = a THEN outcomes[b] \union {o} ELSE outcomes[b]
    BY <1>4 DEF RegistryInv, ShapesOK
  <1>10. ShapesOK'
    <2>1. outcomes' \in [Activations -> SUBSET Outcome]
      BY <1>4, <1>8, <1>9
    <2> QED
      BY <1>4, <1>5, <1>6, <2>1 DEF RegistryInv, ShapesOK, At
  <1>11. SeedOK'
    <2>1. writer' = [writer EXCEPT ![w] = Idle]
      BY <1>5 DEF Ended
    <2>2. Idle.phase = "idle"
      BY DEF Idle
    <2> QED
      BY <1>4, <1>5, <2>1, <2>2, SeedStays
  <1>12. GrantedIsDefined'
    <2>1. ASSUME NEW b \in Activations, NEW x \in outcomes'[b], x.decision = "grant"
          PROVE  definitionEventExists(x.def)' /\ ~x.def.rootstock /\ approvers' \ {Proposer[b]} # {}
      <3>1. CASE x \in outcomes[b]
        <4>1. x.def \in Definitions
          BY <1>9, <3>1 DEF Outcome
        <4> QED
          BY <1>4, <1>5, <2>1, <3>1, <4>1 DEF RegistryInv, GrantedIsDefined, Stays
      <3>2. CASE x \notin outcomes[b]
        <4>1. b = a /\ x = o
          BY <1>9, <3>2
        <4>2. writer[w].decision = "grant" /\ x.def = d
          BY <1>8, <2>1, <4>1
        <4>3. ~d.rootstock /\ approvers \ {Proposer[a]} # {}
          BY <1>1, <1>2, <1>4, <4>2, WriterFacts DEF ActivationOK, At
        <4> QED
          BY <1>4, <1>5, <4>1, <4>2, <4>3
      <3> QED
        BY <3>1, <3>2
    <2> QED
      BY <1>5, <2>1 DEF GrantedIsDefined, Resolved, definitionEventExists
  <1> QED
    BY <1>5, <1>6, <1>10, <1>11, <1>12 DEF RegistryInv

-----------------------------------------------------------------------------
(* The theorems                                                            *)

\* Nothing is defined at first.
LEMMA InitInv == Init => RegistryInv
  <1> SUFFICES ASSUME Init PROVE RegistryInv
    OBVIOUS
  <1>1. /\ \A n \in Names : /\ log[n] = <<>> /\ row[n] = NoRow /\ DOMAIN log[n] = {}
                            /\ Committed(n) = {} /\ Visible(log[n]) = {}
        /\ \A w \in Writers : writer[w] = Idle
        /\ seed = [next |-> 0, done |-> FALSE, runs |-> 0]
        /\ \A a \in Activations : outcomes[a] = {}
        /\ approver = Nobody
    BY DEF Init, Committed, Visible
  <1>2. Idle \in WriterState /\ Idle.phase = "idle" /\ Idle.fresh = FALSE /\ Idle.decision = "grant"
        /\ Idle.via = Direct
    BY DEF Idle, WriterState, Phase, Decisions
  <1>3. ShapesOK
    <2>1. <<>> \in Seq(Event) /\ 0 \in 0..Len(SeedOrder)
      BY RegistryAssumption
    <2> QED
      BY <1>1, <1>2, <2>1 DEF Init, ShapesOK, At
  <1>4. LogOK /\ RowsOK
    BY <1>1 DEF LogOK, RowsOK, Distinct
  <1>5. HistoryIsLinear
    BY <1>1 DEF HistoryIsLinear, Linear
  <1>6. SeedOK
    BY <1>1, <1>2, RegistryAssumption DEF SeedOK, OfSeed, At
  <1>7. GrantedIsDefined
    BY <1>1 DEF GrantedIsDefined, Names
  <1>8. \A w \in Writers : WriterOK(w) /\ ActivationOK(w)
    BY <1>1, <1>2, RegistryAssumption DEF WriterOK, ActivationOK, Holding, Defining, At
  <1> QED
    BY <1>1, <1>3, <1>4, <1>5, <1>6, <1>7, <1>8 DEF RegistryInv

\* Every step keeps the invariant.
LEMMA NextInv == RegistryInv /\ [Next]_vars => RegistryInv'
  <1> SUFFICES ASSUME RegistryInv, [Next]_vars PROVE RegistryInv'
    OBVIOUS
  <1>1. ASSUME NEW w \in Writers, NEW d \in Definitions, Request(w, d)
        PROVE  RegistryInv'
    BY <1>1, StartStep, RegistryAssumption DEF Request
  <1>2. ASSUME NEW w \in Writers, NEW a \in Activations, NEW d \in Definitions, Activate(w, a, d)
        PROVE  RegistryInv'
    BY <1>2, StartStep, RegistryAssumption DEF Activate
  <1>3. ASSUME NEW w \in Writers, SeedNext(w)
        PROVE  RegistryInv'
    <2>1. /\ seed.next > 0 /\ \A v \in Writers : At(v, "idle") \/ writer[v].via # Seeding
          /\ Start(w, SeedOrder[seed.next], Seeding, "read")
          /\ UNCHANGED <<log, row, lock, seed, proposal, activation>>
      BY <1>3 DEF SeedNext
    <2>2. seed.next \in 1..Len(SeedOrder)
      <3>1. seed.next \in 0..Len(SeedOrder)
        BY DEF RegistryInv, ShapesOK
      <3>2. Len(SeedOrder) \in Nat
        BY RegistryAssumption
      <3> QED
        BY <2>1, <3>1, <3>2
    <2>3. SeedOrder[seed.next] \in Definitions /\ Seeding \notin Activations
      BY <2>2, RegistryAssumption
    <2> QED
      BY <2>1, <2>3, StartStep
  <1>4. ASSUME NEW w \in Writers, Refuse(w) \/ Abort(w)
        PROVE  RegistryInv'
    BY <1>4, UndoStep, SMTT(60) DEF Refuse, Abort, At
  <1>5. ASSUME NEW w \in Writers, AppendEvent(w)
        PROVE  RegistryInv'
    <2>1. PICK d : d = writer[w].def
      OBVIOUS
    <2>2. CASE definitionEventExists(d) /\ Go(w, "commit") /\ UNCHANGED log
      BY <1>5, <2>1, <2>2, KnownStep DEF AppendEvent
    <2>3. CASE Inserted(w, d) /\ Go(w, "project")
      BY <1>5, <2>1, <2>3, InsertStep DEF AppendEvent
    <2> QED
      BY <1>5, <2>1, <2>2, <2>3 DEF AppendEvent, Inserted
  <1>6. CASE UNCHANGED vars
    <2>1. UNCHANGED <<log, row, lock, writer, seed, outcomes, approver, approvers>>
      BY <1>6 DEF vars, proposal, activation
    <2>2. RowsOK' /\ HistoryIsLinear' /\ Resolved' /\ Stays
      BY <2>1, LogStays, SameLogKeeps
    <2>3. GrantedIsDefined'
      BY <2>1, <2>2, GrantedStays
    <2>4. LogOK' /\ ShapesOK' /\ SeedOK'
      BY <2>1 DEF RegistryInv, LogOK, EventOK, Holding, At, ShapesOK, SeedOK, OfSeed,
                  definitionEventExists, Committed
    <2>5. \A w \in Writers : Undisturbed(w) /\ ActivationOK(w)'
      BY <2>1, WriterFacts DEF Undisturbed, ActivationOK, At
    <2>6. \A w \in Writers : WriterOK(w)' /\ ActivationOK(w)'
      BY <2>2, <2>5, OtherStays
    <2> QED
      BY <2>1, <2>2, <2>3, <2>4, <2>6 DEF RegistryInv
  <1> QED
    BY <1>1, <1>2, <1>3, <1>4, <1>5, <1>6, AdmitStep, ApplyStep, CommitStep, SeparateStep,
       CommitActivationStep, EvaluateStep, SeedStep, ReviewStep
    DEF Next

\* The inductive invariant of the definitions: every event is of its name and nobody else's,
\* what a request has checked of the row is still so while it holds the row
\* (DefineTropism, DefineCultivarInTx, Define, FOR UPDATE), what the seed is past is on record.
THEOREM DefinitionsInvariance == Spec => []RegistryInv
  BY InitInv, NextInv, PTL DEF Spec

\* Any number of requests, seeds and activations at once, cut off where they may be: the
\* history of a name is linear unless two first definitions were under way together, and
\* its row is the last of it (DefineTropism, DefineCultivarInTx, Define and their projectors).
THEOREM HistoriesAreLinear == Spec => []HistoryIsLinear
  <1>1. RegistryInv => HistoryIsLinear
    BY DEF RegistryInv
  <1> QED
    BY <1>1, DefinitionsInvariance, PTL

\* A seed that finished once can be run again at any time: no definition of it is refused
\* and none is added (seedRegistryFixtures, seedProjectionFixtures; definitionEventExists).
THEOREM ReseedingIsQuiet == Spec => []ReseedIsQuiet
  <1>1. RegistryInv => ReseedIsQuiet
    <2> SUFFICES ASSUME RegistryInv, seed.done, NEW w \in Writers, OfSeed(w)
                 PROVE  /\ ~writer[w].fresh /\ ~At(w, "project")
                        /\ At(w, "read") => Admitted(writer[w].def)
      BY DEF ReseedIsQuiet, OfSeed
    <2>1. PICK d : d = writer[w].def
      OBVIOUS
    <2> DEFINE n == d.name
    <2>2. d \in Definitions /\ n \in Names /\ WriterOK(w)
      BY <2>1, DefIsNamed, WriterFacts DEF OfSeed
    <2>3. definitionEventExists(d)
      <3>1. seed.next > 0 /\ d = SeedOrder[seed.next]
        BY <2>1 DEF RegistryInv, SeedOK
      <3>2. seed.next \in 0..Len(SeedOrder) /\ Len(SeedOrder) \in Nat
        BY RegistryAssumption DEF RegistryInv, ShapesOK
      <3>3. seed.next \in 1..Len(SeedOrder)
        BY <3>1, <3>2
      <3> QED
        BY <3>1, <3>3 DEF RegistryInv, SeedOK
    <2>4. PICK i \in DOMAIN log[n] : log[n][i].by = Nobody /\ log[n][i].def = d
      BY <2>3 DEF definitionEventExists, Committed, Visible
    <2>5. ~Holding(w)
      <3> SUFFICES ASSUME Holding(w) PROVE FALSE
        OBVIOUS
      <3>1. PICK j \in DOMAIN log[n] : log[n][j] = [def |-> d, by |-> w]
        BY <2>1, <2>2 DEF WriterOK
      <3>2. log[n][j].def = d /\ log[n][j].by = w /\ w # Nobody
        BY <3>1, RegistryAssumption
      <3>3. i = j
        BY <2>2, <2>4, <3>2, LogFacts DEF Distinct
      <3> QED
        BY <2>4, <3>2, <3>3
    <2>6. ~writer[w].fresh /\ ~At(w, "project")
      BY <2>2, <2>5 DEF WriterOK, Holding
    <2>7. Normal(d)
      BY <2>2, <2>4, LogFacts DEF EventOK
    <2>8. row[n] # NoRow
      BY <2>2, <2>4 DEF RegistryInv, RowsOK, Committed, Visible
    <2>9. n \in Cultivars => tropismVersionExists(d.tropism)
      BY <2>4 DEF RegistryInv, GrantedIsDefined, Committed, Visible
    <2>10. Admitted(d)
      BY <2>2, <2>3, <2>7, <2>8, <2>9
      DEF Admitted, Names, Normal, DefineTropism, DefineCultivarInTx, DefineProjection,
          normalizeTropismInput, normalizeCultivarInput, normalizeInput
    <2> QED
      BY <2>1, <2>6, <2>10
  <1> QED
    BY <1>1, DefinitionsInvariance, PTL

\* Whatever an activation races with, a grant on record has its definition on record, no
\* rootstock, approved by somebody other than the proposer; no cultivar is defined over a
\* tropism that is not (Activate, EvaluateInTx, approvalSeparated, DefineCultivarInTx).
THEOREM GrantsAreDefined == Spec => []GrantedIsDefined
  <1>1. RegistryInv => GrantedIsDefined
    BY DEF RegistryInv
  <1> QED
    BY <1>1, DefinitionsInvariance, PTL
=============================================================================
