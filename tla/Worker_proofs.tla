--------------------------- MODULE Worker_proofs ---------------------------
(***************************************************************************)
(* Proofs about Worker and the checklist of Convergence, for any number of *)
(* workers and launchers, any moves and readings, any length of a list of  *)
(* signals and any number of epochs.                                       *)
(***************************************************************************)
EXTENDS Worker, FiniteSetTheorems, FunctionTheorems, WellFoundedInduction, TLAPS

-----------------------------------------------------------------------------
(* Numbers                                                                 *)

\* A set of numbers that is not empty has a least one.
LEMMA LeastExists ==
    ASSUME NEW S \in SUBSET Nat, S # {}
    PROVE  \E x \in S : \A y \in S : x =< y
  <1> DEFINE R == OpToRel(<, Nat)
  <1>1. IsWellFoundedOn(R, Nat) /\ \A x, y \in Nat : y < x => <<y, x>> \in R
    BY NatLessThanWellFounded DEF OpToRel
  <1> HIDE DEF R
  <1>2. \E x \in S : \A y \in S : ~(<<y, x>> \in R)
    BY <1>1, WFMin
  <1>3. PICK x \in S : \A y \in S : ~(<<y, x>> \in R)
    BY <1>2
  <1>4. \A n, m \in Nat : ~(n < m) => m =< n
    OBVIOUS
  <1> QED
    BY <1>1, <1>3, <1>4

\* An interval is a shorter one and its end.
LEMMA UpTo ==
    ASSUME NEW k \in Nat, 1 < k
    PROVE  1..k = (1..k-1) \union {k}
  <1>1. \A x \in Int : x \in 1..k <=> x \in 1..k-1 \/ x = k
    OBVIOUS
  <1> QED
    BY <1>1

-----------------------------------------------------------------------------
(* The checklist                                                           *)

\* What the reducers read of signals: how many there are, and their votes.
Readable(list) ==
    /\ Len(list) \in Nat
    /\ \A n \in 1..Len(list) : list[n].pass \in {"pass", "fail", Absent}

\* The checks that one of the first n signals passes or fails, and the tally of them.
Voted(list, n, vote) == {list[m].kind : m \in {x \in 1..n : list[x].pass = vote}}
Total(list, n) ==
    [passed |-> Voted(list, n, "pass") \ Voted(list, n, "fail"),
     failed |-> Voted(list, n, "fail")]

\* The tally, one signal on (AllPassChecklist.Reduce).
LEMMA TallyStep ==
    ASSUME NEW list, Readable(list), NEW n \in 1..Len(list)
    PROVE  Tally(Total(list, n - 1), list[n]) = Total(list, n)
  <1> DEFINE s == list[n]
             Old(vote) == Voted(list, n - 1, vote)
             New(vote) == Voted(list, n, vote)
  <1>1. s.pass \in {"pass", "fail", Absent} /\ n \in Nat /\ n - 1 \in Nat
    BY DEF Readable
  <1>2. ASSUME NEW vote
        PROVE  New(vote) = IF s.pass = vote THEN Old(vote) \union {s.kind} ELSE Old(vote)
    <2>1. {x \in 1..n : list[x].pass = vote} =
              IF s.pass = vote THEN {x \in 1..n-1 : list[x].pass = vote} \union {n}
              ELSE {x \in 1..n-1 : list[x].pass = vote}
      BY <1>1
    <2> QED
      BY <2>1 DEF Voted
  <1>3. New("pass") = IF s.pass = "pass" THEN Old("pass") \union {s.kind} ELSE Old("pass")
    BY <1>2
  <1>4. New("fail") = IF s.pass = "fail" THEN Old("fail") \union {s.kind} ELSE Old("fail")
    BY <1>2
  <1> HIDE DEF s, Old, New
  <1>5. Tally([passed |-> Old("pass") \ Old("fail"), failed |-> Old("fail")], s)
            = [passed |-> New("pass") \ New("fail"), failed |-> New("fail")]
    <2>1. CASE s.pass = Absent
      BY <2>1, <1>3, <1>4 DEF Tally, Absent
    <2>2. CASE s.pass = "pass" /\ s.kind \in Old("fail")
      <3>1. New("pass") \ New("fail") = Old("pass") \ Old("fail") /\ New("fail") = Old("fail")
        BY <2>2, <1>3, <1>4
      <3> QED
        BY <2>2, <3>1 DEF Tally, Absent
    <2>3. CASE s.pass = "pass" /\ s.kind \notin Old("fail")
      <3>1. /\ New("pass") \ New("fail") = (Old("pass") \ Old("fail")) \union {s.kind}
            /\ New("fail") = Old("fail")
        BY <2>3, <1>3, <1>4
      <3> QED
        BY <2>3, <3>1 DEF Tally, Absent
    <2>4. CASE s.pass = "fail"
      <3>1. /\ New("pass") \ New("fail") = (Old("pass") \ Old("fail")) \ {s.kind}
            /\ New("fail") = Old("fail") \union {s.kind}
        BY <2>4, <1>3, <1>4
      <3> QED
        BY <2>4, <3>1 DEF Tally, Absent
    <2> QED
      BY <1>1, <2>1, <2>2, <2>3, <2>4
  <1> QED
    BY <1>5 DEF Total, s, Old, New

\* A function that satisfies the recursion of the tally is the tally.
LEMMA TallyIsTotal ==
    ASSUME NEW list, Readable(list), NEW f,
           f = [n \in 0..Len(list) |->
                  IF n = 0 THEN [passed |-> {}, failed |-> {}] ELSE Tally(f[n - 1], list[n])]
    PROVE  \A n \in 0..Len(list) : f[n] = Total(list, n)
  <1> DEFINE Bad == {n \in 0..Len(list) : f[n] # Total(list, n)}
  <1> SUFFICES ASSUME Bad # {} PROVE FALSE
    OBVIOUS
  <1>1. Len(list) \in Nat
    BY DEF Readable
  <1>2. PICK n \in Bad : \A m \in Bad : n =< m
    <2>1. Bad \in SUBSET Nat
      BY <1>1
    <2> HIDE DEF Bad
    <2> QED
      BY <2>1, LeastExists
  <1>3. n # 0
    <2>1. f[0] = [passed |-> {}, failed |-> {}]
      BY <1>1
    <2>2. Voted(list, 0, "pass") = {} /\ Voted(list, 0, "fail") = {}
      BY DEF Voted
    <2> QED
      BY <2>1, <2>2 DEF Total
  <1>4. n \in 1..Len(list) /\ n - 1 \in 0..Len(list) /\ n - 1 < n
    BY <1>1, <1>3
  <1>5. f[n - 1] = Total(list, n - 1)
    <2>1. n \in Nat /\ n - 1 \in Nat /\ ~(n =< n - 1)
      BY <1>1, <1>4
    <2>2. n - 1 \notin Bad
      BY <1>2, <2>1
    <2> QED
      BY <1>4, <2>2
  <1>6. f[n] = Tally(f[n - 1], list[n])
    <2>1. \A m \in 0..Len(list) :
             f[m] = IF m = 0 THEN [passed |-> {}, failed |-> {}] ELSE Tally(f[m - 1], list[m])
      OBVIOUS
    <2>2. n \in 0..Len(list)
      BY <1>1, <1>4
    <2> QED
      BY <1>3, <2>1, <2>2
  <1> QED
    BY <1>2, <1>4, <1>5, <1>6, TallyStep

\* There is one.
LEMMA TallyExists ==
    ASSUME NEW list, Readable(list)
    PROVE  \E f : f = [n \in 0..Len(list) |->
                  IF n = 0 THEN [passed |-> {}, failed |-> {}] ELSE Tally(f[n - 1], list[n])]
  <1> DEFINE g == [n \in 0..Len(list) |-> Total(list, n)]
  <1>1. Len(list) \in Nat
    BY DEF Readable
  <1>2. ASSUME NEW n \in 0..Len(list)
        PROVE  g[n] = IF n = 0 THEN [passed |-> {}, failed |-> {}] ELSE Tally(g[n - 1], list[n])
    <2>1. CASE n = 0
      <3>1. Voted(list, 0, "pass") = {} /\ Voted(list, 0, "fail") = {}
        BY DEF Voted
      <3> QED
        BY <2>1, <3>1 DEF Total
    <2>2. CASE n # 0
      <3>1. n \in 1..Len(list) /\ n - 1 \in 0..Len(list)
        BY <2>2, <1>1
      <3>2. g[n - 1] = Total(list, n - 1)
        BY <3>1
      <3>3. g[n] = Total(list, n)
        OBVIOUS
      <3> QED
        BY <2>2, <3>1, <3>2, <3>3, TallyStep
    <2> QED
      BY <2>1, <2>2
  <1>3. g = [n \in 0..Len(list) |->
               IF n = 0 THEN [passed |-> {}, failed |-> {}] ELSE Tally(g[n - 1], list[n])]
    <2>1. g = [n \in 0..Len(list) |-> g[n]]
      OBVIOUS
    <2> HIDE DEF g
    <2> QED
      BY <2>1, <1>2
  <1> HIDE DEF g
  <1> QED
    BY <1>3

\* "accepts only when every required check has a passing signal ... a failure
\* anywhere for a check makes that check fail": the loop of AllPassChecklist.Reduce
\* computes this of every list of signals, in whatever order they came.
THEOREM ChecklistKeepsItsPromise ==
    ASSUME NEW required, NEW list, Readable(list)
    PROVE  ChecklistAsPromised(required, list)
  <1> DEFINE Rec(f) == f = [n \in 0..Len(list) |->
                  IF n = 0 THEN [passed |-> {}, failed |-> {}] ELSE Tally(f[n - 1], list[n])]
             tally == CHOOSE f : Rec(f)
             last == Len(list)
             total == tally[last]
  <1>1. Rec(tally)
    <2>1. \E f : Rec(f)
      BY TallyExists
    <2> HIDE DEF Rec
    <2> QED
      BY <2>1
  <1>2. total = Total(list, last)
    <2>1. last \in 0..Len(list)
      BY DEF Readable
    <2> HIDE DEF tally
    <2> QED
      BY <2>1, <1>1, TallyIsTotal
  <1>3. AllPassChecklist(required, list) =
          CASE required = {} -> "escalate"
            [] required # {} /\ required \subseteq total.passed \ total.failed -> "accept"
            [] OTHER -> "reject"
    BY DEF AllPassChecklist
  <1> HIDE DEF total
  <1>4. AllPassChecklist(required, list) = "accept" <=>
          required # {} /\ required \subseteq total.passed \ total.failed
    <2>1. CASE required = {}
      BY <1>3, <2>1
    <2>2. CASE required # {} /\ required \subseteq total.passed \ total.failed
      BY <1>3, <2>2
    <2>3. CASE required # {} /\ ~(required \subseteq total.passed \ total.failed)
      BY <1>3, <2>3
    <2> QED
      BY <2>1, <2>2, <2>3
  <1>5. total.passed \ total.failed = Voted(list, last, "pass") \ Voted(list, last, "fail")
    BY <1>2 DEF Total
  <1>6. \A k : k \in Voted(list, last, "pass") \ Voted(list, last, "fail")
                 <=> Satisfied(k, list)
    BY DEF Voted, Satisfied
  <1> QED
    BY <1>4, <1>5, <1>6 DEF ChecklistAsPromised

-----------------------------------------------------------------------------
(* Votes and scores                                                        *)

\* Signals that the reducers can read.
Signalling(S) == \A s \in S : s.pass \in {"pass", "fail", Absent} /\ s.score \in Int

\* The positions of a list, two of them exchanged.
Swap(m, n, x) == IF x = m THEN n ELSE IF x = n THEN m ELSE x

LEMMA ExchangedIs ==
    ASSUME NEW S, NEW list \in Seq(S), NEW m \in 1..Len(list), NEW n \in 1..Len(list)
    PROVE  /\ Exchanged(list, m, n) \in Seq(S) /\ Len(Exchanged(list, m, n)) = Len(list)
           /\ \A x \in 1..Len(list) : Exchanged(list, m, n)[x] = list[Swap(m, n, x)]
  BY DEF Exchanged, Swap

LEMMA SwapSwaps ==
    ASSUME NEW L \in Nat, NEW m \in 1..L, NEW n \in 1..L
    PROVE  \A x \in 1..L : Swap(m, n, x) \in 1..L /\ Swap(m, n, Swap(m, n, x)) = x
  BY DEF Swap

\* Positions of a list, and the same ones once two signals have changed places.
Mirrored(L, m, n, A, B) ==
    /\ L \in Nat /\ m \in 1..L /\ n \in 1..L
    /\ A \subseteq 1..L /\ B \subseteq 1..L
    /\ \A x \in 1..L : x \in B <=> Swap(m, n, x) \in A

\* As many positions of a list have a property as of the list with two exchanged.
LEMMA SwapCounts ==
    ASSUME NEW L, NEW m, NEW n, NEW A, NEW B, Mirrored(L, m, n, A, B)
    PROVE  Cardinality(A) = Cardinality(B) /\ (A = {} <=> B = {})
  <1>0. /\ L \in Nat /\ m \in 1..L /\ n \in 1..L /\ A \subseteq 1..L /\ B \subseteq 1..L
        /\ \A x \in 1..L : x \in B <=> Swap(m, n, x) \in A
    BY DEF Mirrored
  <1> USE <1>0
  <1> DEFINE f == [x \in A |-> Swap(m, n, x)]
  <1>1. IsFiniteSet(A)
    <2>1. IsFiniteSet(1..L)
      BY FS_Interval
    <2> QED
      BY <2>1, FS_Subset
  <1>2. \A x \in A : Swap(m, n, x) \in B
    <2> SUFFICES ASSUME NEW x \in A PROVE Swap(m, n, x) \in B
      OBVIOUS
    <2>1. x \in 1..L
      OBVIOUS
    <2>2. Swap(m, n, x) \in 1..L /\ Swap(m, n, Swap(m, n, x)) = x
      BY <2>1, SwapSwaps
    <2> QED
      BY <2>2
  <1>3. \A x \in B : Swap(m, n, x) \in A
    OBVIOUS
  <1>4. f \in Bijection(A, B)
    <2>1. f \in [A -> B]
      BY <1>2
    <2>2. \A x, y \in A : f[x] = f[y] => x = y
      <3>1. \A x \in A : Swap(m, n, f[x]) = x
        BY SwapSwaps
      <3> HIDE DEF f
      <3> QED
        BY <3>1
    <2>3. \A y \in B : \E x \in A : f[x] = y
      <3> SUFFICES ASSUME NEW y \in B PROVE \E x \in A : f[x] = y
        OBVIOUS
      <3>1. Swap(m, n, y) \in A /\ f[Swap(m, n, y)] = y
        BY <1>3, SwapSwaps
      <3> QED
        BY <3>1
    <2> HIDE DEF f
    <2> QED
      BY <2>1, <2>2, <2>3, Fun_IsBij
  <1>5. ExistsBijection(A, B)
    BY <1>4 DEF ExistsBijection
  <1>6. Cardinality(A) = Cardinality(B)
    BY <1>1, <1>5, FS_Bijection
  <1> QED
    BY <1>2, <1>3, <1>6

\* Two lists with as many votes of each sort and as many scores.
Alike(kind, list, other) ==
    /\ Votes(kind, other) = {} <=> Votes(kind, list) = {}
    /\ \A vote : Count(vote, kind, other) = Count(vote, kind, list)
    /\ Scored(kind, other) = {} <=> Scored(kind, list) = {}
    /\ Cardinality(Scored(kind, other)) = Cardinality(Scored(kind, list))

LEMMA VotesExchange ==
    ASSUME NEW S, NEW list \in Seq(S), NEW m \in 1..Len(list), NEW n \in 1..Len(list), NEW kind
    PROVE  Alike(kind, list, Exchanged(list, m, n))
  <1> DEFINE other == Exchanged(list, m, n)
             L == Len(list)
  <1>1. /\ Len(other) = L /\ L \in Nat
        /\ \A x \in 1..L : other[x] = list[Swap(m, n, x)] /\ Swap(m, n, x) \in 1..L
    <2>1. L \in Nat /\ m \in 1..L /\ n \in 1..L
      OBVIOUS
    <2>2. \A x \in 1..L : Swap(m, n, x) \in 1..L
      BY <2>1, SwapSwaps
    <2> QED
      BY <2>1, <2>2, ExchangedIs
  <1> HIDE DEF other, L
  <1>0. m \in 1..L /\ n \in 1..L
    BY DEF L
  <1>2. Mirrored(L, m, n, Votes(kind, list), Votes(kind, other))
    BY <1>0, <1>1 DEF Votes, L, Mirrored
  <1>3. Mirrored(L, m, n, Scored(kind, list), Scored(kind, other))
    BY <1>0, <1>1 DEF Scored, L, Mirrored
  <1>4. ASSUME NEW vote PROVE Count(vote, kind, other) = Count(vote, kind, list)
    <2> DEFINE A == {x \in Votes(kind, list) : list[x].pass = vote}
               B == {x \in Votes(kind, other) : other[x].pass = vote}
    <2>1. Mirrored(L, m, n, A, B)
      BY <1>1, <1>2 DEF Mirrored
    <2>2. Count(vote, kind, other) = Cardinality(B) /\ Count(vote, kind, list) = Cardinality(A)
      BY DEF Count
    <2> HIDE DEF A, B
    <2>3. Cardinality(A) = Cardinality(B)
      BY <2>1, SwapCounts
    <2> QED
      BY <2>2, <2>3
  <1>5. Votes(kind, other) = {} <=> Votes(kind, list) = {}
    BY <1>2, SwapCounts
  <1>6. /\ Scored(kind, other) = {} <=> Scored(kind, list) = {}
        /\ Cardinality(Scored(kind, other)) = Cardinality(Scored(kind, list))
    BY <1>3, SwapCounts
  <1>7. Alike(kind, list, other)
    BY <1>4, <1>5, <1>6, Zenon DEF Alike
  <1> QED
    BY <1>7 DEF other

\* A function of prefixes: f[n] is the sum of the first n weights.
Summing(f, L, w) == f = [n \in 0..L |-> IF n = 0 THEN 0 ELSE f[n - 1] + w[n]]

LEMMA SumExists ==
    ASSUME NEW L \in Nat, NEW w \in [1..L -> Int]
    PROVE  \E f : Summing(f, L, w)
  <1> DEFINE Sums(f, k) == /\ f \in [0..k -> Int] /\ f[0] = 0
                           /\ \A n \in 1..k : f[n] = f[n - 1] + w[n]
             Bad == {k \in 0..L : ~\E f : Sums(f, k)}
  <1>1. Bad = {}
    <2> SUFFICES ASSUME Bad # {} PROVE FALSE
      OBVIOUS
    <2>1. PICK k \in Bad : \A other \in Bad : k =< other
      <3>1. Bad \in SUBSET Nat
        OBVIOUS
      <3> HIDE DEF Bad
      <3> QED
        BY <3>1, LeastExists
    <2>2. k # 0
      <3>1. Sums([n \in 0..0 |-> 0], 0)
        OBVIOUS
      <3> HIDE DEF Sums
      <3> QED
        BY <2>1, <3>1
    <2>3. k \in 1..L /\ k - 1 \in 0..L /\ ~(k =< k - 1)
      BY <2>1, <2>2
    <2>4. PICK f : Sums(f, k - 1)
      <3>1. k - 1 \notin Bad
        BY <2>1, <2>3
      <3> HIDE DEF Sums
      <3> QED
        BY <2>3, <3>1
    <2> DEFINE g == [n \in 0..k |-> IF n = k THEN f[k - 1] + w[k] ELSE f[n]]
    <2>5. Sums(g, k)
      <3>1. k \in Nat /\ k - 1 \in Nat /\ f \in [0..k-1 -> Int] /\ w[k] \in Int
        BY <2>3, <2>4
      <3>2. g \in [0..k -> Int]
        <4> SUFFICES ASSUME NEW n \in 0..k PROVE g[n] \in Int
          OBVIOUS
        <4>1. n = k \/ n \in 0..k-1
          BY <3>1
        <4> QED
          BY <3>1, <4>1
      <3>3. g[0] = 0
        BY <2>3, <2>4, <3>1
      <3>4. ASSUME NEW n \in 1..k
            PROVE  g[n] = g[n - 1] + w[n]
        <4>1. CASE n = k
          BY <3>1, <2>3, <4>1
        <4>2. CASE n # k
          <5>1. n \in 1..k-1 /\ n - 1 # k /\ n \in 0..k /\ n - 1 \in 0..k
            BY <3>1, <4>2
          <5>2. g[n] = f[n] /\ g[n - 1] = f[n - 1]
            BY <4>2, <5>1
          <5> QED
            BY <2>4, <5>1, <5>2
        <4> QED
          BY <4>1, <4>2
      <3> QED
        BY <3>2, <3>3, <3>4
    <2>6. \E h : Sums(h, k)
      <3> HIDE DEF Sums, g
      <3> QED
        BY <2>5
    <2> HIDE DEF Sums
    <2> QED
      BY <2>1, <2>6
  <1>2. PICK f : Sums(f, L)
    <2>1. L \in 0..L
      OBVIOUS
    <2> HIDE DEF Sums
    <2> QED
      BY <1>1, <2>1
  <1>3. Summing(f, L, w)
    <2>1. f = [n \in 0..L |-> f[n]]
      BY <1>2
    <2>2. \A n \in 0..L : f[n] = IF n = 0 THEN 0 ELSE f[n - 1] + w[n]
      BY <1>2
    <2> QED
      BY <2>1, <2>2 DEF Summing
  <1> QED
    BY <1>3

\* Weights, and the same ones once two of them have changed places.
Reweighed(L, m, n, w, v) ==
    /\ L \in Nat /\ m \in 1..L /\ n \in 1..L
    /\ w \in [1..L -> Int] /\ v \in [1..L -> Int]
    /\ \A x \in 1..L : v[x] = w[Swap(m, n, x)]

\* Exchanging two weights m < n shifts the sums between them and no others.
LEMMA SumExchange ==
    ASSUME NEW L, NEW m, NEW n, NEW w, NEW v, Reweighed(L, m, n, w, v), m <= n,
           NEW f, Summing(f, L, w), NEW g, Summing(g, L, v)
    PROVE  f[L] = g[L]
  <1>0. /\ L \in Nat /\ m \in 1..L /\ n \in 1..L
        /\ w \in [1..L -> Int] /\ v \in [1..L -> Int]
        /\ \A x \in 1..L : v[x] = w[Swap(m, n, x)]
    BY DEF Reweighed
  <1> USE <1>0
  <1> DEFINE Shift(k) == IF m <= k /\ k < n THEN w[n] - w[m] ELSE 0
             Good(k) == f[k] \in Int /\ g[k] = f[k] + Shift(k)
             Bad == {k \in 0..L : ~Good(k)}
  <1>1. /\ \A k \in 1..L : f[k] = f[k - 1] + w[k] /\ g[k] = g[k - 1] + v[k]
        /\ f[0] = 0 /\ g[0] = 0
    <2>1. /\ \A k \in 0..L : f[k] = IF k = 0 THEN 0 ELSE f[k - 1] + w[k]
          /\ \A k \in 0..L : g[k] = IF k = 0 THEN 0 ELSE g[k - 1] + v[k]
      BY DEF Summing
    <2>2. \A k \in 1..L : k \in 0..L /\ k # 0
      OBVIOUS
    <2>3. 0 \in 0..L
      OBVIOUS
    <2> QED
      BY <2>1, <2>2, <2>3
  <1>2. Bad = {}
    <2> SUFFICES ASSUME Bad # {} PROVE FALSE
      OBVIOUS
    <2>1. PICK k \in Bad : \A other \in Bad : k =< other
      <3>1. Bad \in SUBSET Nat
        OBVIOUS
      <3> HIDE DEF Bad
      <3> QED
        BY <3>1, LeastExists
    <2>2. k # 0
      <3>1. Good(0)
        BY <1>1
      <3> HIDE DEF Good
      <3> QED
        BY <2>1, <3>1
    <2>3. k \in 1..L /\ k - 1 \in 0..L /\ ~(k =< k - 1)
      BY <2>1, <2>2
    <2>4. Good(k - 1)
      <3>1. k - 1 \notin Bad
        BY <2>1, <2>3
      <3> HIDE DEF Good
      <3> QED
        BY <2>3, <3>1
    <2>5. /\ f[k] = f[k - 1] + w[k] /\ g[k] = g[k - 1] + v[k]
          /\ f[k - 1] \in Int /\ g[k - 1] = f[k - 1] + Shift(k - 1)
          /\ w[k] \in Int /\ w[m] \in Int /\ w[n] \in Int /\ v[k] = w[Swap(m, n, k)]
      BY <1>1, <2>3, <2>4
    <2>6. Shift(k - 1) + v[k] = w[k] + Shift(k)
      <3>1. CASE k = m /\ m = n
        BY <2>3, <2>5, <3>1 DEF Swap
      <3>2. CASE k = m /\ m < n
        BY <2>3, <2>5, <3>2 DEF Swap
      <3>3. CASE k = n /\ m < n
        BY <2>3, <2>5, <3>3 DEF Swap
      <3>4. CASE k # n /\ k # m
        BY <2>3, <2>5, <3>4 DEF Swap
      <3> QED
        BY <3>1, <3>2, <3>3, <3>4
    <2>7. Shift(k - 1) \in Int /\ Shift(k) \in Int /\ v[k] \in Int
      <3> HIDE DEF Good
      <3>1. w[n] - w[m] \in Int /\ v[k] \in Int
        BY <2>3, <2>5
      <3> QED
        BY <3>1
    <2>8. Good(k)
      <3> HIDE DEF Shift, Good, Bad
      <3>1. f[k] \in Int /\ g[k] = f[k] + Shift(k)
        <4>1. g[k] = (f[k - 1] + Shift(k - 1)) + v[k] /\ f[k] = f[k - 1] + w[k]
          BY <2>5
        <4>2. f[k - 1] \in Int /\ w[k] \in Int
          BY <2>5
        <4> DEFINE a == f[k - 1]
                   b == w[k]
                   c == Shift(k - 1)
                   d == v[k]
                   e == Shift(k)
        <4>3. a \in Int /\ b \in Int /\ c \in Int /\ d \in Int /\ e \in Int /\ c + d = b + e
          BY <4>2, <2>6, <2>7
        <4> HIDE DEF a, b, c, d, e
        <4>4. a + b \in Int /\ (a + c) + d = (a + b) + e
          BY <4>3
        <4> QED
          BY <4>1, <4>4 DEF a, b, c, d, e
      <3> QED
        BY <3>1 DEF Good
    <2> HIDE DEF Good
    <2> QED
      BY <2>1, <2>8
  <1>3. Good(L)
    <2>1. L \in 0..L /\ L \notin Bad
      BY <1>2
    <2> HIDE DEF Good
    <2> QED
      BY <2>1
  <1>4. Shift(L) = 0
    OBVIOUS
  <1> HIDE DEF Shift
  <1> QED
    BY <1>3, <1>4

\* Votes of a list are cast, for or against (Votes, MajorityVote, Unanimous).
LEMMA BallotsExchange ==
    ASSUME NEW S, NEW list \in Seq(S), NEW m \in 1..Len(list), NEW n \in 1..Len(list), NEW kind
    PROVE  /\ MajorityVote(kind, Exchanged(list, m, n)) = MajorityVote(kind, list)
           /\ Unanimous(kind, Exchanged(list, m, n)) = Unanimous(kind, list)
  <1>1. /\ Count("pass", kind, Exchanged(list, m, n)) = Count("pass", kind, list)
        /\ Count("fail", kind, Exchanged(list, m, n)) = Count("fail", kind, list)
        /\ Votes(kind, Exchanged(list, m, n)) = {} <=> Votes(kind, list) = {}
    <2>1. Alike(kind, list, Exchanged(list, m, n))
      BY VotesExchange
    <2> QED
      BY <2>1, Zenon DEF Alike
  <1>2. MajorityVote(kind, Exchanged(list, m, n)) = MajorityVote(kind, list)
    BY <1>1, Zenon DEF MajorityVote
  <1>3. Unanimous(kind, Exchanged(list, m, n)) = Unanimous(kind, list)
    BY <1>1 DEF Unanimous
  <1> QED
    BY <1>2, <1>3

\* A unanimous vote has a majority (Unanimous, MajorityVote).
LEMMA UnanimousIsMajority ==
    ASSUME NEW S, Signalling(S), NEW list \in Seq(S), NEW kind, Unanimous(kind, list) = "accept"
    PROVE  MajorityVote(kind, list) = "accept"
  <1> DEFINE P == {n \in Votes(kind, list) : list[n].pass = "pass"}
             F == {n \in Votes(kind, list) : list[n].pass = "fail"}
             pass == Cardinality(P)
             fail == Cardinality(F)
  <1>1. Count("pass", kind, list) = pass /\ Count("fail", kind, list) = fail
    BY DEF Count
  <1>2. IsFiniteSet(P) /\ IsFiniteSet(F)
    <2>1. IsFiniteSet(1..Len(list)) /\ P \subseteq 1..Len(list) /\ F \subseteq 1..Len(list)
      BY FS_Interval DEF Votes
    <2> HIDE DEF P, F
    <2> QED
      BY <2>1, FS_Subset
  <1>3. Votes(kind, list) = P \union F
    <2> SUFFICES ASSUME NEW n \in Votes(kind, list) PROVE list[n].pass \in {"pass", "fail"}
      OBVIOUS
    <2>1. n \in 1..Len(list) /\ list[n].pass # Absent /\ list[n] \in S
      BY DEF Votes
    <2> QED
      BY <2>1 DEF Signalling
  <1>4. Votes(kind, list) # {} /\ ~(fail > 0)
    <2>1. CASE Votes(kind, list) = {}
      BY <2>1 DEF Unanimous
    <2>2. CASE Votes(kind, list) # {} /\ Count("fail", kind, list) > 0
      BY <2>2 DEF Unanimous
    <2> HIDE DEF fail
    <2> QED
      BY <1>1, <2>1, <2>2
  <1> HIDE DEF P, F
  <1>5. pass \in Nat /\ fail \in Nat /\ (pass = 0 <=> P = {}) /\ (fail = 0 <=> F = {})
    BY <1>2, FS_CardinalityType, FS_EmptySet
  <1>6. fail = 0 /\ pass # 0
    <2> HIDE DEF pass, fail
    <2>1. fail = 0
      BY <1>4, <1>5
    <2> QED
      BY <2>1, <1>3, <1>4, <1>5
  <1>7. pass * 2 > pass + fail
    <2> HIDE DEF pass, fail
    <2> QED
      BY <1>5, <1>6
  <1>8. MajorityVote(kind, list) =
          CASE pass * 2 > pass + fail -> "accept"
            [] fail * 2 > pass + fail -> "reject"
            [] OTHER -> "escalate"
    BY <1>1, Zenon DEF MajorityVote
  <1>9. ~(fail * 2 > pass + fail)
    <2> HIDE DEF pass, fail
    <2> QED
      BY <1>5, <1>6
  <1> HIDE DEF pass, fail
  <1> QED
    BY <1>7, <1>8, <1>9

\* What a signal adds to the sum of the scores, and the sums of Threshold.Reduce.
Weight(kind, list) ==
    [n \in 1..Len(list) |-> IF n \in Scored(kind, list) THEN list[n].score ELSE 0]
Weighed(f, kind, list) ==
    f = [n \in 0..Len(list) |->
            IF n = 0 THEN 0
            ELSE f[n - 1] + (IF n \in Scored(kind, list) THEN list[n].score ELSE 0)]
Sums(kind, list) == CHOOSE f : Weighed(f, kind, list)

LEMMA SumsAreSums ==
    ASSUME NEW S, Signalling(S), NEW list \in Seq(S), NEW kind
    PROVE  /\ Weight(kind, list) \in [1..Len(list) -> Int]
           /\ Summing(Sums(kind, list), Len(list), Weight(kind, list))
  <1> DEFINE L == Len(list)
             w == Weight(kind, list)
  <1>1. L \in Nat /\ \A n \in 1..L : list[n] \in S
    OBVIOUS
  <1>2. \A n \in 1..L : list[n].score \in Int
    BY <1>1 DEF Signalling
  <1>3. w \in [1..L -> Int]
    BY <1>2 DEF Weight
  <1>4. \A n \in 0..L : n # 0 =>
            n \in 1..L /\ w[n] = (IF n \in Scored(kind, list) THEN list[n].score ELSE 0)
    BY <1>1 DEF Weight
  <1>5. \A f : Weighed(f, kind, list) <=> Summing(f, L, w)
    BY <1>4 DEF Weighed, Summing
  <1>6. \E f : Summing(f, L, w)
    <2> HIDE DEF L, w
    <2> QED
      BY <1>1, <1>3, SumExists
  <1>7. Weighed(Sums(kind, list), kind, list)
    BY <1>5, <1>6 DEF Sums
  <1> QED
    BY <1>3, <1>5, <1>7

\* The mean score, and with it what Threshold decides, in another order.
LEMMA ThresholdExchange ==
    ASSUME NEW S, Signalling(S), NEW list \in Seq(S),
           NEW m \in 1..Len(list), NEW n \in 1..Len(list), NEW kind, NEW accept
    PROVE  Threshold(kind, accept, Exchanged(list, m, n)) = Threshold(kind, accept, list)
  <1> DEFINE other == Exchanged(list, m, n)
             L == Len(list)
             w == Weight(kind, list)
             v == Weight(kind, other)
             f == Sums(kind, list)
             g == Sums(kind, other)
  <1>1. /\ L \in Nat /\ m \in 1..L /\ n \in 1..L /\ other \in Seq(S) /\ Len(other) = L
        /\ \A x \in 1..L : other[x] = list[Swap(m, n, x)]
    BY ExchangedIs
  <1>2. \A x \in 1..L : Swap(m, n, x) \in 1..L /\ Swap(m, n, x) = Swap(n, m, x)
    BY <1>1 DEF Swap
  <1>3. Alike(kind, list, other)
    BY VotesExchange
  <1> HIDE DEF other
  <1>4. \A x \in 1..L : v[x] = w[Swap(m, n, x)]
    BY <1>1, <1>2 DEF Weight, Scored
  <1>5. w \in [1..L -> Int] /\ Summing(f, L, w)
    BY <1>1, SumsAreSums
  <1>6. v \in [1..L -> Int] /\ Summing(g, L, v)
    <2>1. v \in [1..Len(other) -> Int] /\ Summing(g, Len(other), v)
      BY <1>1, SumsAreSums
    <2> QED
      BY <1>1, <2>1
  <1> HIDE DEF L, w, v, f, g
  <1>7. f[L] = g[L]
    <2>1. CASE m <= n
      <3>1. Reweighed(L, m, n, w, v)
        BY <1>1, <1>4, <1>5, <1>6 DEF Reweighed
      <3> QED
        BY <1>5, <1>6, <2>1, <3>1, SumExchange
    <2>2. CASE n <= m
      <3>1. Reweighed(L, n, m, w, v)
        BY <1>1, <1>2, <1>4, <1>5, <1>6 DEF Reweighed
      <3> QED
        BY <1>5, <1>6, <2>2, <3>1, SumExchange
    <2> QED
      BY <1>1, <2>1, <2>2
  <1>8. Threshold(kind, accept, list) =
            CASE Scored(kind, list) = {} -> "escalate"
              [] Scored(kind, list) # {} /\ f[L] >= accept * Cardinality(Scored(kind, list)) -> "accept"
              [] OTHER -> "reject"
    BY DEF Threshold, Sums, Weighed, f, L
  <1>9. Threshold(kind, accept, other) =
            CASE Scored(kind, other) = {} -> "escalate"
              [] Scored(kind, other) # {} /\ g[L] >= accept * Cardinality(Scored(kind, other)) -> "accept"
              [] OTHER -> "reject"
    <2>1. Threshold(kind, accept, other) =
            CASE Scored(kind, other) = {} -> "escalate"
              [] Scored(kind, other) # {} /\ g[Len(other)] >= accept * Cardinality(Scored(kind, other)) -> "accept"
              [] OTHER -> "reject"
      BY DEF Threshold, Sums, Weighed, g
    <2> QED
      BY <1>1, <2>1
  <1> QED
    BY <1>3, <1>7, <1>8, <1>9 DEF Alike, other

\* "stable under signal reordering": whatever signals there are and however many,
\* what the votes and the mean score decide stays when any two of them change
\* places, and unanimity is the stricter vote (MajorityVote, Unanimous, Threshold).
THEOREM ReducersAreOrderFree ==
    ASSUME NEW S, Signalling(S), NEW list \in Seq(S), NEW kind, NEW accept
    PROVE  OrderFree(kind, accept, list)
  <1>1. \A m, n \in 1..Len(list) :
            /\ MajorityVote(kind, Exchanged(list, m, n)) = MajorityVote(kind, list)
            /\ Unanimous(kind, Exchanged(list, m, n)) = Unanimous(kind, list)
            /\ Threshold(kind, accept, Exchanged(list, m, n)) = Threshold(kind, accept, list)
    BY BallotsExchange, ThresholdExchange
  <1>2. Unanimous(kind, list) = "accept" => MajorityVote(kind, list) = "accept"
    BY UnanimousIsMajority
  <1> QED
    BY <1>1, <1>2 DEF OrderFree

-----------------------------------------------------------------------------
(* Verdicts                                                                *)

\* Among attempts there is a highest one that is the last of its kind.
Best(a, k, n) == \A m \in 1..k : a[m] < a[n] \/ (a[m] = a[n] /\ m <= n)

LEMMA BestExtends ==
    ASSUME NEW a, NEW k \in Nat, 1 < k, \A m \in 1..k : a[m] \in Nat,
           NEW n \in 1..k-1, Best(a, k - 1, n)
    PROVE  \E x \in 1..k : Best(a, k, x)
  <1>1. 1..k = (1..k-1) \union {k} /\ n \in 1..k /\ k \in 1..k
    BY UpTo
  <1>2. a[n] \in Nat /\ a[k] \in Nat
    BY <1>1
  <1>3. CASE a[k] < a[n]
    <2>1. Best(a, k, n)
      BY <1>1, <1>3 DEF Best
    <2> QED
      BY <1>1, <2>1
  <1>4. CASE ~(a[k] < a[n])
    <2>1. ASSUME NEW m \in 1..k
          PROVE  a[m] < a[k] \/ (a[m] = a[k] /\ m <= k)
      <3>1. CASE m = k
        BY <3>1
      <3>2. CASE m # k
        <4>1. m <= k /\ a[m] \in Nat /\ (a[m] < a[n] \/ a[m] = a[n])
          BY <1>1, <3>2 DEF Best
        <4>2. \A x, y, z \in Nat : (x < y \/ x = y) /\ ~(z < y) => x < z \/ x = z
          OBVIOUS
        <4> QED
          BY <1>2, <1>4, <4>1, <4>2
      <3> QED
        BY <3>1, <3>2
    <2> QED
      BY <1>1, <2>1 DEF Best
  <1> QED
    BY <1>3, <1>4

LEMMA BestExists ==
    ASSUME NEW a, NEW N \in Nat, N # 0, \A m \in 1..N : a[m] \in Nat
    PROVE  \E n \in 1..N : Best(a, N, n)
  <1> DEFINE Has(k) == \E n \in 1..k : Best(a, k, n)
             Bad == {k \in 1..N : ~Has(k)}
  <1> SUFFICES ASSUME ~Has(N) PROVE FALSE
    OBVIOUS
  <1>1. Bad \in SUBSET Nat /\ N \in Bad
    OBVIOUS
  <1>2. PICK k \in Bad : \A other \in Bad : k =< other
    <2> HIDE DEF Bad
    <2> QED
      BY <1>1, LeastExists
  <1>3. k \in 1..N /\ ~Has(k)
    BY <1>2
  <1>4. k # 1
    <2>1. Has(1)
      BY DEF Best
    <2> HIDE DEF Has
    <2> QED
      BY <1>3, <2>1
  <1> HIDE DEF Has
  <1>5. k \in Nat /\ 1 < k /\ k <= N /\ k - 1 \in 1..N /\ ~(k =< k - 1)
    BY <1>3, <1>4
  <1>6. Has(k - 1)
    <2>1. k - 1 \notin Bad
      BY <1>2, <1>5
    <2> QED
      BY <1>5, <2>1
  <1>7. PICK n \in 1..k-1 : Best(a, k - 1, n)
    BY <1>6 DEF Has
  <1>8. \A m \in 1..k : a[m] \in Nat
    BY <1>5
  <1> QED
    BY <1>3, <1>5, <1>7, <1>8, BestExtends DEF Has

\* The last verdict on record is on record: there is one of the highest attempt,
\* and among those a last one (latestConvergenceVerdict).
LEMMA LatestOnRecord ==
    ASSUME ShapesOK, NEW i \in Id
    PROVE  /\ Latest(i) \in Verdict \union {NoVerdict}
           /\ Latest(i) # NoVerdict => OnRecord(i, Latest(i)) /\ Latest(i) \in Verdict
  <1> DEFINE v == verdicts[i]
             a == [n \in 1..Len(v) |-> v[n].attempt]
             best == {n \in 1..Len(v) : \A m \in 1..Len(v) :
                   v[m].attempt < v[n].attempt \/ (v[m].attempt = v[n].attempt /\ m <= n)}
  <1>1. v \in Seq(Verdict) /\ Len(v) \in Nat /\ \A n \in 1..Len(v) : v[n] \in Verdict
    BY DEF ShapesOK
  <1>2. \A n \in 1..Len(v) : a[n] \in Nat
    BY <1>1 DEF Verdict
  <1>3. CASE v = <<>>
    BY <1>3 DEF Latest
  <1>4. CASE v # <<>>
    <2>1. Len(v) # 0
      BY <1>1, <1>4
    <2>2. best # {}
      <3> HIDE DEF a
      <3>1. PICK n \in 1..Len(v) : Best(a, Len(v), n)
        BY <1>1, <1>2, <2>1, BestExists
      <3>2. \A m \in 1..Len(v) : a[m] < a[n] \/ (a[m] = a[n] /\ m <= n)
        BY <3>1 DEF Best
      <3>3. \A m \in 1..Len(v) : a[m] = v[m].attempt
        BY DEF a
      <3> QED
        BY <3>2, <3>3
    <2>3. Latest(i) = v[CHOOSE n \in best : TRUE]
      BY <1>4 DEF Latest
    <2>4. (CHOOSE n \in best : TRUE) \in best
      <3> HIDE DEF best
      <3> QED
        BY <2>2
    <2>5. (CHOOSE n \in best : TRUE) \in 1..Len(v)
      BY <2>4
    <2> HIDE DEF best
    <2> QED
      BY <1>1, <2>3, <2>5 DEF OnRecord
  <1> QED
    BY <1>3, <1>4

\* The reducers can read the signals of an item (convergenceSignalsForItem).
LEMMA SignalsReadable ==
    ASSUME ShapesOK, NEW i \in Id
    PROVE  SignalsFor(i) \in Seq(Signal) /\ Readable(SignalsFor(i))
  <1>1. SignalsFor(i) \in Seq(Signal)
    <2>1. signals[i] \in Seq(Signal)
      BY DEF ShapesOK, Signal
    <2>2. <<>> \in Seq(Signal) /\ <<ParentChecks(checks["item"])>> \in Seq(Signal)
      <3>1. checks["item"] \in BOOLEAN
        BY DEF ShapesOK, Id
      <3>2. ParentChecks(checks["item"]) \in Signal
        BY <3>1 DEF Signal
      <3> QED
        BY <3>2
    <2> QED
      BY <2>1, <2>2 DEF SignalsFor
  <1>2. \A s \in Signal : s.pass \in {"pass", "fail", Absent}
    BY WorkerAssumption DEF Signal, ParentChecks
  <1> QED
    BY <1>1, <1>2 DEF Readable

\* A verdict that accepts is backed by the signals it is on (convergence.Run).
LEMMA RunIsBacked ==
    ASSUME ShapesOK, NEW i \in Id
    PROVE  Run(i) \in Verdict /\ Backed(i, Run(i))
  <1>1. SignalsFor(i) \in Seq(Signal) /\ Readable(SignalsFor(i))
    BY SignalsReadable
  <1>3. AllPassChecklist(Required(i), SignalsFor(i)) \in Disposition
    BY DEF AllPassChecklist, Disposition
  <1>4. AllPassChecklist(Required(i), SignalsFor(i)) = "accept" =>
            \A k \in Required(i) : Satisfied(k, SignalsFor(i))
    BY <1>1, ChecklistKeepsItsPromise DEF ChecklistAsPromised
  <1>5. Latest(i).attempt \in Nat
    BY LatestOnRecord DEF Verdict, NoVerdict
  <1> QED
    BY <1>1, <1>3, <1>4, <1>5 DEF Run, Verdict, Backed

-----------------------------------------------------------------------------
(* What a worker holds                                                     *)

\* DecisionsOK and BreachesOK of one worker, on given states, epochs and verdicts.
Seen(r, st, ep) == r.epoch <= ep[r.id] /\ (st[r.id] \in Terminal => r.epoch < ep[r.id])
Holds(i, v, vs) == \E n \in 1..Len(vs[i]) : vs[i][n] = v
DecisionSafe(s, vs) ==
    s.pass = "convergence" /\ s.step \in {"verdict", "act"} =>
        /\ s.decision.verdict \in Verdict /\ Backed(s.row.id, s.decision.verdict)
        /\ s.decision.outcome = "accept" => s.decision.verdict.disposition = "accept"
        /\ s.step = "act" => Holds(s.row.id, s.decision.verdict, vs)
BreachSafe(s, st, ep) ==
    s.pass = "breach" =>
        /\ \A r \in s.todo : Seen(r, st, ep)
        /\ s.step = "route" => Seen(s.row, st, ep)
Safe(s, st, ep, vs) == s \in ScanState /\ DecisionSafe(s, vs) /\ BreachSafe(s, st, ep)

\* States and epochs go on, and an item that ends is in a new epoch; verdicts stay.
Advance(st, ep, st2, ep2) ==
    \A i \in Id : /\ ep[i] \in Nat /\ ep2[i] \in Nat /\ ep[i] <= ep2[i]
                  /\ st2[i] \in Terminal /\ st[i] \notin Terminal => ep[i] < ep2[i]
Grow(vs, vs2) == \A i \in Id : \A v : Holds(i, v, vs) => Holds(i, v, vs2)

\* A row of the breach pass that was good stays so.
LEMMA SeenStays ==
    ASSUME NEW st, NEW ep, NEW st2, NEW ep2, Advance(st, ep, st2, ep2),
           NEW r \in AnyRow, Seen(r, st, ep)
    PROVE  Seen(r, st2, ep2)
  <1>1. r.id \in Id /\ r.epoch \in Nat
    BY DEF AnyRow
  <1>2. /\ ep[r.id] \in Nat /\ ep2[r.id] \in Nat /\ ep[r.id] <= ep2[r.id]
        /\ st2[r.id] \in Terminal /\ st[r.id] \notin Terminal => ep[r.id] < ep2[r.id]
    BY <1>1 DEF Advance
  <1> QED
    BY <1>1, <1>2 DEF Seen

\* What a worker holds stays good while the items and the record go on.
LEMMA SafeStays ==
    ASSUME NEW st, NEW ep, NEW vs, NEW st2, NEW ep2, NEW vs2,
           Advance(st, ep, st2, ep2), Grow(vs, vs2), NEW s, Safe(s, st, ep, vs)
    PROVE  Safe(s, st2, ep2, vs2)
  <1>1. s \in ScanState /\ s.row \in AnyRow /\ s.todo \subseteq AnyRow /\ s.row.id \in Id
    BY DEF Safe, ScanState, AnyRow
  <1>2. DecisionSafe(s, vs2)
    BY <1>1 DEF Safe, DecisionSafe, Grow
  <1>3. BreachSafe(s, st2, ep2)
    BY <1>1, SeenStays DEF Safe, BreachSafe
  <1> QED
    BY <1>1, <1>2, <1>3 DEF Safe

\* What a worker holds between two rows.
LEMMA NoRowIsRow == NoRow \in AnyRow
  BY DEF NoRow, AnyRow, Id, State

LEMMA NoStepIsDecision ==
    NoStep \in [verdict : Verdict \union {NoVerdict}, outcome : Outcome]
  BY DEF NoStep, Outcome

\* Steps of a scan: the loop starts over; it comes back from a row; rows are skipped.
LEMMA IdleIsSafe ==
    ASSUME NEW st, NEW ep, NEW vs
    PROVE  Safe(Idle, st, ep, vs)
  <1>1. Idle \in ScanState
    BY NoRowIsRow, NoStepIsDecision DEF Idle, ScanState
  <1> QED
    BY <1>1 DEF Safe, DecisionSafe, BreachSafe, Idle

LEMMA DropIsSafe ==
    ASSUME NEW st, NEW ep, NEW vs, NEW s, Safe(s, st, ep, vs)
    PROVE  Safe([s EXCEPT !.row = NoRow, !.step = "next", !.decision = NoStep], st, ep, vs)
  <1> DEFINE new == [s EXCEPT !.row = NoRow, !.step = "next", !.decision = NoStep]
  <1>1. /\ new \in ScanState /\ new.pass = s.pass /\ new.todo = s.todo /\ new.step = "next"
    BY NoRowIsRow, NoStepIsDecision DEF Safe, ScanState
  <1> HIDE DEF new
  <1>2. Safe(new, st, ep, vs)
    BY <1>1 DEF Safe, DecisionSafe, BreachSafe
  <1> QED
    BY <1>2 DEF new

LEMMA SkipIsSafe ==
    ASSUME NEW st, NEW ep, NEW vs, NEW s, Safe(s, st, ep, vs), NEW rest \in SUBSET s.todo
    PROVE  Safe([s EXCEPT !.todo = rest], st, ep, vs)
  <1> DEFINE new == [s EXCEPT !.todo = rest]
  <1>1. /\ new \in ScanState /\ new.pass = s.pass /\ new.step = s.step /\ new.row = s.row
        /\ new.decision = s.decision /\ new.todo = rest
    BY DEF Safe, ScanState
  <1> HIDE DEF new
  <1>2. Safe(new, st, ep, vs)
    BY <1>1 DEF Safe, DecisionSafe, BreachSafe
  <1> QED
    BY <1>2 DEF new

-----------------------------------------------------------------------------
(* Frames: what a step that leaves most alone comes to                     *)

ItemsOK ==
    /\ state \in [Id -> State \union {"absent"}]
    /\ checks \in [Id -> BOOLEAN]
    /\ epoch \in [Id -> Nat]
    /\ due \in [Id -> BOOLEAN]
    /\ signals \in [Id -> Seq(Readings)]
    /\ job \in [Epoch -> JobState]

\* The invariant, worker by worker.
LEMMA ScansAreSafe ==
    ASSUME WorkerInv, NEW w \in Workers
    PROVE  Safe(scan[w], state, epoch, verdicts)
  <1>1. scan[w] \in ScanState
    BY DEF WorkerInv, ShapesOK
  <1>2. DecisionSafe(scan[w], verdicts)
    BY DEF WorkerInv, DecisionsOK, Deciding, OnRecord, DecisionSafe, Holds
  <1>3. BreachSafe(scan[w], state, epoch)
    BY DEF WorkerInv, BreachesOK, Observed, BreachSafe, Seen
  <1> QED
    BY <1>1, <1>2, <1>3 DEF Safe

\* The invariant from its parts, in the state after a step.
LEMMA Assembled ==
    ASSUME ItemsOK', verdicts' \in [Id -> Seq(Verdict)], closed' \in [Id -> Seq(Signal)],
           VerdictsOK', ClosedIsBacked', scan' \in [Workers -> ScanState],
           \A w \in Workers : Safe(scan'[w], state', epoch', verdicts')
    PROVE  WorkerInv'
  <1>1. ShapesOK'
    BY DEF ItemsOK, ShapesOK
  <1>2. DecisionsOK'
    BY DEF DecisionsOK, Deciding, OnRecord, Safe, DecisionSafe, Holds
  <1>3. BreachesOK'
    BY DEF BreachesOK, Observed, Safe, BreachSafe, Seen
  <1> QED
    BY <1>1, <1>2, <1>3 DEF WorkerInv

\* Items that stay or enter a state go on, and a record that is not written stays.
LEMMA StayAdvances ==
    ASSUME WorkerInv, UNCHANGED <<state, epoch>>
    PROVE  Advance(state, epoch, state', epoch')
  BY DEF WorkerInv, ShapesOK, Advance

LEMMA EnterAdvances ==
    ASSUME WorkerInv, NEW i \in Id, NEW to \in State, Enter(i, to)
    PROVE  /\ state' \in [Id -> State \union {"absent"}] /\ epoch' \in [Id -> Nat]
           /\ due' \in [Id -> BOOLEAN] /\ Advance(state, epoch, state', epoch')
  BY DEF WorkerInv, ShapesOK, Enter, Advance

LEMMA RecordStays ==
    ASSUME WorkerInv, UNCHANGED <<verdicts, closed>>
    PROVE  /\ VerdictsOK' /\ ClosedIsBacked' /\ Grow(verdicts, verdicts')
           /\ verdicts' \in [Id -> Seq(Verdict)] /\ closed' \in [Id -> Seq(Signal)]
  BY DEF WorkerInv, ShapesOK, VerdictsOK, ClosedIsBacked, Grow

\* Owners, agents, the clock and the launchers hold nothing of the workers.
LEMMA Quiet ==
    ASSUME WorkerInv, ItemsOK', Advance(state, epoch, state', epoch'),
           UNCHANGED <<verdicts, closed, scan>>
    PROVE  WorkerInv'
  <1>1. scan' \in [Workers -> ScanState]
    BY DEF WorkerInv, ShapesOK
  <1>2. ASSUME NEW w \in Workers
        PROVE  Safe(scan'[w], state', epoch', verdicts')
    BY ScansAreSafe, SafeStays, RecordStays
  <1> QED
    BY <1>1, <1>2, RecordStays, Assembled

\* One worker goes on to s.
LEMMA GoesOn ==
    ASSUME WorkerInv, Advance(state, epoch, state', epoch'), Grow(verdicts, verdicts'),
           NEW w \in Workers, NEW s, scan' = [scan EXCEPT ![w] = s],
           Safe(s, state', epoch', verdicts')
    PROVE  /\ scan' \in [Workers -> ScanState]
           /\ \A x \in Workers : Safe(scan'[x], state', epoch', verdicts')
  <1>1. scan \in [Workers -> ScanState] /\ s \in ScanState
    BY DEF WorkerInv, ShapesOK, Safe
  <1>2. ASSUME NEW x \in Workers
        PROVE  Safe(scan'[x], state', epoch', verdicts')
    <2>1. CASE x = w
      BY <1>1, <2>1
    <2>2. CASE x # w
      <3>1. scan'[x] = scan[x]
        BY <1>1, <2>2
      <3> QED
        BY <3>1, ScansAreSafe, SafeStays
    <2> QED
      BY <2>1, <2>2
  <1> QED
    BY <1>1, <1>2

\* So does the invariant, if nothing is recorded.
LEMMA Scanning ==
    ASSUME WorkerInv, ItemsOK', Advance(state, epoch, state', epoch'),
           UNCHANGED <<verdicts, closed>>,
           NEW w \in Workers, NEW s, scan' = [scan EXCEPT ![w] = s],
           Safe(s, state', epoch', verdicts')
    PROVE  WorkerInv'
  BY RecordStays, GoesOn, Assembled

\* The ways a scan goes on that every pass uses.
LEMMA ScanMoves ==
    ASSUME WorkerInv, Advance(state, epoch, state', epoch'), Grow(verdicts, verdicts'),
           NEW w \in Workers,
           \/ EndScan(w) \/ Drop(w)
           \/ \E rest \in SUBSET scan[w].todo : scan' = [scan EXCEPT ![w].todo = rest]
    PROVE  \E s : scan' = [scan EXCEPT ![w] = s] /\ Safe(s, state', epoch', verdicts')
  <1>1. scan \in [Workers -> ScanState] /\ Safe(scan[w], state', epoch', verdicts')
    BY ScansAreSafe, SafeStays DEF WorkerInv, ShapesOK
  <1>2. CASE EndScan(w)
    BY <1>2, IdleIsSafe DEF EndScan
  <1>3. CASE Drop(w)
    <2>1. scan' = [scan EXCEPT ![w] =
                     [scan[w] EXCEPT !.row = NoRow, !.step = "next", !.decision = NoStep]]
      BY <1>1, <1>3 DEF Drop, ScanState
    <2> QED
      BY <1>1, <2>1, DropIsSafe
  <1>4. ASSUME NEW rest \in SUBSET scan[w].todo, scan' = [scan EXCEPT ![w].todo = rest]
        PROVE  \E s : scan' = [scan EXCEPT ![w] = s] /\ Safe(s, state', epoch', verdicts')
    <2>1. scan' = [scan EXCEPT ![w] = [scan[w] EXCEPT !.todo = rest]]
      BY <1>1, <1>4 DEF ScanState
    <2> QED
      BY <1>1, <2>1, SkipIsSafe
  <1> QED
    BY <1>2, <1>3, <1>4

-----------------------------------------------------------------------------
(* Owners, agents, the clock and the launchers                             *)

LEMMA OwnersStep ==
    ASSUME WorkerInv,
           \/ \E m \in Moves : Move(m[1], m[2])
           \/ \E i \in Id, c \in BOOLEAN : WaveThrough(i, c)
           \/ \E i \in Id, s \in Readings : Report(i, s)
           \/ MarkReady
           \/ \E wellFormed \in BOOLEAN : ProposeChecks(wellFormed)
           \/ \E i \in Id : BudgetPasses(i)
    PROVE  WorkerInv'
  <1> DEFINE Goal == /\ ItemsOK' /\ Advance(state, epoch, state', epoch')
                     /\ UNCHANGED <<verdicts, closed, scan>>
  <1>0. ItemsOK
    BY DEF WorkerInv, ShapesOK, ItemsOK
  <1>1. ASSUME NEW m \in Moves, Move(m[1], m[2])
        PROVE  Goal
    <2>1. m[1] \in Id /\ m[2] \in State
      BY WorkerAssumption
    <2>2. Enter(m[1], m[2]) /\ UNCHANGED <<checks, signals, job, verdicts, closed, scan>>
      BY <1>1 DEF Move, inputVars, jobVars
    <2> QED
      BY <1>0, <2>1, <2>2, EnterAdvances DEF ItemsOK
  <1>2. ASSUME NEW i \in Id, NEW c \in BOOLEAN, WaveThrough(i, c)
        PROVE  Goal
    BY <1>0, <1>2, StayAdvances DEF WaveThrough, inputVars, jobVars, ItemsOK
  <1>3. ASSUME NEW i \in Id, NEW s \in Readings, Report(i, s)
        PROVE  Goal
    <2>1. signals' \in [Id -> Seq(Readings)]
      BY <1>0, <1>3 DEF Report, ItemsOK
    <2> QED
      BY <1>0, <1>3, <2>1, StayAdvances DEF Report, itemVars, jobVars, ItemsOK
  <1>4. ASSUME MarkReady
        PROVE  Goal
    BY <1>0, <1>4, StayAdvances DEF MarkReady, itemVars, jobVars, ItemsOK
  <1>5. ASSUME NEW wellFormed \in BOOLEAN, ProposeChecks(wellFormed)
        PROVE  Goal
    <2>1. UNCHANGED <<signals, job, verdicts, closed, scan>>
      BY <1>5 DEF ProposeChecks, jobVars
    <2>2. checks' \in [Id -> BOOLEAN]
      <3>1. \E b \in BOOLEAN : checks' = [checks EXCEPT !["item"] = b]
        <4>1. PICK verdict : checks' = [checks EXCEPT !["item"] = @ \/ verdict = "accept"]
          BY <1>5 DEF ProposeChecks
        <4>2. (checks["item"] \/ verdict = "accept") \in BOOLEAN
          OBVIOUS
        <4>3. checks' = [checks EXCEPT !["item"] = (checks["item"] \/ verdict = "accept")]
          BY <4>1
        <4> QED
          BY <4>2, <4>3
      <3> QED
        BY <1>0, <3>1 DEF ItemsOK
    <2>3. \/ \E to \in {"done", "blocked"} : Enter("scribe", to)
          \/ UNCHANGED <<state, epoch, due>>
      <3>1. PICK validation, attempt :
               CASE validation # "malformed" -> ChildEnters("done") /\ UNCHANGED review
                 [] validation = "malformed" /\ attempt >= MaxAttempts ->
                      /\ review' = [review EXCEPT !["scribe"] = "blocked"]
                      /\ ChildEnters("blocked")
                 [] OTHER -> UNCHANGED <<review, state, epoch, due>>
        BY <1>5 DEF ProposeChecks
      <3>2. ChildEnters("done") \/ ChildEnters("blocked") \/ UNCHANGED <<state, epoch, due>>
        <4>1. CASE validation # "malformed"
          BY <3>1, <4>1
        <4>2. CASE validation = "malformed" /\ attempt >= MaxAttempts
          BY <3>1, <4>2
        <4>3. CASE validation = "malformed" /\ ~(attempt >= MaxAttempts)
          BY <3>1, <4>3
        <4> QED
          BY <4>1, <4>2, <4>3
      <3> QED
        BY <3>2 DEF ChildEnters
    <2>4. /\ state' \in [Id -> State \union {"absent"}] /\ epoch' \in [Id -> Nat]
          /\ due' \in [Id -> BOOLEAN] /\ Advance(state, epoch, state', epoch')
      <3>1. "scribe" \in Id /\ "done" \in State /\ "blocked" \in State
        BY DEF Id, State
      <3> QED
        BY <1>0, <2>3, <3>1, EnterAdvances, StayAdvances DEF ItemsOK
    <2> QED
      BY <1>0, <2>1, <2>2, <2>4 DEF ItemsOK
  <1>6. ASSUME NEW i \in Id, BudgetPasses(i)
        PROVE  Goal
    BY <1>0, <1>6, StayAdvances DEF BudgetPasses, inputVars, jobVars, ItemsOK
  <1>7. Goal
    BY <1>1, <1>2, <1>3, <1>4, <1>5, <1>6
  <1> QED
    BY <1>7, Quiet

LEMMA LaunchersStep ==
    ASSUME WorkerInv,
           \/ \E l \in Launchers, e \in Epoch : ClaimNext(l, e)
           \/ \E e \in Epoch : LeaseEnds(e)
           \/ \E l \in Launchers, to \in {"done", "failed"} : MarkTerminal(l, to)
    PROVE  WorkerInv'
  <1>0. ItemsOK
    BY DEF WorkerInv, ShapesOK, ItemsOK
  <1>1. job' \in [Epoch -> JobState]
    BY <1>0 DEF ItemsOK, JobState, ClaimNext, LeaseEnds, MarkTerminal
  <1>2. UNCHANGED <<itemVars, inputVars, verdicts, closed, scan>>
    BY DEF ClaimNext, LeaseEnds, MarkTerminal
  <1>3. ItemsOK' /\ Advance(state, epoch, state', epoch')
    BY <1>0, <1>1, <1>2, StayAdvances DEF ItemsOK, itemVars, inputVars
  <1> QED
    BY <1>2, <1>3, Quiet

-----------------------------------------------------------------------------
(* The passes                                                              *)

\* A step that leaves the items, the record and the jobs' types alone, and takes the
\* scan on in one of the ways of ScanMoves.
LEMMA ScanOnly ==
    ASSUME WorkerInv, ItemsOK', Advance(state, epoch, state', epoch'),
           UNCHANGED <<verdicts, closed>>, NEW w \in Workers,
           \/ EndScan(w) \/ Drop(w)
           \/ \E rest \in SUBSET scan[w].todo : scan' = [scan EXCEPT ![w].todo = rest]
    PROVE  WorkerInv'
  <1>1. PICK s : scan' = [scan EXCEPT ![w] = s] /\ Safe(s, state', epoch', verdicts')
    BY RecordStays, ScanMoves
  <1> QED
    BY <1>1, Scanning

\* The rows of the breach pass are read in the epoch that stands, which has not ended.
LEMMA NextPassStep ==
    ASSUME WorkerInv, NEW w \in Workers, NextPass(w)
    PROVE  WorkerInv'
  <1>0. ItemsOK /\ scan \in [Workers -> ScanState]
    BY DEF WorkerInv, ShapesOK, ItemsOK
  <1>1. UNCHANGED <<itemVars, inputVars, jobVars, verdicts, closed>>
    BY DEF NextPass
  <1>2. ItemsOK' /\ Advance(state, epoch, state', epoch')
    BY <1>0, <1>1, StayAdvances DEF ItemsOK, itemVars, inputVars, jobVars
  <1> DEFINE pass == After(scan[w].pass)
             new == [Idle EXCEPT !.pass = pass, !.todo = Candidates(pass)]
  <1>3. scan' = [scan EXCEPT ![w] = IF pass = "idle" THEN Idle ELSE new]
    BY DEF NextPass
  <1>4. pass \in Pass \union {"idle"}
    <2>1. scan[w].pass \in Pass \union {"idle"}
      BY <1>0 DEF ScanState
    <2> QED
      BY <2>1 DEF After, Pass
  <1>5. \A i \in Id : RowOf(i) \in AnyRow
    <2> SUFFICES ASSUME NEW i \in Id PROVE RowOf(i) \in AnyRow
      OBVIOUS
    <2>1. state[i] \in State \union {"absent"} /\ epoch[i] \in Nat /\ due[i] \in BOOLEAN
      BY <1>0 DEF ItemsOK
    <2>2. (review[i] = "blocked") \in BOOLEAN
      OBVIOUS
    <2> QED
      BY <2>1, <2>2 DEF RowOf, AnyRow
  <1> HIDE DEF pass
  <1>6. Candidates(pass) \subseteq AnyRow
    BY <1>5 DEF Candidates
  <1>7. Safe(new, state, epoch, verdicts)
    <2>1. /\ new \in ScanState /\ new.pass = pass /\ new.todo = Candidates(pass)
          /\ new.step = "next"
      <3>1. Idle \in ScanState /\ Idle.step = "next"
        BY NoRowIsRow, NoStepIsDecision DEF Idle, ScanState
      <3> QED
        BY <1>4, <1>6, <3>1 DEF ScanState
    <2>2. ASSUME pass = "breach", NEW r \in Candidates(pass)
          PROVE  Seen(r, state, epoch)
      <3>1. PICK i \in Id : r = RowOf(i) /\ Selects(pass, i)
        BY DEF Candidates
      <3>2. state[i] \notin Terminal
        BY <2>2, <3>1 DEF Selects, breachCandidates
      <3>3. r.id = i /\ r.epoch = epoch[i] /\ epoch[i] \in Nat
        BY <1>0, <3>1 DEF RowOf, ItemsOK
      <3> QED
        BY <3>2, <3>3 DEF Seen
    <2> HIDE DEF new
    <2> QED
      BY <2>1, <2>2 DEF Safe, DecisionSafe, BreachSafe
  <1> HIDE DEF new
  <1>8. Safe(IF pass = "idle" THEN Idle ELSE new, state', epoch', verdicts')
    <2>1. Safe(IF pass = "idle" THEN Idle ELSE new, state, epoch, verdicts)
      BY <1>7, IdleIsSafe
    <2> QED
      BY <1>1, <1>2, <2>1, RecordStays, SafeStays
  <1> QED
    BY <1>1, <1>2, <1>3, <1>8, Scanning

\* The scribe, the review and the dispatch pass.
LEMMA ChildrenStep ==
    ASSUME WorkerInv, NEW w \in Workers, NEW r \in scan[w].todo,
           ScanScribes(w, r) \/ ScanReviews(w, r) \/ ScanDispatch(w, r)
    PROVE  WorkerInv'
  <1>0. ItemsOK
    BY DEF WorkerInv, ShapesOK, ItemsOK
  <1>1. UNCHANGED <<checks, epoch, due, signals, verdicts, closed>>
    BY DEF ScanScribes, ScanReviews, ScanDispatch, SpawnChild, itemVars, inputVars
  <1>2. job' \in [Epoch -> JobState]
    BY <1>0 DEF ScanScribes, ScanReviews, ScanDispatch, SpawnChild, Dispatch, jobVars, ItemsOK,
                JobState
  <1>3. \/ UNCHANGED state
        \/ \E child \in Id :
              state' = [state EXCEPT ![child] = IF @ = "absent" THEN "triaged" ELSE @]
    BY DEF ScanScribes, ScanReviews, ScanDispatch, SpawnChild, itemVars, Id
  <1>4. ItemsOK'
    BY <1>0, <1>1, <1>2, <1>3 DEF ItemsOK, State
  <1>5. Advance(state, epoch, state', epoch')
    BY <1>0, <1>1, <1>3 DEF ItemsOK, Advance, Terminal
  <1>6. \E rest \in SUBSET scan[w].todo : scan' = [scan EXCEPT ![w].todo = rest]
    BY DEF ScanScribes, ScanReviews, ScanDispatch, Skip
  <1> QED
    BY <1>1, <1>4, <1>5, <1>6, ScanOnly

\* scanConvergence reads the last verdict and the signals, and decides on them.
LEMMA ReduceStep ==
    ASSUME WorkerInv, NEW w \in Workers, NEW r \in scan[w].todo, Reduce(w, r)
    PROVE  WorkerInv'
  <1>0. ItemsOK /\ scan \in [Workers -> ScanState] /\ r \in AnyRow /\ r.id \in Id
    BY DEF WorkerInv, ShapesOK, ItemsOK, ScanState, AnyRow
  <1>1. UNCHANGED <<itemVars, inputVars, jobVars, verdicts, closed>>
    BY DEF Reduce
  <1>2. ItemsOK' /\ Advance(state, epoch, state', epoch')
    BY <1>0, <1>1, StayAdvances DEF ItemsOK, itemVars, inputVars, jobVars
  <1> DEFINE last == Latest(r.id)
             run == Run(r.id)
             decided == decideConvergenceStep(last, run, MaxAttempts)
             verdict == IF decided.append THEN run ELSE last
             new == [scan[w] EXCEPT !.todo = @ \ {r}, !.row = r,
                        !.step = IF decided.append THEN "verdict" ELSE "act",
                        !.decision = [verdict |-> verdict, outcome |-> decided.outcome]]
  <1>3. CASE decided.outcome = "stale"
    <2>1. scan' = [scan EXCEPT ![w].todo = @ \ {r}]
      BY <1>3 DEF Reduce, Skip
    <2> QED
      BY <1>1, <1>2, <2>1, ScanOnly
  <1>4. CASE decided.outcome # "stale"
    <2>1. scan' = [scan EXCEPT ![w].todo = @ \ {r}, ![w].row = r,
                           ![w].step = IF decided.append THEN "verdict" ELSE "act",
                           ![w].decision = [verdict |-> verdict, outcome |-> decided.outcome]]
      BY <1>4 DEF Reduce
    <2>2. /\ last \in Verdict \union {NoVerdict} /\ run \in Verdict /\ Backed(r.id, run)
          /\ last # NoVerdict => OnRecord(r.id, last) /\ last \in Verdict
      BY <1>0, LatestOnRecord, RunIsBacked DEF WorkerInv
    <2>3. OnRecord(r.id, last) => Backed(r.id, last)
      BY <1>0 DEF WorkerInv, VerdictsOK, OnRecord
    <2> HIDE DEF last, run
    <2>4. /\ decided.append \in BOOLEAN /\ decided.outcome \in Outcome
          /\ ~decided.append => last # NoVerdict
          /\ decided.outcome = "accept" => verdict.disposition = "accept"
      BY DEF decideConvergenceStep, NextOutcome, Outcome
    <2>5. /\ verdict \in Verdict /\ Backed(r.id, verdict)
          /\ ~decided.append => OnRecord(r.id, verdict)
      BY <2>2, <2>3, <2>4
    <2> HIDE DEF decided, verdict
    <2>6. scan' = [scan EXCEPT ![w] = new]
      BY <1>0, <2>1 DEF ScanState
    <2>7. /\ new \in ScanState /\ new.pass = scan[w].pass /\ new.row = r
          /\ new.step = (IF decided.append THEN "verdict" ELSE "act")
          /\ new.decision.verdict = verdict /\ new.decision.outcome = decided.outcome
      <3>1. [verdict |-> verdict, outcome |-> decided.outcome]
                \in [verdict : Verdict \union {NoVerdict}, outcome : Outcome]
        BY <2>4, <2>5
      <3>2. scan[w] \in ScanState /\ scan[w].todo \ {r} \in SUBSET AnyRow
        BY <1>0 DEF ScanState
      <3> QED
        BY <1>0, <3>1, <3>2 DEF ScanState
    <2> HIDE DEF new
    <2>8. scan[w].pass = "convergence"
      BY DEF Reduce, At
    <2>9. Safe(new, state, epoch, verdicts)
      BY <2>4, <2>5, <2>7, <2>8 DEF Safe, DecisionSafe, BreachSafe, OnRecord, Holds
    <2>10. Safe(new, state', epoch', verdicts')
      BY <1>1, <1>2, <2>9, RecordStays, SafeStays
    <2> QED
      BY <1>1, <1>2, <2>6, <2>10, Scanning
  <1> QED
    BY <1>3, <1>4

\* The verdict is on record when the worker goes on to act on it.
LEMMA EmitVerdictStep ==
    ASSUME WorkerInv, NEW w \in Workers, EmitVerdict(w)
    PROVE  WorkerInv'
  <1> DEFINE i == scan[w].row.id
             v == scan[w].decision.verdict
             new == [scan[w] EXCEPT !.step = "act"]
  <1>0. /\ ItemsOK /\ scan \in [Workers -> ScanState] /\ i \in Id
        /\ verdicts \in [Id -> Seq(Verdict)] /\ closed \in [Id -> Seq(Signal)]
    BY DEF WorkerInv, ShapesOK, ItemsOK, ScanState, AnyRow
  <1>1. UNCHANGED <<itemVars, inputVars, jobVars, closed>>
    BY DEF EmitVerdict
  <1>2. ItemsOK' /\ Advance(state, epoch, state', epoch')
    BY <1>0, <1>1, StayAdvances DEF ItemsOK, itemVars, inputVars, jobVars
  <1>3. scan[w].pass = "convergence" /\ scan[w].step = "verdict"
    BY DEF EmitVerdict, At
  <1>4. Safe(scan[w], state, epoch, verdicts)
    BY ScansAreSafe
  <1>5. /\ v \in Verdict /\ Backed(i, v)
        /\ scan[w].decision.outcome = "accept" => v.disposition = "accept"
    BY <1>3, <1>4 DEF Safe, DecisionSafe
  <1>6. verdicts' = [verdicts EXCEPT ![i] =
                       IF \E n \in 1..Len(@) : @[n] = v THEN @ ELSE Append(@, v)]
    BY DEF EmitVerdict
  <1>7. (IF scan[w].decision.outcome = "retry" THEN Drop(w) ELSE Go(w, "act"))
    BY DEF EmitVerdict
  <1> HIDE DEF i, v
  <1>8. /\ verdicts' \in [Id -> Seq(Verdict)]
        /\ \A j \in Id : \/ verdicts'[j] = verdicts[j]
                         \/ j = i /\ verdicts'[j] = Append(verdicts[j], v)
        /\ Holds(i, v, verdicts')
    <2>1. CASE \E n \in 1..Len(verdicts[i]) : verdicts[i][n] = v
      BY <1>0, <1>6, <2>1 DEF Holds
    <2>2. CASE ~\E n \in 1..Len(verdicts[i]) : verdicts[i][n] = v
      <3>1. verdicts' = [verdicts EXCEPT ![i] = Append(verdicts[i], v)]
        BY <1>6, <2>2
      <3>2. /\ Append(verdicts[i], v) \in Seq(Verdict)
            /\ Len(Append(verdicts[i], v)) = Len(verdicts[i]) + 1
            /\ Append(verdicts[i], v)[Len(verdicts[i]) + 1] = v
            /\ Len(verdicts[i]) + 1 \in 1..Len(verdicts[i]) + 1
        BY <1>0, <1>5
      <3>3. verdicts' \in [Id -> Seq(Verdict)] /\ verdicts'[i] = Append(verdicts[i], v)
        BY <1>0, <3>1, <3>2
      <3>4. Holds(i, v, verdicts')
        BY <3>2, <3>3 DEF Holds
      <3>5. \A j \in Id : \/ verdicts'[j] = verdicts[j]
                          \/ j = i /\ verdicts'[j] = Append(verdicts[j], v)
        BY <1>0, <3>1, <3>3
      <3> QED
        BY <3>3, <3>4, <3>5
    <2> QED
      BY <2>1, <2>2
  <1>9. ASSUME NEW j \in Id
        PROVE  /\ Len(verdicts[j]) <= Len(verdicts'[j]) /\ Len(verdicts[j]) \in Nat
               /\ Len(verdicts'[j]) \in Nat
               /\ \A n \in 1..Len(verdicts[j]) : verdicts'[j][n] = verdicts[j][n]
               /\ \A n \in 1..Len(verdicts'[j]) :
                     n \in 1..Len(verdicts[j]) \/ (j = i /\ verdicts'[j][n] = v)
    <2>0. verdicts[j] \in Seq(Verdict) /\ Len(verdicts[j]) \in Nat
      BY <1>0
    <2>1. CASE verdicts'[j] = verdicts[j]
      BY <2>0, <2>1
    <2>2. CASE j = i /\ verdicts'[j] = Append(verdicts[j], v)
      BY <2>0, <2>2, <1>5
    <2> QED
      BY <1>8, <2>1, <2>2
  <1>10. Grow(verdicts, verdicts')
    <2> SUFFICES ASSUME NEW j \in Id, NEW u, Holds(j, u, verdicts)
                 PROVE  Holds(j, u, verdicts')
      BY DEF Grow
    <2>1. PICK n \in 1..Len(verdicts[j]) : verdicts[j][n] = u
      BY DEF Holds
    <2>2. n \in 1..Len(verdicts'[j]) /\ verdicts'[j][n] = u
      BY <1>9, <2>1
    <2> QED
      BY <2>2 DEF Holds
  <1>11. VerdictsOK'
    <2> SUFFICES ASSUME NEW j \in Id, NEW n \in 1..Len(verdicts'[j])
                 PROVE  Backed(j, verdicts'[j][n])
      BY DEF VerdictsOK
    <2>1. CASE n \in 1..Len(verdicts[j])
      BY <1>9, <2>1 DEF WorkerInv, VerdictsOK
    <2>2. CASE j = i /\ verdicts'[j][n] = v
      BY <1>5, <2>2
    <2> QED
      BY <1>9, <2>1, <2>2
  <1>12. ClosedIsBacked'
    <2> SUFFICES ASSUME NEW j \in Id, closed[j] # <<>>
                 PROVE  /\ \E n \in 1..Len(verdicts'[j]) :
                              /\ verdicts'[j][n].digest = closed[j]
                              /\ verdicts'[j][n].disposition = "accept"
                        /\ \A k \in Required(j) : Satisfied(k, closed[j])
      BY <1>1 DEF ClosedIsBacked
    <2>1. PICK n \in 1..Len(verdicts[j]) :
             verdicts[j][n].digest = closed[j] /\ verdicts[j][n].disposition = "accept"
      BY DEF WorkerInv, ClosedIsBacked
    <2>2. n \in 1..Len(verdicts'[j]) /\ verdicts'[j][n] = verdicts[j][n]
      BY <1>9, <2>1
    <2>3. \A k \in Required(j) : Satisfied(k, closed[j])
      BY DEF WorkerInv, ClosedIsBacked
    <2> QED
      BY <2>1, <2>2, <2>3
  <1>13. \E s : scan' = [scan EXCEPT ![w] = s] /\ Safe(s, state', epoch', verdicts')
    <2>1. CASE Drop(w)
      BY <1>2, <1>10, <2>1, ScanMoves
    <2>2. CASE Go(w, "act")
      <3>1. scan' = [scan EXCEPT ![w] = new]
        BY <1>0, <2>2 DEF Go, ScanState
      <3>2. /\ new \in ScanState /\ new.pass = "convergence" /\ new.step = "act"
            /\ new.row.id = i /\ new.decision.verdict = v
            /\ new.decision.outcome = scan[w].decision.outcome
        BY <1>0, <1>3 DEF ScanState, i, v
      <3> HIDE DEF new
      <3>3. Safe(new, state', epoch', verdicts')
        BY <1>5, <1>8, <3>2 DEF Safe, DecisionSafe, BreachSafe
      <3> QED
        BY <3>1, <3>3
    <2> QED
      BY <1>7, <2>1, <2>2
  <1>14. PICK s : scan' = [scan EXCEPT ![w] = s] /\ Safe(s, state', epoch', verdicts')
    BY <1>13
  <1>15. /\ scan' \in [Workers -> ScanState]
         /\ \A x \in Workers : Safe(scan'[x], state', epoch', verdicts')
    BY <1>2, <1>10, <1>14, GoesOn
  <1>16. closed' \in [Id -> Seq(Signal)]
    BY <1>0, <1>1
  <1> QED
    BY <1>2, <1>8, <1>11, <1>12, <1>15, <1>16, Assembled

\* Service.Transition by the worker: it enters the state or the scan ends.
LEMMA WorkerMovesAdvances ==
    ASSUME WorkerInv, NEW w \in Workers, NEW to \in State, WorkerMoves(w, to)
    PROVE  /\ state' \in [Id -> State \union {"absent"}] /\ epoch' \in [Id -> Nat]
           /\ due' \in [Id -> BOOLEAN] /\ Advance(state, epoch, state', epoch')
           /\ EndScan(w) \/ Drop(w)
  <1>0. scan[w].row.id \in Id /\ ItemsOK
    BY DEF WorkerInv, ShapesOK, ScanState, AnyRow, ItemsOK
  <1>1. \/ Enter(scan[w].row.id, to) /\ Drop(w)
        \/ EndScan(w) /\ UNCHANGED <<state, epoch, due>>
    BY DEF WorkerMoves
  <1> QED
    BY <1>0, <1>1, EnterAdvances, StayAdvances DEF ItemsOK

\* The item is closed on the verdict that the worker holds, which is on record.
LEMMA AcceptStep ==
    ASSUME WorkerInv, NEW w \in Workers, Accept(w)
    PROVE  WorkerInv'
  <1> DEFINE i == scan[w].row.id
             v == scan[w].decision.verdict
  <1>0. /\ ItemsOK /\ scan \in [Workers -> ScanState] /\ i \in Id
        /\ verdicts \in [Id -> Seq(Verdict)] /\ closed \in [Id -> Seq(Signal)]
    BY DEF WorkerInv, ShapesOK, ItemsOK, ScanState, AnyRow
  <1>1. WorkerMoves(w, "done") /\ UNCHANGED <<checks, inputVars, verdicts, jobVars>>
    BY DEF Accept
  <1>2. /\ ItemsOK' /\ Advance(state, epoch, state', epoch') /\ (EndScan(w) \/ Drop(w))
    <2>1. "done" \in State
      BY DEF State
    <2> QED
      BY <1>0, <1>1, <2>1, WorkerMovesAdvances DEF ItemsOK, inputVars, jobVars
  <1>3. /\ v \in Verdict /\ Backed(i, v) /\ v.disposition = "accept" /\ Holds(i, v, verdicts)
    <2>1. Safe(scan[w], state, epoch, verdicts)
      BY ScansAreSafe
    <2> QED
      BY <2>1 DEF Safe, DecisionSafe, Accept, At
  <1>4. closed' = closed \/ closed' = [closed EXCEPT ![i] = v.digest]
    BY DEF Accept
  <1> HIDE DEF i, v
  <1>5. closed' \in [Id -> Seq(Signal)] /\ \A j \in Id :
            closed'[j] = closed[j] \/ (j = i /\ closed'[j] = v.digest)
    <2>1. v.digest \in Seq(Signal)
      BY <1>3 DEF Verdict
    <2> QED
      BY <1>0, <1>4, <2>1
  <1>6. verdicts' = verdicts /\ VerdictsOK' /\ Grow(verdicts, verdicts')
    BY <1>1 DEF WorkerInv, VerdictsOK, Grow
  <1>7. ClosedIsBacked'
    <2> SUFFICES ASSUME NEW j \in Id, closed'[j] # <<>>
                 PROVE  /\ \E n \in 1..Len(verdicts[j]) :
                              /\ verdicts[j][n].digest = closed'[j]
                              /\ verdicts[j][n].disposition = "accept"
                        /\ \A k \in Required(j) : Satisfied(k, closed'[j])
      BY <1>6 DEF ClosedIsBacked
    <2>1. CASE closed'[j] = closed[j]
      BY <2>1 DEF WorkerInv, ClosedIsBacked
    <2>2. CASE j = i /\ closed'[j] = v.digest
      BY <1>3, <2>2 DEF Holds, Backed
    <2> QED
      BY <1>5, <2>1, <2>2
  <1>8. PICK s : scan' = [scan EXCEPT ![w] = s] /\ Safe(s, state', epoch', verdicts')
    BY <1>2, <1>6, ScanMoves
  <1>9. /\ scan' \in [Workers -> ScanState]
        /\ \A x \in Workers : Safe(scan'[x], state', epoch', verdicts')
    BY <1>2, <1>6, <1>8, GoesOn
  <1> QED
    BY <1>0, <1>2, <1>5, <1>6, <1>7, <1>9, Assembled

\* setBlockedForConvergence and the move to blocked.
LEMMA BlockStep ==
    ASSUME WorkerInv, NEW w \in Workers, SetBlocked(w) \/ Block(w)
    PROVE  WorkerInv'
  <1>0. ItemsOK /\ scan \in [Workers -> ScanState]
    BY DEF WorkerInv, ShapesOK, ItemsOK
  <1>1. CASE SetBlocked(w)
    <2>1. UNCHANGED <<state, checks, epoch, due, inputVars, jobVars, verdicts, closed>>
      BY <1>1 DEF SetBlocked
    <2>2. ItemsOK' /\ Advance(state, epoch, state', epoch')
      BY <1>0, <2>1, StayAdvances DEF ItemsOK, inputVars, jobVars
    <2>3. EndScan(w) \/ Go(w, "block")
      BY <1>1 DEF SetBlocked
    <2>4. CASE EndScan(w)
      BY <2>1, <2>2, <2>4, ScanOnly
    <2>5. CASE Go(w, "block")
      <3> DEFINE new == [scan[w] EXCEPT !.step = "block"]
      <3>1. scan' = [scan EXCEPT ![w] = new]
        BY <1>0, <2>5 DEF Go, ScanState
      <3>2. new \in ScanState /\ new.pass = "convergence" /\ new.step = "block"
        BY <1>0, <1>1 DEF ScanState, SetBlocked, At
      <3> HIDE DEF new
      <3>3. Safe(new, state', epoch', verdicts')
        BY <3>2 DEF Safe, DecisionSafe, BreachSafe
      <3> QED
        BY <2>1, <2>2, <3>1, <3>3, Scanning
    <2> QED
      BY <2>3, <2>4, <2>5
  <1>2. CASE Block(w)
    <2>1. WorkerMoves(w, "blocked") /\ UNCHANGED <<checks, inputVars, verdicts, jobVars, closed>>
      BY <1>2 DEF Block
    <2>2. "blocked" \in State
      BY DEF State
    <2>3. /\ ItemsOK' /\ Advance(state, epoch, state', epoch') /\ (EndScan(w) \/ Drop(w))
      BY <1>0, <2>1, <2>2, WorkerMovesAdvances DEF ItemsOK, inputVars, jobVars
    <2> QED
      BY <2>1, <2>3, ScanOnly
  <1> QED
    BY <1>1, <1>2

\* emitBreach: the row of the pass is now the one in hand.
LEMMA EmitBreachStep ==
    ASSUME WorkerInv, NEW w \in Workers, NEW r \in scan[w].todo, EmitBreach(w, r)
    PROVE  WorkerInv'
  <1>0. ItemsOK /\ scan \in [Workers -> ScanState] /\ r \in AnyRow
    BY DEF WorkerInv, ShapesOK, ItemsOK, ScanState
  <1>1. UNCHANGED <<itemVars, inputVars, jobVars, verdicts, closed>>
    BY DEF EmitBreach
  <1>2. ItemsOK' /\ Advance(state, epoch, state', epoch')
    BY <1>0, <1>1, StayAdvances DEF ItemsOK, itemVars, inputVars, jobVars
  <1>3. CASE Skip(w, r)
    <2>1. scan' = [scan EXCEPT ![w].todo = @ \ {r}]
      BY <1>3 DEF Skip
    <2> QED
      BY <1>1, <1>2, <2>1, ScanOnly
  <1>4. CASE Take(w, r, "route")
    <2> DEFINE new == [scan[w] EXCEPT !.todo = @ \ {r}, !.row = r, !.step = "route"]
    <2>1. scan' = [scan EXCEPT ![w] = new]
      BY <1>0, <1>4 DEF Take, ScanState
    <2>2. /\ new \in ScanState /\ new.pass = scan[w].pass /\ new.row = r
          /\ new.todo = scan[w].todo \ {r} /\ new.step = "route" /\ scan[w].pass = "breach"
      <3>1. scan[w] \in ScanState /\ scan[w].todo \ {r} \in SUBSET AnyRow
        BY <1>0 DEF ScanState
      <3> QED
        BY <1>0, <3>1 DEF ScanState, EmitBreach, At
    <2>3. Safe(scan[w], state, epoch, verdicts)
      BY ScansAreSafe
    <2> HIDE DEF new
    <2>4. Safe(new, state, epoch, verdicts)
      BY <2>2, <2>3 DEF Safe, DecisionSafe, BreachSafe
    <2>5. Safe(new, state', epoch', verdicts')
      BY <1>1, <1>2, <2>4, RecordStays, SafeStays
    <2> QED
      BY <1>1, <1>2, <2>1, <2>5, Scanning
  <1> QED
    BY <1>3, <1>4 DEF EmitBreach

\* The breach goes to a launcher or to a human, or the scan is cut off.
LEMMA RouteStep ==
    ASSUME WorkerInv, NEW w \in Workers, DispatchBreach(w) \/ EscalateBreach(w) \/ Fault(w)
    PROVE  WorkerInv'
  <1>0. ItemsOK /\ scan[w].row.id \in Id
    BY DEF WorkerInv, ShapesOK, ItemsOK, ScanState, AnyRow
  <1>1. UNCHANGED <<checks, signals, verdicts, closed>>
    BY DEF DispatchBreach, EscalateBreach, Fault, itemVars, inputVars
  <1>2. job' \in [Epoch -> JobState]
    BY <1>0 DEF DispatchBreach, EscalateBreach, Fault, Dispatch, jobVars, ItemsOK, JobState
  <1>3. UNCHANGED <<state, epoch, due>> \/ Enter(scan[w].row.id, "blocked")
    BY DEF DispatchBreach, EscalateBreach, Fault, itemVars
  <1>4. ItemsOK' /\ Advance(state, epoch, state', epoch')
    <2>1. "blocked" \in State
      BY DEF State
    <2> QED
      BY <1>0, <1>1, <1>2, <1>3, <2>1, EnterAdvances, StayAdvances DEF ItemsOK
  <1>5. EndScan(w) \/ Drop(w)
    BY DEF DispatchBreach, EscalateBreach, Fault
  <1> QED
    BY <1>1, <1>4, <1>5, ScanOnly

-----------------------------------------------------------------------------
(* Theorems                                                                *)

LEMMA InitInv == Init => WorkerInv
  <1> SUFFICES ASSUME Init PROVE WorkerInv
    OBVIOUS
  <1>1. ShapesOK
    <2>1. Idle \in ScanState
      BY IdleIsSafe DEF Safe
    <2>2. <<>> \in Seq(Readings) /\ <<>> \in Seq(Verdict) /\ <<>> \in Seq(Signal)
      OBVIOUS
    <2>3. \A i \in Id : (i # "item") \in BOOLEAN
      OBVIOUS
    <2> QED
      BY <2>1, <2>2, <2>3 DEF Init, ShapesOK, State, JobState
  <1>2. VerdictsOK /\ ClosedIsBacked
    BY DEF Init, VerdictsOK, ClosedIsBacked
  <1>3. DecisionsOK /\ BreachesOK
    BY DEF Init, DecisionsOK, Deciding, BreachesOK, Idle
  <1> QED
    BY <1>1, <1>2, <1>3 DEF WorkerInv

LEMMA StutterInv ==
    ASSUME WorkerInv, UNCHANGED vars
    PROVE  WorkerInv'
  <1>1. ItemsOK' /\ Advance(state, epoch, state', epoch') /\ UNCHANGED <<verdicts, closed, scan>>
    BY StayAdvances DEF vars, WorkerInv, ShapesOK, ItemsOK
  <1> QED
    BY <1>1, Quiet

LEMMA NextInv ==
    ASSUME WorkerInv, Next
    PROVE  WorkerInv'
  <1>1. ASSUME NEW w \in Workers, WorkerStep(w) \/ Fault(w)
        PROVE  WorkerInv'
    BY <1>1, NextPassStep, ChildrenStep, ReduceStep, EmitBreachStep, EmitVerdictStep, AcceptStep,
       BlockStep, RouteStep DEF WorkerStep
  <1> QED
    BY <1>1, OwnersStep, LaunchersStep DEF Next

\* What the worker holds rests on the record, the record on the signals, and a row of
\* the breach pass on an epoch that was not over when it was read.
THEOREM Invariance == Spec => []WorkerInv
  <1>1. WorkerInv /\ [Next]_vars => WorkerInv'
    BY NextInv, StutterInv
  <1> QED
    BY InitInv, <1>1, PTL DEF Spec

\* The worker moves an item to done only on a recorded verdict that accepts, over
\* signals in which every check passed and none failed (scanConvergence).
THEOREM ClosedWhenBacked == Spec => []ClosedIsBacked
  <1>1. WorkerInv => ClosedIsBacked
    BY DEF WorkerInv
  <1> QED
    BY <1>1, Invariance, PTL

\* Whatever agents report and in whatever order: the checklist accepts exactly when
\* every check of the item has a pass and no failure, and votes and scores do not
\* depend on the order of the signals (AllPassChecklist, MajorityVote, Unanimous,
\* Threshold, read by convergenceSignalsForItem).
THEOREM ReducersKeepTheirPromise == Spec => []ReducersAsPromised
  <1>1. Signalling(Readings)
    BY WorkerAssumption DEF Signalling
  <1>2. ShapesOK => ReducersAsPromised
    <2> SUFFICES ASSUME ShapesOK, NEW i \in Id
                 PROVE  /\ ChecklistAsPromised(Required(i), SignalsFor(i))
                        /\ OrderFree(Absent, 1, signals[i])
      BY DEF ReducersAsPromised
    <2>1. ChecklistAsPromised(Required(i), SignalsFor(i))
      BY SignalsReadable, ChecklistKeepsItsPromise
    <2>2. signals[i] \in Seq(Readings)
      BY DEF ShapesOK
    <2> QED
      BY <1>1, <2>1, <2>2, ReducersAreOrderFree
  <1>3. WorkerInv => ShapesOK
    BY DEF WorkerInv
  <1> QED
    BY <1>2, <1>3, Invariance, PTL

\* A terminal state is left only for blocked, when a breach of an earlier epoch that
\* was observed before the item ended is escalated after it (escalateBreach).
THEOREM TerminalLeftLate == Spec => TerminalLeftByLateBreachOnly
  <1> DEFINE Late == \A i \in Id : state[i] \in Terminal /\ state'[i] # state[i] =>
                        /\ state'[i] = "blocked"
                        /\ \E e \in 0..epoch[i] - 1 : <<i, e>> \in escalated' \ escalated
  <1>1. ASSUME WorkerInv, Next, NEW i \in Id, state[i] \in Terminal, state'[i] # state[i]
        PROVE  /\ state'[i] = "blocked"
               /\ \E e \in 0..epoch[i] - 1 : <<i, e>> \in escalated' \ escalated
    <2>0. state \in [Id -> State \union {"absent"}] /\ epoch \in [Id -> Nat]
      BY <1>1 DEF WorkerInv, ShapesOK
    <2>1. ASSUME NEW j, NEW to, Enter(j, to), CanTransition(state[j], to)
          PROVE  FALSE
      BY <1>1, <2>0, <2>1 DEF Enter, CanTransition
    <2>2. PICK w \in Workers : EscalateBreach(w)
      <3>1. state' # state
        BY <1>1
      <3>2. ~\E m \in Moves : Move(m[1], m[2])
        BY <2>1 DEF Move
      <3>3. ~\E wellFormed \in BOOLEAN : ProposeChecks(wellFormed)
        <4> SUFFICES ASSUME NEW wellFormed \in BOOLEAN, ProposeChecks(wellFormed) PROVE FALSE
          OBVIOUS
        <4>1. ASSUME NEW to, ChildEnters(to)
              PROVE  FALSE
          BY <2>1, <3>1, <4>1 DEF ChildEnters
        <4>2. PICK validation, attempt :
                 CASE validation # "malformed" -> ChildEnters("done") /\ UNCHANGED review
                   [] validation = "malformed" /\ attempt >= MaxAttempts ->
                        /\ review' = [review EXCEPT !["scribe"] = "blocked"]
                        /\ ChildEnters("blocked")
                   [] OTHER -> UNCHANGED <<review, state, epoch, due>>
          BY DEF ProposeChecks
        <4>3. CASE validation # "malformed"
          BY <4>1, <4>2, <4>3
        <4>4. CASE validation = "malformed" /\ attempt >= MaxAttempts
          BY <4>1, <4>2, <4>4
        <4>5. CASE validation = "malformed" /\ ~(attempt >= MaxAttempts)
          BY <3>1, <4>2, <4>5
        <4> QED
          BY <4>3, <4>4, <4>5
      <3>4. ASSUME NEW w \in Workers, WorkerStep(w) \/ Fault(w)
            PROVE  EscalateBreach(w)
        <4>1. ~NextPass(w) /\ ~Fault(w) /\ ~EmitVerdict(w) /\ ~SetBlocked(w) /\ ~DispatchBreach(w)
          BY <3>1 DEF NextPass, Fault, EmitVerdict, SetBlocked, DispatchBreach, itemVars
        <4>2. ASSUME NEW r
              PROVE  ~ScanDispatch(w, r) /\ ~Reduce(w, r) /\ ~EmitBreach(w, r)
          BY <3>1 DEF ScanDispatch, Reduce, EmitBreach, itemVars
        <4>3. ASSUME NEW child, SpawnChild(child)
              PROVE  FALSE
          BY <1>1, <2>0, <4>3 DEF SpawnChild, Terminal
        <4>4. ASSUME NEW to, WorkerMoves(w, to)
              PROVE  FALSE
          BY <2>1, <3>1, <4>4 DEF WorkerMoves
        <4>5. ASSUME NEW r
              PROVE  ~ScanScribes(w, r) /\ ~ScanReviews(w, r)
          BY <4>3 DEF ScanScribes, ScanReviews
        <4>6. ~Accept(w) /\ ~Block(w)
          BY <4>4 DEF Accept, Block
        <4> QED
          BY <3>4, <4>1, <4>2, <4>5, <4>6 DEF WorkerStep
      <3>5. UNCHANGED state \/ (\E w \in Workers : WorkerStep(w) \/ Fault(w))
        BY <1>1, <3>2, <3>3 DEF Next, WaveThrough, Report, MarkReady, BudgetPasses, ClaimNext,
                                LeaseEnds, MarkTerminal, itemVars
      <3> QED
        BY <3>1, <3>4, <3>5
    <2> DEFINE row == scan[w].row
    <2>3. /\ row.id \in Id /\ row.epoch \in Nat /\ Observed(row)
      BY <1>1, <2>2 DEF EscalateBreach, At, WorkerInv, ShapesOK, BreachesOK, ScanState, AnyRow
    <2>4. /\ <<row.id, row.epoch>> \in escalated' \ escalated
          /\ Enter(row.id, "blocked")
      BY <1>1, <2>2 DEF EscalateBreach
    <2>5. row.id = i /\ state'[i] = "blocked"
      BY <1>1, <2>0, <2>3, <2>4 DEF Enter
    <2> HIDE DEF row
    <2>6. row.epoch \in 0..epoch[i] - 1
      BY <1>1, <2>0, <2>3, <2>5 DEF Observed
    <2> QED
      BY <2>4, <2>5, <2>6
  <1>2. WorkerInv /\ [Next]_vars => [Late]_vars
    BY <1>1
  <1> QED
    BY <1>2, Invariance, PTL DEF Spec, TerminalLeftByLateBreachOnly

\* A job that ended keeps its outcome: a launcher whose lease ended, and another that
\* took the job over, cannot change it (jobqueue.markTerminal).
THEOREM JobKeepsOutcome == Spec => JobOutcomeIsFinal
  <1> DEFINE Kept == \A e \in Epoch : job[e] \in {"done", "failed"} => job'[e] = job[e]
  <1>1. ASSUME WorkerInv, Next
        PROVE  Kept
    <2>0. job \in [Epoch -> JobState]
      BY <1>1 DEF WorkerInv, ShapesOK
    <2>1. ASSUME NEW e, Dispatch(e)
          PROVE  Kept
      BY <2>0, <2>1 DEF Dispatch
    <2>2. ASSUME NEW l, NEW e, ClaimNext(l, e)
          PROVE  Kept
      BY <2>0, <2>2 DEF ClaimNext
    <2>3. ASSUME NEW e, LeaseEnds(e)
          PROVE  Kept
      BY <2>0, <2>3 DEF LeaseEnds
    <2>4. ASSUME NEW l, NEW to, MarkTerminal(l, to)
          PROVE  Kept
      BY <2>0, <2>4 DEF MarkTerminal
    <2>5. ASSUME NEW w, WorkerStep(w) \/ Fault(w)
          PROVE  Kept
      <3>1. ASSUME NEW r, ScanDispatch(w, r)
            PROVE  Kept
        BY <2>1, <3>1 DEF ScanDispatch
      <3>2. ASSUME DispatchBreach(w)
            PROVE  Kept
        BY <2>1, <3>2 DEF DispatchBreach
      <3> QED
        BY <2>5, <3>1, <3>2 DEF WorkerStep, Fault, NextPass, ScanScribes, ScanReviews, SpawnChild,
             Reduce, EmitBreach, EmitVerdict, Accept, SetBlocked, Block, EscalateBreach, jobVars
    <2>6. \/ UNCHANGED job
          \/ \E w \in Workers : WorkerStep(w) \/ Fault(w)
          \/ \E l \in Launchers, e \in Epoch : ClaimNext(l, e)
          \/ \E e \in Epoch : LeaseEnds(e)
          \/ \E l \in Launchers, to \in {"done", "failed"} : MarkTerminal(l, to)
      BY <1>1 DEF Next, Move, WaveThrough, Report, MarkReady, ProposeChecks, BudgetPasses, jobVars
    <2> QED
      BY <2>2, <2>3, <2>4, <2>5, <2>6
  <1>2. WorkerInv /\ [Next]_vars => [Kept]_vars
    BY <1>1
  <1> QED
    BY <1>2, Invariance, PTL DEF Spec, JobOutcomeIsFinal
-----------------------------------------------------------------------------
(* The types: rows and facts name epochs that were entered                 *)

LEMMA EpochsGoOn ==
    ASSUME WorkerInv, [Next]_vars
    PROVE  \A i \in Id : epoch[i] \in Nat /\ epoch'[i] \in Nat /\ epoch[i] <= epoch'[i]
  <1>0. epoch \in [Id -> Nat]
    BY DEF WorkerInv, ShapesOK
  <1>1. UNCHANGED epoch \/ \E i, to : Enter(i, to)
    <2>1. CASE UNCHANGED vars
      BY <2>1 DEF vars
    <2>2. CASE \E m \in Moves : Move(m[1], m[2])
      BY <2>2 DEF Move
    <2>3. CASE \E wellFormed \in BOOLEAN : ProposeChecks(wellFormed)
      <3>1. PICK validation, attempt :
               CASE validation # "malformed" -> ChildEnters("done") /\ UNCHANGED review
                 [] validation = "malformed" /\ attempt >= MaxAttempts ->
                      /\ review' = [review EXCEPT !["scribe"] = "blocked"]
                      /\ ChildEnters("blocked")
                 [] OTHER -> UNCHANGED <<review, state, epoch, due>>
        BY <2>3 DEF ProposeChecks
      <3>2. CASE validation # "malformed"
        BY <3>1, <3>2 DEF ChildEnters
      <3>3. CASE validation = "malformed" /\ attempt >= MaxAttempts
        BY <3>1, <3>3 DEF ChildEnters
      <3>4. CASE validation = "malformed" /\ ~(attempt >= MaxAttempts)
        BY <3>1, <3>4
      <3> QED
        BY <3>2, <3>3, <3>4
    <2>4. ASSUME NEW w \in Workers, WorkerStep(w) \/ Fault(w)
          PROVE  UNCHANGED epoch \/ \E i, to : Enter(i, to)
      <3>1. CASE Accept(w) \/ Block(w)
        BY <3>1 DEF Accept, Block, WorkerMoves
      <3>2. CASE EscalateBreach(w)
        BY <3>2 DEF EscalateBreach
      <3>3. CASE NextPass(w) \/ EmitVerdict(w) \/ SetBlocked(w) \/ DispatchBreach(w) \/ Fault(w)
        BY <3>3 DEF NextPass, EmitVerdict, SetBlocked, DispatchBreach, Fault, itemVars
      <3>4. ASSUME NEW r, \/ ScanScribes(w, r) \/ ScanReviews(w, r) \/ ScanDispatch(w, r)
                          \/ Reduce(w, r) \/ EmitBreach(w, r)
            PROVE  UNCHANGED epoch
        BY <3>4 DEF ScanScribes, ScanReviews, SpawnChild, ScanDispatch, Reduce, EmitBreach, itemVars
      <3> QED
        BY <2>4, <3>1, <3>2, <3>3, <3>4 DEF WorkerStep
    <2>5. CASE \/ \E i \in Id, c \in BOOLEAN : WaveThrough(i, c)
               \/ \E i \in Id, s \in Readings : Report(i, s)
               \/ MarkReady
               \/ \E i \in Id : BudgetPasses(i)
               \/ \E l \in Launchers, e \in Epoch : ClaimNext(l, e)
               \/ \E e \in Epoch : LeaseEnds(e)
               \/ \E l \in Launchers, to \in {"done", "failed"} : MarkTerminal(l, to)
      BY <2>5 DEF WaveThrough, Report, MarkReady, BudgetPasses, ClaimNext, LeaseEnds,
                  MarkTerminal, itemVars
    <2> QED
      BY <2>1, <2>2, <2>3, <2>4, <2>5 DEF Next
  <1> QED
    BY <1>0, <1>1 DEF Enter

\* A row that a worker holds after a step it held before, or it is NoRow, or it has just
\* been read.
Read(r) == \E i \in Id : r = RowOf(i) /\ state[i] \in State /\ UNCHANGED epoch

\* Worker x goes on with rows that it held, or with NoRow.
Keeps(x) ==
    /\ \A w \in Workers \ {x} : scan'[w] = scan[w]
    /\ scan'[x].todo \subseteq Rows(x) /\ scan'[x].row \in Rows(x) \union {NoRow}

LEMMA KeptRows ==
    ASSUME NEW x \in Workers, Keeps(x), NEW w \in Workers
    PROVE  Rows(w)' \subseteq Rows(w) \union {NoRow}
  BY DEF Keeps, Rows

LEMMA GoneOnKeepsRows ==
    ASSUME scan \in [Workers -> ScanState], NEW x \in Workers, NEW s, scan' = [scan EXCEPT ![x] = s],
           s.todo \subseteq Rows(x), s.row \in Rows(x) \union {NoRow}
    PROVE  Keeps(x)
  <1>1. scan'[x] = s /\ \A w \in Workers \ {x} : scan'[w] = scan[w]
    OBVIOUS
  <1> QED
    BY <1>1 DEF Keeps

\* The ways a scan goes on keep its rows.
LEMMA MovesKeepRows ==
    ASSUME scan \in [Workers -> ScanState], NEW x \in Workers,
           \/ EndScan(x) \/ Drop(x) \/ \E step : Go(x, step)
           \/ \E rest \in SUBSET scan[x].todo : scan' = [scan EXCEPT ![x].todo = rest]
    PROVE  Keeps(x)
  <1>1. CASE EndScan(x)
    BY <1>1 DEF EndScan, Idle, Keeps, Rows
  <1>2. CASE Drop(x)
    <2> DEFINE new == [scan[x] EXCEPT !.row = NoRow, !.step = "next", !.decision = NoStep]
    <2>1. scan' = [scan EXCEPT ![x] = new]
      BY <1>2 DEF Drop, ScanState
    <2>2. new.todo = scan[x].todo /\ new.row = NoRow
      BY DEF ScanState
    <2> HIDE DEF new
    <2> QED
      BY <2>1, <2>2, GoneOnKeepsRows DEF Rows
  <1>3. CASE \E step : Go(x, step)
    BY <1>3 DEF Go, Keeps, Rows, ScanState
  <1>4. CASE \E rest \in SUBSET scan[x].todo : scan' = [scan EXCEPT ![x].todo = rest]
    BY <1>4 DEF Keeps, Rows, ScanState
  <1> QED
    BY <1>1, <1>2, <1>3, <1>4

\* Every step of a scan but the query of a pass.
LEMMA StepsKeepRows ==
    ASSUME WorkerInv, NEW x \in Workers, WorkerStep(x) \/ Fault(x), ~NextPass(x)
    PROVE  Keeps(x)
  <1>0. scan \in [Workers -> ScanState]
    BY DEF WorkerInv, ShapesOK
  <1>1. CASE \/ EmitVerdict(x) \/ Accept(x) \/ SetBlocked(x) \/ Block(x)
             \/ DispatchBreach(x) \/ EscalateBreach(x) \/ Fault(x)
    <2>1. EndScan(x) \/ Drop(x) \/ \E step : Go(x, step)
      <3>1. CASE Accept(x) \/ Block(x)
        BY <3>1 DEF Accept, Block, WorkerMoves
      <3>2. CASE EmitVerdict(x)
        BY <3>2 DEF EmitVerdict
      <3>3. CASE SetBlocked(x)
        BY <3>3 DEF SetBlocked
      <3>4. CASE DispatchBreach(x) \/ EscalateBreach(x) \/ Fault(x)
        BY <3>4 DEF DispatchBreach, EscalateBreach, Fault
      <3> QED
        BY <1>1, <3>1, <3>2, <3>3, <3>4
    <2> QED
      BY <1>0, <2>1, MovesKeepRows
  <1>2. ASSUME NEW q \in scan[x].todo, Skip(x, q)
        PROVE  Keeps(x)
    <2>1. scan' = [scan EXCEPT ![x].todo = @ \ {q}] /\ scan[x].todo \ {q} \in SUBSET scan[x].todo
      BY <1>2 DEF Skip
    <2> QED
      BY <1>0, <2>1, MovesKeepRows
  <1>3. ASSUME NEW q \in scan[x].todo, ScanScribes(x, q) \/ ScanReviews(x, q) \/ ScanDispatch(x, q)
        PROVE  Keeps(x)
    <2>1. Skip(x, q) \/ scan' = [scan EXCEPT ![x].todo = {}]
      BY <1>3 DEF ScanScribes, ScanReviews, ScanDispatch
    <2>2. {} \in SUBSET scan[x].todo
      OBVIOUS
    <2> QED
      BY <1>0, <1>2, <2>1, <2>2, MovesKeepRows
  <1>4. ASSUME NEW q \in scan[x].todo, EmitBreach(x, q)
        PROVE  Keeps(x)
    <2>1. CASE Take(x, q, "route")
      <3> DEFINE new == [scan[x] EXCEPT !.todo = @ \ {q}, !.row = q, !.step = "route"]
      <3>1. scan' = [scan EXCEPT ![x] = new]
        BY <1>0, <2>1 DEF Take, ScanState
      <3>2. new.todo = scan[x].todo \ {q} /\ new.row = q
        BY <1>0 DEF ScanState
      <3> HIDE DEF new
      <3> QED
        BY <1>0, <1>4, <3>1, <3>2, GoneOnKeepsRows DEF Rows
    <2> QED
      BY <1>2, <1>4, <2>1 DEF EmitBreach
  <1>5. ASSUME NEW q \in scan[x].todo, Reduce(x, q)
        PROVE  Keeps(x)
    <2>1. CASE ~Skip(x, q)
      <3> DEFINE decided == decideConvergenceStep(Latest(q.id), Run(q.id), MaxAttempts)
                 verdict == IF decided.append THEN Run(q.id) ELSE Latest(q.id)
                 new == [scan[x] EXCEPT !.todo = @ \ {q}, !.row = q,
                            !.step = IF decided.append THEN "verdict" ELSE "act",
                            !.decision = [verdict |-> verdict, outcome |-> decided.outcome]]
      <3>1. scan' = [scan EXCEPT ![x].todo = @ \ {q}, ![x].row = q,
                             ![x].step = IF decided.append THEN "verdict" ELSE "act",
                             ![x].decision = [verdict |-> verdict, outcome |-> decided.outcome]]
        BY <1>5, <2>1 DEF Reduce
      <3> HIDE DEF decided, verdict
      <3>2. scan' = [scan EXCEPT ![x] = new]
        BY <1>0, <3>1 DEF ScanState
      <3>3. new.todo = scan[x].todo \ {q} /\ new.row = q
        BY <1>0 DEF ScanState
      <3> HIDE DEF new
      <3> QED
        BY <1>0, <1>5, <3>2, <3>3, GoneOnKeepsRows DEF Rows
    <2> QED
      BY <1>2, <1>5, <2>1
  <1> QED
    BY <1>1, <1>3, <1>4, <1>5 DEF WorkerStep

LEMMA RowsAreRead ==
    ASSUME WorkerInv, [Next]_vars, NEW w \in Workers, NEW r \in Rows(w)'
    PROVE  r \in Rows(w) \/ r = NoRow \/ Read(r)
  <1>0. scan \in [Workers -> ScanState] /\ state \in [Id -> State \union {"absent"}]
    BY DEF WorkerInv, ShapesOK
  <1>1. CASE UNCHANGED scan
    BY <1>1 DEF Rows
  <1>2. ASSUME NEW x \in Workers, WorkerStep(x) \/ Fault(x), ~NextPass(x)
        PROVE  r \in Rows(w) \/ r = NoRow \/ Read(r)
    BY <1>0, <1>2, StepsKeepRows, KeptRows
  <1>3. ASSUME NEW x \in Workers, NextPass(x)
        PROVE  r \in Rows(w) \/ r = NoRow \/ Read(r)
    <2> DEFINE pass == After(scan[x].pass)
               s == IF pass = "idle" THEN Idle
                    ELSE [Idle EXCEPT !.pass = pass, !.todo = Candidates(pass)]
    <2>1. scan' = [scan EXCEPT ![x] = s] /\ UNCHANGED epoch
      BY <1>3 DEF NextPass, itemVars
    <2>2. s.row = NoRow /\ s.todo \subseteq Candidates(pass)
      BY DEF Idle
    <2> HIDE DEF s
    <2>3. CASE w = x
      <3>1. scan'[w] = s
        BY <1>0, <2>1, <2>3
      <3>2. r = NoRow \/ r \in Candidates(pass)
        BY <2>2, <3>1 DEF Rows
      <3> HIDE DEF pass
      <3>3. ASSUME r \in Candidates(pass)
            PROVE  Read(r)
        <4>1. PICK i \in Id : r = RowOf(i) /\ Selects(pass, i)
          BY <3>3 DEF Candidates
        <4>2. state[i] # "absent"
          BY <4>1 DEF Selects, scribeCandidates, reviewCandidates, dispatchCandidates,
                      convergenceCandidates, breachCandidates, PreClaim
        <4> QED
          BY <1>0, <2>1, <4>1, <4>2 DEF Read
      <3> QED
        BY <3>2, <3>3
    <2>4. CASE w # x
      <3>1. scan'[w] = scan[w]
        BY <1>0, <2>1, <2>4
      <3> QED
        BY <3>1 DEF Rows
    <2> QED
      BY <2>3, <2>4
  <1>4. UNCHANGED scan \/ \E x \in Workers : WorkerStep(x) \/ Fault(x)
    BY DEF Next, vars, Move, WaveThrough, Report, MarkReady, ProposeChecks, BudgetPasses,
           ClaimNext, LeaseEnds, MarkTerminal
  <1> QED
    BY <1>1, <1>2, <1>3, <1>4

LEMMA RowsStayEntered ==
    ASSUME WorkerInv, EntryInv, [Next]_vars
    PROVE  RowsEntered'
  <1> SUFFICES ASSUME NEW w \in Workers, NEW r \in Rows(w)'
               PROVE  r.state \in State /\ r.epoch <= epoch'[r.id]
    BY DEF RowsEntered
  <1>1. CASE r \in Rows(w)
    <2>1. r \in AnyRow
      BY <1>1 DEF Rows, WorkerInv, ShapesOK, ScanState
    <2>2. r.id \in Id /\ r.epoch \in Nat /\ r.state \in State /\ r.epoch <= epoch[r.id]
      BY <1>1, <2>1 DEF AnyRow, EntryInv, RowsEntered
    <2> QED
      BY <2>2, EpochsGoOn
  <1>2. CASE r = NoRow
    <2>1. "item" \in Id /\ "captured" \in State
      BY DEF Id, State
    <2> QED
      BY <1>2, <2>1, EpochsGoOn DEF NoRow
  <1>3. CASE Read(r)
    BY <1>3, EpochsGoOn DEF Read, RowOf
  <1> QED
    BY <1>1, <1>2, <1>3, RowsAreRead

\* A breach and an escalation are of a row that the worker holds.
LEMMA FactsStayEntered ==
    ASSUME WorkerInv, EntryInv, [Next]_vars
    PROVE  FactsEntered'
  <1> SUFFICES ASSUME NEW e \in (breached \union escalated)'
               PROVE  e \in Id \X Nat /\ e[2] <= epoch'[e[1]]
    BY DEF FactsEntered
  <1>1. CASE e \in breached \union escalated
    <2>1. e[1] \in Id /\ e[2] \in Nat /\ e \in Id \X Nat /\ e[2] <= epoch[e[1]]
      BY <1>1 DEF EntryInv, FactsEntered
    <2> QED
      BY <2>1, EpochsGoOn
  <1>2. ASSUME NEW w \in Workers, NEW r \in Rows(w), e = <<r.id, r.epoch>>
        PROVE  e \in Id \X Nat /\ e[2] <= epoch'[e[1]]
    <2>1. r \in AnyRow
      BY <1>2 DEF Rows, WorkerInv, ShapesOK, ScanState
    <2>2. r.id \in Id /\ r.epoch \in Nat /\ r.epoch <= epoch[r.id]
      BY <1>2, <2>1 DEF AnyRow, EntryInv, RowsEntered
    <2> QED
      BY <1>2, <2>2, EpochsGoOn
  <1>3. e \in breached \union escalated \/ \E w \in Workers : \E r \in Rows(w) : e = <<r.id, r.epoch>>
    <2>1. ASSUME NEW w \in Workers, WorkerStep(w) \/ Fault(w)
          PROVE  e \in breached \union escalated \/ \E r \in Rows(w) : e = <<r.id, r.epoch>>
      <3>1. ASSUME NEW r \in scan[w].todo, EmitBreach(w, r)
            PROVE  e \in breached \union escalated \/ \E q \in Rows(w) : e = <<q.id, q.epoch>>
        BY <3>1 DEF EmitBreach, Rows
      <3>2. CASE EscalateBreach(w)
        BY <3>2 DEF EscalateBreach, Rows
      <3>3. CASE UNCHANGED <<breached, escalated>>
        BY <3>3
      <3>4. \/ UNCHANGED <<breached, escalated>>
            \/ EscalateBreach(w)
            \/ \E r \in scan[w].todo : EmitBreach(w, r)
        BY <2>1 DEF WorkerStep, NextPass, ScanScribes, ScanReviews, SpawnChild, ScanDispatch, Reduce,
                    EmitVerdict, Accept, SetBlocked, Block, DispatchBreach, Fault, factVars
      <3> QED
        BY <3>1, <3>2, <3>3, <3>4
    <2>2. UNCHANGED <<breached, escalated>> \/ \E w \in Workers : WorkerStep(w) \/ Fault(w)
      BY DEF Next, vars, Move, WaveThrough, Report, MarkReady, ProposeChecks, BudgetPasses,
             ClaimNext, LeaseEnds, MarkTerminal, factVars
    <2> QED
      BY <2>1, <2>2
  <1> QED
    BY <1>1, <1>2, <1>3

LEMMA ColumnsStay ==
    ASSUME WorkerInv, EntryInv, [Next]_vars
    PROVE  ColumnsOK'
  <1>0. ColumnsOK
    BY DEF EntryInv
  <1>1. CASE UNCHANGED vars
    BY <1>0, <1>1 DEF vars, ColumnsOK
  <1>2. ASSUME NEW m \in Moves, Move(m[1], m[2])
        PROVE  ColumnsOK'
    BY <1>0, <1>2 DEF Move, inputVars, jobVars, ColumnsOK
  <1>3. ASSUME NEW i \in Id, NEW c \in BOOLEAN, WaveThrough(i, c)
        PROVE  ColumnsOK'
    BY <1>0, <1>3 DEF WaveThrough, inputVars, jobVars, ColumnsOK
  <1>4. CASE \/ \E i \in Id, s \in Readings : Report(i, s)
             \/ MarkReady
             \/ \E i \in Id : BudgetPasses(i)
    BY <1>0, <1>4 DEF Report, MarkReady, BudgetPasses, itemVars, inputVars, jobVars, ColumnsOK
  <1>5. ASSUME NEW wellFormed \in BOOLEAN, ProposeChecks(wellFormed)
        PROVE  ColumnsOK'
    <2>1. UNCHANGED <<ready, jobVars, faults>>
      BY <1>5 DEF ProposeChecks
    <2>2. proposals' = IF proposals < MaxAttempts THEN proposals + 1 ELSE proposals
      BY <1>5 DEF ProposeChecks
    <2>3. proposals' \in 0..MaxAttempts
      BY <1>0, <2>2, WorkerAssumption DEF ColumnsOK
    <2>4. UNCHANGED review \/ review' = [review EXCEPT !["scribe"] = "blocked"]
      <3>1. PICK validation, attempt :
               CASE validation # "malformed" -> ChildEnters("done") /\ UNCHANGED review
                 [] validation = "malformed" /\ attempt >= MaxAttempts ->
                      /\ review' = [review EXCEPT !["scribe"] = "blocked"]
                      /\ ChildEnters("blocked")
                 [] OTHER -> UNCHANGED <<review, state, epoch, due>>
        BY <1>5 DEF ProposeChecks
      <3>2. CASE validation # "malformed"
        BY <3>1, <3>2
      <3>3. CASE validation = "malformed" /\ attempt >= MaxAttempts
        BY <3>1, <3>3
      <3>4. CASE validation = "malformed" /\ ~(attempt >= MaxAttempts)
        BY <3>1, <3>4
      <3> QED
        BY <3>2, <3>3, <3>4
    <2> QED
      BY <1>0, <2>1, <2>3, <2>4 DEF jobVars, ColumnsOK
  <1>6. CASE \/ \E l \in Launchers, e \in Epoch : ClaimNext(l, e)
             \/ \E e \in Epoch : LeaseEnds(e)
             \/ \E l \in Launchers, to \in {"done", "failed"} : MarkTerminal(l, to)
    <2>1. UNCHANGED <<review, ready, proposals>>
      BY <1>6 DEF ClaimNext, LeaseEnds, MarkTerminal, itemVars, inputVars
    <2>2. faults' \in 0..MaxFaults
      BY <1>0, <1>6, WorkerAssumption DEF ClaimNext, LeaseEnds, MarkTerminal, ColumnsOK
    <2>3. NoJob \in Epoch
      BY WorkerAssumption DEF NoJob, Epoch, Id
    <2>4. claim' \in [Launchers -> Epoch]
      BY <1>0, <1>6, <2>3 DEF ClaimNext, LeaseEnds, MarkTerminal, ColumnsOK
    <2> QED
      BY <1>0, <2>1, <2>2, <2>4 DEF ColumnsOK
  <1>7. ASSUME NEW w \in Workers, WorkerStep(w) \/ Fault(w)
        PROVE  ColumnsOK'
    <2> DEFINE Rest == UNCHANGED <<ready, proposals, claim>>
               Faulty == faults < MaxFaults /\ faults' = faults + 1
               Reviewed == \E i : review' = [review EXCEPT ![i] = "blocked"]
    <2>1. CASE SetBlocked(w)
      <3>1. Rest /\ UNCHANGED faults /\ (UNCHANGED review \/ Reviewed)
        BY <2>1 DEF SetBlocked, inputVars, jobVars
      <3> QED
        BY <1>0, <3>1 DEF ColumnsOK
    <2>2. CASE EscalateBreach(w)
      <3>1. Rest /\ UNCHANGED faults
        BY <2>2 DEF EscalateBreach, inputVars, jobVars
      <3>2. UNCHANGED review \/ \E i, b : review' = [review EXCEPT ![i] = IF b THEN @ ELSE "blocked"]
        BY <2>2 DEF EscalateBreach
      <3>3. review' \in [Id -> {"unreviewed", "waved_through", "blocked"}]
        BY <1>0, <3>2 DEF ColumnsOK
      <3> QED
        BY <1>0, <3>1, <3>3 DEF ColumnsOK
    <2>3. CASE Fault(w)
      <3>1. Rest /\ Faulty /\ UNCHANGED review
        BY <2>3 DEF Fault, itemVars, inputVars, jobVars
      <3>2. MaxFaults \in Nat
        BY WorkerAssumption
      <3>3. faults' \in 0..MaxFaults
        BY <1>0, <3>1, <3>2 DEF ColumnsOK
      <3> QED
        BY <1>0, <3>1, <3>3 DEF ColumnsOK
    <2>4. ASSUME Rest, UNCHANGED <<faults, review>>
          PROVE  ColumnsOK'
      BY <1>0, <2>4 DEF ColumnsOK
    <2>5. CASE Accept(w) \/ Block(w)
      BY <2>4, <2>5 DEF Accept, Block, inputVars, jobVars
    <2>6. CASE NextPass(w) \/ EmitVerdict(w) \/ DispatchBreach(w)
      BY <2>4, <2>6 DEF NextPass, EmitVerdict, DispatchBreach, itemVars, inputVars, jobVars
    <2>7. ASSUME NEW r, ScanScribes(w, r) \/ ScanReviews(w, r)
          PROVE  ColumnsOK'
      BY <2>4, <2>7 DEF ScanScribes, ScanReviews, SpawnChild, inputVars, jobVars
    <2>8. ASSUME NEW r, ScanDispatch(w, r) \/ Reduce(w, r) \/ EmitBreach(w, r)
          PROVE  ColumnsOK'
      BY <2>4, <2>8 DEF ScanDispatch, Reduce, EmitBreach, itemVars, inputVars, jobVars
    <2> QED
      BY <1>7, <2>1, <2>2, <2>3, <2>5, <2>6, <2>7, <2>8 DEF WorkerStep
  <1> QED
    BY <1>1, <1>2, <1>3, <1>4, <1>5, <1>6, <1>7 DEF Next

LEMMA InitEntered == Init => EntryInv
  <1> SUFFICES ASSUME Init PROVE EntryInv
    OBVIOUS
  <1>1. ColumnsOK
    <2>1. NoJob \in Epoch
      BY WorkerAssumption DEF NoJob, Epoch, Id
    <2>2. MaxFaults \in Nat /\ MaxAttempts \in Nat
      BY WorkerAssumption
    <2>3. review \in [Id -> {"unreviewed", "waved_through", "blocked"}]
      BY DEF Init
    <2>4. claim \in [Launchers -> Epoch]
      BY <2>1 DEF Init
    <2>5. ready \in BOOLEAN
      BY DEF Init
    <2>6. proposals \in 0..MaxAttempts /\ faults \in 0..MaxFaults
      BY <2>2 DEF Init
    <2> QED
      BY <2>3, <2>4, <2>5, <2>6 DEF ColumnsOK
  <1>2. RowsEntered
    <2>1. ASSUME NEW w \in Workers
          PROVE  Rows(w) = {NoRow}
      BY DEF Init, Rows, Idle
    <2>2. NoRow.state \in State /\ NoRow.epoch <= epoch[NoRow.id]
      BY DEF NoRow, State, Id, Init
    <2> QED
      BY <2>1, <2>2 DEF RowsEntered
  <1>3. FactsEntered
    BY DEF Init, FactsEntered
  <1> QED
    BY <1>1, <1>2, <1>3 DEF EntryInv

\* Every variable of the metronome keeps its type for as long as the items stay within
\* the epochs of the instance: no pass reads a row that is not there or from an epoch
\* that was not entered, and what it records and dispatches names such an epoch (ScanOnce).
THEOREM TypeCorrect == Spec => [](WithinEpochs => TypeOK)
  <1>1. WorkerInv /\ EntryInv /\ [Next]_vars => EntryInv'
    BY RowsStayEntered, FactsStayEntered, ColumnsStay DEF EntryInv
  <1>2. WorkerInv /\ EntryInv => (WithinEpochs => TypeOK)
    <2> SUFFICES ASSUME WorkerInv, EntryInv, WithinEpochs PROVE TypeOK
      OBVIOUS
    <2>0. ShapesOK /\ ColumnsOK
      BY DEF WorkerInv, EntryInv
    <2>1. ASSUME NEW n \in Nat, NEW i \in Id, n <= epoch[i]
          PROVE  n \in 0..MaxEpoch
      BY <2>0, <2>1, WorkerAssumption DEF ShapesOK, WithinEpochs
    <2>2. epoch \in [Id -> 0..MaxEpoch]
      BY <2>0, <2>1 DEF ShapesOK
    <2>3. breached \subseteq Epoch /\ escalated \subseteq Epoch
      <3>1. ASSUME NEW e \in breached \union escalated
            PROVE  e \in Epoch
        <4>1. e \in Id \X Nat /\ e[1] \in Id /\ e[2] \in Nat /\ e[2] <= epoch[e[1]]
          BY DEF EntryInv, FactsEntered
        <4> QED
          BY <4>1, <2>1 DEF Epoch
      <3> QED
        BY <3>1
    <2>4. ASSUME NEW w \in Workers, NEW r \in Rows(w)
          PROVE  r \in Row
      <3>1. r \in AnyRow
        BY <2>0 DEF Rows, ShapesOK, ScanState
      <3>2. r.state \in State /\ r.epoch <= epoch[r.id]
        BY DEF EntryInv, RowsEntered
      <3>3. r.id \in Id /\ r.epoch \in Nat
        BY <3>1 DEF AnyRow
      <3>4. r.epoch \in 0..MaxEpoch
        BY <2>1, <3>2, <3>3
      <3> QED
        BY <3>1, <3>2, <3>4 DEF AnyRow, Row
    <2>5. ASSUME NEW w \in Workers
          PROVE  /\ scan[w].pass \in Pass \union {"idle"}
                 /\ scan[w].todo \subseteq Row
                 /\ scan[w].step \in {"next", "verdict", "act", "block", "route"}
                 /\ scan[w].row \in Row
      BY <2>0, <2>4 DEF Rows, ShapesOK, ScanState
    <2>6. \A i \in Id : \A n \in 1..Len(verdicts[i]) : verdicts[i][n] \in Verdict
      BY <2>0 DEF ShapesOK
    <2> QED
      BY <2>0, <2>2, <2>3, <2>5, <2>6 DEF ShapesOK, ColumnsOK, TypeOK
  <1> QED
    BY InitEntered, Invariance, <1>1, <1>2, PTL DEF Spec
=============================================================================
