--------------------------- MODULE Signals_proofs ---------------------------
(***************************************************************************)
(* Proofs about Signals, for any number of receivers, signals, keys,       *)
(* tokens, profiles and connections.                                       *)
(***************************************************************************)
EXTENDS Signals, FiniteSetTheorems, WellFoundedInduction, TLAPS

\* What the steps of Next do to a receiver: they move it on within its
\* transaction, begin one, end one, or leave all receivers alone.
Moves(r) ==
    \/ \E s \in Signals : Arrive(r, s)
    \/ signalItemBudget(r) \/ lockDedupeKey(r) \/ Resolve(r)
Ends(r) == Link(r) \/ Create(r) \/ Refuse(r) \/ Abort(r)
Around ==
    \/ \E i \in Signals : Finish(i) \/ Reopen(i)
    \/ \E old \in SUBSET recent : HourPasses(old)
    \/ \E p \in Profiles : Switch(p)
    \/ UNCHANGED vars

\* Every step is one of these.
LEMMA NextCases ==
    ASSUME [Next]_vars
    PROVE  \/ Around
           \/ \E r \in Receivers : Moves(r) \/ Begin(r) \/ Ends(r)
  BY DEF Next, Step, Moves, Ends, Around

-----------------------------------------------------------------------------
(* Types and connections                                                   *)

\* The end of a transaction, whatever it wrote.
LEMMA EndEffect ==
    ASSUME TypeOK, NEW r \in Receivers, Ends(r)
    PROVE  /\ InTx(r) /\ free' = free + 1
           /\ receiver' = [receiver EXCEPT ![r] = Idle]
           /\ holder' = [k \in Keys |-> IF holder[k] = r THEN Nobody ELSE holder[k]]
           /\ receiver'[r] = Idle /\ \A q \in Receivers \ {r} : receiver'[q] = receiver[q]
  <1>1. EndTx(r)
    BY DEF Ends, Link, Create, Refuse, Abort
  <1>2. InTx(r)
    BY DEF Ends, Link, Create, Refuse, Abort, InTx, At
  <1> QED
    BY <1>1, <1>2 DEF EndTx, TypeOK

\* What a receiver found: an item of its key to link to, or none and the budget.
LEMMA ResolveEffect ==
    ASSUME TypeOK, NEW r \in Receivers, Resolve(r)
    PROVE  /\ At(r, "resolve") /\ free' = free
           /\ receiver' \in [Receivers -> Receiver]
           /\ \A q \in Receivers \ {r} : receiver'[q] = receiver[q]
           /\ receiver'[r].phase = "commit" /\ receiver'[r].signal = receiver[r].signal
           /\ \/ receiver'[r].linked \in LiveItems(KeyOf[receiver[r].signal])
              \/ LiveItems(KeyOf[receiver[r].signal]) = {} /\ receiver'[r].linked = receiver[r].linked
  <1> DEFINE live == LiveItems(KeyOf[receiver[r].signal])
  <1>1. live \subseteq Signals \union {NoItem}
    BY DEF LiveItems, TypeOK, Payload
  <1>2. At(r, "resolve") /\ free' = free
    BY DEF Resolve
  <1>3. receiver \in [Receivers -> Receiver]
    BY DEF TypeOK
  <1>4. ASSUME NEW i \in live, NEW b \in BOOLEAN,
               receiver' = [receiver EXCEPT ![r].phase = "commit", ![r].linked = i, ![r].admitted = b]
        PROVE  /\ receiver' \in [Receivers -> Receiver]
               /\ \A q \in Receivers \ {r} : receiver'[q] = receiver[q]
               /\ receiver'[r].phase = "commit" /\ receiver'[r].signal = receiver[r].signal
               /\ receiver'[r].linked = i
    <2> DEFINE new == [receiver[r] EXCEPT !.phase = "commit", !.linked = i, !.admitted = b]
    <2>1. new \in Receiver /\ new.phase = "commit" /\ new.signal = receiver[r].signal /\ new.linked = i
      BY <1>1, <1>3 DEF Receiver, Phase
    <2>2. receiver' = [receiver EXCEPT ![r] = new]
      BY <1>3, <1>4 DEF Receiver
    <2> HIDE DEF new
    <2> QED
      BY <1>3, <2>1, <2>2
  <1>5. ASSUME NEW b \in BOOLEAN,
               receiver' = [receiver EXCEPT ![r].phase = "commit", ![r].admitted = b]
        PROVE  /\ receiver' \in [Receivers -> Receiver]
               /\ \A q \in Receivers \ {r} : receiver'[q] = receiver[q]
               /\ receiver'[r].phase = "commit" /\ receiver'[r].signal = receiver[r].signal
               /\ receiver'[r].linked = receiver[r].linked
    <2> DEFINE new == [receiver[r] EXCEPT !.phase = "commit", !.admitted = b]
    <2>1. new \in Receiver /\ new.phase = "commit" /\ new.signal = receiver[r].signal
          /\ new.linked = receiver[r].linked
      BY <1>3 DEF Receiver, Phase
    <2>2. receiver' = [receiver EXCEPT ![r] = new]
      BY <1>3, <1>5 DEF Receiver
    <2> HIDE DEF new
    <2> QED
      BY <1>3, <2>1, <2>2
  <1> DEFINE count == Cardinality(Created(TokenOf[receiver[r].signal]))
             Fits == admitItemCreation(count, receiver[r].max)
  <1>6. Fits \in BOOLEAN
    BY DEF admitItemCreation
  <1>7. CASE \E i \in live : receiver' = [receiver EXCEPT ![r].phase = "commit", ![r].linked = i,
                                                          ![r].admitted = TRUE]
    BY <1>2, <1>4, <1>7
  <1>8. CASE live = {} /\ receiver' = [receiver EXCEPT ![r].phase = "commit", ![r].admitted = Fits]
    <2> HIDE DEF Fits
    <2> QED
      BY <1>2, <1>5, <1>6, <1>8
  <1>9. QED
    BY <1>7, <1>8 DEF Resolve

\* A connection is taken by Begin and given back by the end of a transaction.
LEMMA ConnectionsStep ==
    ASSUME SignalsInv, [Next]_vars
    PROVE  ConnectionsOK' /\ free' \in 0..PoolSize
  <1> DEFINE busy == {r \in Receivers : InTx(r)}
  <1>1. /\ IsFiniteSet(busy) /\ Cardinality(busy) \in Nat
        /\ free \in Nat /\ free + Cardinality(busy) = PoolSize
    BY SignalsAssumption, FS_Subset, FS_CardinalityType DEF SignalsInv, ConnectionsOK, TypeOK
  <1>2. ASSUME Around PROVE busy' = busy /\ free' = free
    BY <1>2 DEF Around, Finish, Reopen, HourPasses, Switch, vars, InTx
  <1>3. ASSUME NEW r \in Receivers, Moves(r) PROVE busy' = busy /\ free' = free
    <2>1. CASE \E s \in Signals : Arrive(r, s)
      BY <2>1 DEF Arrive, At, Idle, InTx, SignalsInv, TypeOK
    <2>2. CASE signalItemBudget(r)
      BY <2>2 DEF signalItemBudget, At, InTx, SignalsInv, TypeOK
    <2>3. CASE lockDedupeKey(r)
      BY <2>3 DEF lockDedupeKey, At, Go, InTx, SignalsInv, TypeOK
    <2>4. CASE Resolve(r)
      <3>1. At(r, "resolve") /\ receiver'[r].phase = "commit" /\ free' = free
            /\ \A q \in Receivers \ {r} : receiver'[q] = receiver[q]
        BY <2>4, ResolveEffect DEF SignalsInv
      <3> QED
        BY <3>1 DEF At, InTx
    <2> QED
      BY <1>3, <2>1, <2>2, <2>3, <2>4 DEF Moves
  <1>4. ASSUME NEW r \in Receivers, Begin(r)
        PROVE  busy' = busy \union {r} /\ r \notin busy /\ free' = free - 1 /\ free > 0
    BY <1>4 DEF Begin, Ready, At, Go, InTx, SignalsInv, TypeOK
  <1>5. ASSUME NEW r \in Receivers, Ends(r)
        PROVE  busy' = busy \ {r} /\ r \in busy /\ free' = free + 1
    BY <1>5, EndEffect DEF InTx, Idle, SignalsInv
  <1> HIDE DEF busy
  <1>6. free' + Cardinality(busy') = PoolSize /\ free' \in Nat /\ Cardinality(busy') \in Nat
    <2>1. CASE Around
      BY <1>1, <1>2, <2>1
    <2>2. ASSUME NEW r \in Receivers, Moves(r) PROVE <1>6
      BY <1>1, <1>3, <2>2
    <2>3. ASSUME NEW r \in Receivers, Begin(r) PROVE <1>6
      <3>1. Cardinality(busy') = Cardinality(busy) + 1
        BY <1>1, <1>4, <2>3, FS_AddElement
      <3> QED
        BY <1>1, <1>4, <2>3, <3>1
    <2>4. ASSUME NEW r \in Receivers, Ends(r) PROVE <1>6
      <3>1. Cardinality(busy') = Cardinality(busy) - 1 /\ Cardinality(busy') \in Nat
        BY <1>1, <1>5, <2>4, FS_RemoveElement, FS_CardinalityType
      <3> QED
        BY <1>1, <1>5, <2>4, <3>1
    <2> QED
      BY <2>1, <2>2, <2>3, <2>4, NextCases
  <1> QED
    BY <1>6, SignalsAssumption DEF busy, ConnectionsOK

\* The other moves of a receiver, one field at a time.
LEMMA MoveEffect ==
    ASSUME TypeOK, NEW r \in Receivers, Moves(r), ~Resolve(r)
    PROVE  /\ receiver' \in [Receivers -> Receiver]
           /\ receiver'[r].phase \in {"budget", "begin", "resolve"} /\ receiver'[r].signal \in Signals \union {NoItem}
           /\ \A q \in Receivers \ {r} : receiver'[q] = receiver[q]
           /\ \/ receiver'[r].signal \in Signals /\ receiver'[r].linked = NoItem
              \/ /\ ~At(r, "idle")
                 /\ receiver'[r].signal = receiver[r].signal /\ receiver'[r].linked = receiver[r].linked
  <1>1. receiver \in [Receivers -> Receiver] /\ Idle \in Receiver
    BY DEF TypeOK, Idle, Receiver, Phase
  <1>2. CASE \E s \in Signals : Arrive(r, s)
    <2>1. PICK s \in Signals : Arrive(r, s)
      BY <1>2
    <2> DEFINE new == [Idle EXCEPT !.phase = "budget", !.signal = s]
    <2>2. new \in Receiver /\ new.phase = "budget" /\ new.signal = s /\ new.linked = NoItem
      BY DEF Receiver, Phase, Idle
    <2>3. receiver' = [receiver EXCEPT ![r] = new]
      BY <2>1 DEF Arrive
    <2> HIDE DEF new
    <2> QED
      BY <1>1, <2>2, <2>3
  <1>3. CASE signalItemBudget(r)
    <2>1. Budget[profile] \in Nat
      BY SignalsAssumption DEF TypeOK
    <2> QED
      BY <1>1, <1>3, <2>1 DEF signalItemBudget, Receiver, Phase, At
  <1>4. CASE lockDedupeKey(r)
    BY <1>1, <1>4 DEF lockDedupeKey, Go, Receiver, Phase, At
  <1> QED
    BY <1>2, <1>3, <1>4 DEF Moves

\* Record writes the row and the events of its own signal only.
LEMMA RecordEffect ==
    ASSUME TypeOK, NEW s \in Signals, NEW target \in Signals \union {NoItem}, NEW created \in BOOLEAN,
           Record(s, target, created)
    PROVE  /\ row' \in [Signals -> Payload] /\ log' \in [Signals -> SUBSET Payload] /\ recent' \subseteq Signals
           /\ \A t \in Signals \ {s} : row'[t] = row[t] /\ log'[t] = log[t]
           /\ \/ /\ row'[s] = [item |-> target, created |-> created]
                 /\ log'[s] = log[s] \union {[item |-> target, created |-> created]}
              \/ row'[s] = row[s] /\ log'[s] = log[s] /\ [item |-> target, created |-> created] \in log[s]
  <1> DEFINE event == [item |-> target, created |-> created]
  <1>1. event \in Payload
    BY DEF Payload
  <1>2. \/ event \in log[s] /\ UNCHANGED <<row, log, recent>>
        \/ /\ log' = [log EXCEPT ![s] = @ \union {event}]
           /\ row' = [row EXCEPT ![s] = event]
           /\ recent' = recent \union {s}
    BY DEF Record
  <1> HIDE DEF event
  <1>3. QED
    BY <1>1, <1>2 DEF TypeOK, event

\* Every step keeps the types.
LEMMA TypeStep ==
    ASSUME SignalsInv, [Next]_vars
    PROVE  TypeOK'
  <1> USE DEF SignalsInv
  <1>1. free' \in 0..PoolSize
    BY ConnectionsStep
  <1>2. CASE Around
    <2>1. CASE \E i \in Signals : Finish(i) \/ Reopen(i)
      BY <1>1, <2>1 DEF Finish, Reopen, TypeOK, clock
    <2>2. CASE \E old \in SUBSET recent : HourPasses(old)
      <3>1. hour' \in 0..MaxHours /\ escalations' \subseteq Tokens \X (0..MaxHours)
        BY <2>2, SignalsAssumption DEF HourPasses, TypeOK
      <3> QED
        BY <1>1, <2>2, <3>1 DEF HourPasses, TypeOK
    <2>3. CASE \E p \in Profiles : Switch(p)
      BY <1>1, <2>3 DEF Switch, TypeOK, durable
    <2>4. CASE UNCHANGED vars
      BY <2>4 DEF vars, TypeOK
    <2> QED
      BY <1>2, <2>1, <2>2, <2>3, <2>4 DEF Around
  <1>3. ASSUME NEW r \in Receivers, Moves(r) \/ Begin(r) PROVE TypeOK'
    <2>1. receiver' \in [Receivers -> Receiver]
      <3>1. CASE Begin(r)
        BY <3>1 DEF Begin, Go, TypeOK, Receiver, Phase
      <3> QED
        BY <1>3, <3>1, MoveEffect, ResolveEffect
    <2>2. UNCHANGED <<durable, clock, reopened>> /\ retries' \in 0..MaxRetries
          /\ holder' \in [Keys -> Receivers \union {Nobody}]
      <3>1. CASE \E s \in Signals : Arrive(r, s)
        BY <3>1, SignalsAssumption DEF Arrive, TypeOK
      <3>2. CASE lockDedupeKey(r)
        BY <3>2 DEF lockDedupeKey, TypeOK
      <3>3. CASE signalItemBudget(r) \/ Begin(r) \/ Resolve(r)
        BY <3>3 DEF signalItemBudget, Begin, Resolve, TypeOK
      <3> QED
        BY <1>3, <3>1, <3>2, <3>3 DEF Moves
    <2> QED
      BY <1>1, <2>1, <2>2 DEF TypeOK, durable, clock
  <1>4. ASSUME NEW r \in Receivers, Ends(r) PROVE TypeOK'
    <2>1. receiver' \in [Receivers -> Receiver] /\ holder' \in [Keys -> Receivers \union {Nobody}]
      <3>1. Idle \in Receiver
        BY DEF Idle, Receiver, Phase
      <3> QED
        BY <1>4, <3>1, EndEffect DEF TypeOK
    <2>2. receiver[r].signal \in Signals /\ receiver[r].linked \in Signals \union {NoItem}
      BY <1>4, EndEffect DEF TypeOK, Receiver, LockOK, InTx, At
    <2>3. UNCHANGED <<clock, retries, reopened>>
      BY <1>4 DEF Ends, Link, Create, Refuse, Abort
    <2>4. /\ row' \in [Signals -> Payload] /\ log' \in [Signals -> SUBSET Payload] /\ recent' \subseteq Signals
      <3>1. CASE Abort(r)
        BY <3>1 DEF Abort, durable, TypeOK
      <3>2. CASE Link(r) \/ Create(r) \/ Refuse(r)
        <4>1. \E t \in Signals \union {NoItem}, b \in BOOLEAN : Record(receiver[r].signal, t, b)
          BY <2>2, <3>2 DEF Link, Create, Refuse
        <4> QED
          BY <2>2, <4>1, RecordEffect
      <3> QED
        BY <1>4, <3>1, <3>2 DEF Ends
    <2>5. item' \in [Signals -> {"absent", "live", "terminal"}]
      BY <1>4, <2>2 DEF Ends, Link, Create, Refuse, Abort, CreateItem, durable, TypeOK
    <2>6. escalations' \subseteq Tokens \X (0..MaxHours)
      <3>1. CASE Refuse(r)
        <4>1. TokenOf[receiver[r].signal] \in Tokens
          BY <2>2, SignalsAssumption
        <4> QED
          BY <3>1, <4>1 DEF Refuse, Escalate, TypeOK
      <3>2. CASE ~Refuse(r)
        BY <1>4, <3>2 DEF Ends, Link, Create, Abort, durable, TypeOK
      <3> QED
        BY <3>1, <3>2
    <2> QED
      BY <1>1, <2>1, <2>3, <2>4, <2>5, <2>6 DEF TypeOK, clock
  <1> QED
    BY <1>2, <1>3, <1>4, NextCases

-----------------------------------------------------------------------------
(* The lock of a key                                                       *)

\* The lock taken by lockDedupeKey is held until the end of the transaction.
LEMMA LockStep ==
    ASSUME SignalsInv, [Next]_vars
    PROVE  LockOK'
  <1> USE DEF SignalsInv
  <1> DEFINE Goal(q) ==
               /\ receiver'[q].phase # "idle" => receiver'[q].signal \in Signals
               /\ receiver'[q].phase \in {"resolve", "commit"} /\ KeyOf[receiver'[q].signal] # NoKey
                     => holder'[KeyOf[receiver'[q].signal]] = q
  <1> SUFFICES ASSUME NEW q \in Receivers PROVE Goal(q)
    BY DEF LockOK, At, KeyHeld
  <1>1. receiver \in [Receivers -> Receiver] /\ holder \in [Keys -> Receivers \union {Nobody}]
        /\ Nobody \notin Receivers /\ \A s \in Signals : KeyOf[s] \in Keys \union {NoKey}
    BY SignalsAssumption DEF TypeOK
  <1>2. CASE Around
    <2>1. receiver' = receiver /\ holder' = holder
      BY <1>2 DEF Around, Finish, Reopen, HourPasses, Switch, vars
    <2> QED
      BY <2>1 DEF LockOK, At, KeyHeld
  <1>3. ASSUME NEW r \in Receivers, Moves(r) \/ Begin(r) PROVE Goal(q)
    <2>1. CASE Begin(r) \/ signalItemBudget(r)
      BY <1>1, <2>1 DEF Begin, signalItemBudget, Go, At, LockOK, KeyHeld, Receiver
    <2>2. CASE \E s \in Signals : Arrive(r, s)
      <3>1. holder' = holder /\ receiver'[r].phase = "budget" /\ receiver'[r].signal \in Signals
            /\ (q # r => receiver'[q] = receiver[q])
        BY <1>1, <2>2 DEF Arrive, Idle
      <3> QED
        BY <3>1 DEF LockOK, At, KeyHeld
    <2>3. CASE lockDedupeKey(r)
      <3>1. receiver'[r].phase = "resolve" /\ receiver'[r].signal = receiver[r].signal
            /\ (q # r => receiver'[q] = receiver[q]) /\ receiver[r].signal \in Signals
        BY <1>1, <2>3 DEF lockDedupeKey, Go, At, LockOK, Receiver
      <3>2. \/ KeyHeld(r) = NoKey /\ holder' = holder
            \/ holder[KeyHeld(r)] = Nobody /\ holder' = [holder EXCEPT ![KeyHeld(r)] = r]
        BY <1>1, <2>3, <3>1 DEF lockDedupeKey, Ready, KeyHeld
      <3> QED
        BY <1>1, <3>1, <3>2 DEF LockOK, At, KeyHeld
    <2>4. CASE Resolve(r)
      <3>1. holder' = holder /\ At(r, "resolve") /\ receiver'[r].signal = receiver[r].signal
            /\ (q # r => receiver'[q] = receiver[q])
        BY <2>4, ResolveEffect DEF Resolve
      <3> QED
        BY <3>1 DEF LockOK, At, KeyHeld
    <2> QED
      BY <1>3, <2>1, <2>2, <2>3, <2>4 DEF Moves
  <1>4. ASSUME NEW r \in Receivers, Ends(r) PROVE Goal(q)
    <2>1. receiver'[r].phase = "idle" /\ (q # r => receiver'[q] = receiver[q])
          /\ holder' = [k \in Keys |-> IF holder[k] = r THEN Nobody ELSE holder[k]]
      BY <1>4, EndEffect DEF Idle
    <2> QED
      BY <1>1, <2>1 DEF LockOK, At, KeyHeld
  <1> QED
    BY <1>2, <1>3, <1>4, NextCases

\* A lock has a holder only while that receiver is past it.
LEMMA HoldersStep ==
    ASSUME SignalsInv, HoldersOK, [Next]_vars
    PROVE  HoldersOK'
  <1> USE DEF SignalsInv
  <1> DEFINE Goal(k) == holder'[k] # Nobody =>
                           /\ receiver'[holder'[k]].phase \in {"resolve", "commit"}
                           /\ KeyOf[receiver'[holder'[k]].signal] = k
  <1> SUFFICES ASSUME NEW k \in Keys PROVE Goal(k)
    BY DEF HoldersOK, KeyHeld
  <1>1. receiver \in [Receivers -> Receiver] /\ holder \in [Keys -> Receivers \union {Nobody}]
        /\ Nobody \notin Receivers
    BY SignalsAssumption DEF TypeOK
  <1>2. holder[k] \in Receivers =>
            receiver[holder[k]].phase \in {"resolve", "commit"} /\ KeyOf[receiver[holder[k]].signal] = k
    BY <1>1 DEF HoldersOK, KeyHeld
  <1>3. CASE Around
    <2>1. receiver' = receiver /\ holder' = holder
      BY <1>3 DEF Around, Finish, Reopen, HourPasses, Switch, vars
    <2> QED
      BY <1>1, <1>2, <2>1
  <1>4. ASSUME NEW r \in Receivers, holder' = holder, receiver[r].phase \notin {"resolve", "commit"},
               \A q \in Receivers \ {r} : receiver'[q] = receiver[q]
        PROVE  Goal(k)
    BY <1>1, <1>2, <1>4
  <1>5. ASSUME NEW r \in Receivers, Moves(r) \/ Begin(r) PROVE Goal(k)
    <2>1. CASE Begin(r) \/ signalItemBudget(r)
      BY <1>1, <1>4, <2>1 DEF Begin, signalItemBudget, Go, At
    <2>2. CASE \E s \in Signals : Arrive(r, s)
      BY <1>1, <1>4, <2>2 DEF Arrive, At
    <2>3. CASE lockDedupeKey(r)
      <3>1. receiver'[r].phase = "resolve" /\ receiver'[r].signal = receiver[r].signal
            /\ (\A q \in Receivers \ {r} : receiver'[q] = receiver[q]) /\ At(r, "lock")
        BY <1>1, <2>3 DEF lockDedupeKey, Go, At, Receiver
      <3>2. holder' = holder \/ holder' = [holder EXCEPT ![KeyHeld(r)] = r]
        BY <2>3 DEF lockDedupeKey, KeyHeld
      <3>3. CASE holder' = holder
        BY <1>4, <3>1, <3>3 DEF At
      <3>4. CASE holder' = [holder EXCEPT ![KeyHeld(r)] = r] /\ KeyHeld(r) = k
        BY <1>1, <3>1, <3>4 DEF KeyHeld
      <3>5. CASE holder' = [holder EXCEPT ![KeyHeld(r)] = r] /\ KeyHeld(r) # k
        <4>1. holder'[k] = holder[k]
          BY <1>1, <3>5
        <4> QED
          BY <1>1, <1>2, <3>1, <4>1 DEF At
      <3> QED
        BY <3>2, <3>3, <3>4, <3>5
    <2>4. CASE Resolve(r)
      <3>1. holder' = holder /\ receiver'[r].phase = "commit" /\ receiver'[r].signal = receiver[r].signal
            /\ (\A q \in Receivers \ {r} : receiver'[q] = receiver[q])
        BY <2>4, ResolveEffect DEF Resolve
      <3> QED
        BY <1>1, <1>2, <3>1
    <2> QED
      BY <1>5, <2>1, <2>2, <2>3, <2>4 DEF Moves
  <1>6. ASSUME NEW r \in Receivers, Ends(r) PROVE Goal(k)
    <2>1. (\A q \in Receivers \ {r} : receiver'[q] = receiver[q])
          /\ holder' = [j \in Keys |-> IF holder[j] = r THEN Nobody ELSE holder[j]]
      BY <1>6, EndEffect
    <2> QED
      BY <1>1, <1>2, <2>1
  <1> QED
    BY <1>3, <1>5, <1>6, NextCases

-----------------------------------------------------------------------------
(* The item of a key                                                       *)

\* What the end of a transaction leaves in the tables: nothing, a link, an item
\* or a refusal of signal s.
Wrote(r, s, i) ==
    /\ s \in Signals /\ reopened' = reopened
    /\ \A t \in Signals \ {s} : row'[t] = row[t] /\ log'[t] = log[t] /\ item'[t] = item[t]
    /\ \/ row'[s] = row[s] /\ log'[s] = log[s] /\ item'[s] = item[s] /\ Abort(r)
       \/ /\ At(r, "commit") /\ i \in Signals /\ item'[s] = item[s]
          /\ row'[s].item = i \/ row'[s] = row[s]
          /\ log'[s] \subseteq log[s] \union {[item |-> i, created |-> FALSE]}
       \/ /\ At(r, "commit") /\ i = NoItem
          /\ item'[s] = IF item[s] = "absent" THEN "live" ELSE item[s]
          /\ row'[s].item = s \/ (row'[s] = row[s] /\ [item |-> s, created |-> TRUE] \in log[s])
          /\ log'[s] \subseteq log[s] \union {[item |-> s, created |-> TRUE]}
       \/ /\ At(r, "commit") /\ i = NoItem /\ item'[s] = item[s]
          /\ row'[s].item = NoItem \/ row'[s] = row[s]
          /\ log'[s] \subseteq log[s] \union {[item |-> NoItem, created |-> FALSE]}

\* The end of a transaction writes what Wrote says, of its own signal.
LEMMA WriteEffect ==
    ASSUME SignalsInv, NEW r \in Receivers, Ends(r)
    PROVE  Wrote(r, receiver[r].signal, receiver[r].linked)
  <1> DEFINE s == receiver[r].signal
             i == receiver[r].linked
  <1>1. s \in Signals /\ i \in Signals \union {NoItem} /\ TypeOK
    BY EndEffect DEF SignalsInv, TypeOK, Receiver, LockOK, InTx, At
  <1>2. CASE Abort(r)
    BY <1>1, <1>2 DEF Abort, durable, Wrote
  <1>3. CASE Link(r)
    <2>1. At(r, "commit") /\ i # NoItem /\ Record(s, i, FALSE) /\ UNCHANGED <<item, reopened>>
      BY <1>3 DEF Link
    <2> HIDE DEF s, i
    <2>2. /\ \A t \in Signals \ {s} : row'[t] = row[t] /\ log'[t] = log[t]
          /\ \/ row'[s].item = i /\ log'[s] = log[s] \union {[item |-> i, created |-> FALSE]}
             \/ row'[s] = row[s] /\ log'[s] = log[s] /\ [item |-> i, created |-> FALSE] \in log[s]
      BY <1>1, <2>1 DEF Record, TypeOK
    <2>3. Wrote(r, s, i)
      BY <1>1, <2>1, <2>2 DEF Wrote
    <2> QED
      BY <2>3 DEF s, i
  <1>4. CASE Create(r)
    <2>1. At(r, "commit") /\ i = NoItem /\ Record(s, s, TRUE) /\ CreateItem(s) /\ UNCHANGED reopened
      BY <1>4 DEF Create
    <2> HIDE DEF s, i
    <2>2. /\ \A t \in Signals \ {s} : item'[t] = item[t]
          /\ item'[s] = IF item[s] = "absent" THEN "live" ELSE item[s]
      BY <1>1, <2>1 DEF CreateItem, TypeOK
    <2>3. /\ \A t \in Signals \ {s} : row'[t] = row[t] /\ log'[t] = log[t]
          /\ \/ row'[s].item = s /\ log'[s] = log[s] \union {[item |-> s, created |-> TRUE]}
             \/ row'[s] = row[s] /\ log'[s] = log[s] /\ [item |-> s, created |-> TRUE] \in log[s]
      BY <1>1, <2>1 DEF Record, TypeOK
    <2>4. /\ \A t \in Signals \ {s} : row'[t] = row[t] /\ log'[t] = log[t] /\ item'[t] = item[t]
          /\ row'[s].item = s \/ (row'[s] = row[s] /\ [item |-> s, created |-> TRUE] \in log[s])
          /\ log'[s] \subseteq log[s] \union {[item |-> s, created |-> TRUE]}
      <3>1. \A t \in Signals \ {s} : row'[t] = row[t] /\ log'[t] = log[t] /\ item'[t] = item[t]
        BY <2>2, <2>3
      <3>2. row'[s].item = s \/ (row'[s] = row[s] /\ [item |-> s, created |-> TRUE] \in log[s])
        BY <2>3
      <3>3. log'[s] \subseteq log[s] \union {[item |-> s, created |-> TRUE]}
        BY <2>3
      <3> QED
        BY <3>1, <3>2, <3>3
    <2>5. Wrote(r, s, i)
      BY <1>1, <2>1, <2>2, <2>4, Zenon DEF Wrote
    <2> QED
      BY <2>5 DEF s, i
  <1>5. CASE Refuse(r)
    <2>1. At(r, "commit") /\ i = NoItem /\ Record(s, NoItem, FALSE) /\ UNCHANGED <<item, reopened>>
      BY <1>5 DEF Refuse
    <2> HIDE DEF s, i
    <2>2. /\ \A t \in Signals \ {s} : row'[t] = row[t] /\ log'[t] = log[t]
          /\ \/ row'[s].item = NoItem /\ log'[s] = log[s] \union {[item |-> NoItem, created |-> FALSE]}
             \/ row'[s] = row[s] /\ log'[s] = log[s] /\ [item |-> NoItem, created |-> FALSE] \in log[s]
      BY <1>1, <2>1 DEF Record, TypeOK
    <2>3. Wrote(r, s, i)
      BY <1>1, <2>1, <2>2 DEF Wrote
    <2> QED
      BY <2>3 DEF s, i
  <1> QED
    BY <1>2, <1>3, <1>4, <1>5 DEF Ends

\* Steps within a transaction write to no table.
LEMMA ReadersWriteNothing ==
    ASSUME NEW r \in Receivers, Moves(r) \/ Begin(r)
    PROVE  UNCHANGED <<row, log, item, reopened>>
  BY DEF Moves, Begin, Arrive, signalItemBudget, lockDedupeKey, Resolve, durable

\* Rows and receivers keep naming items of their own key.
LEMMA LinksStep ==
    ASSUME SignalsInv, [Next]_vars
    PROVE  LinksOK'
  <1> USE DEF SignalsInv
  <1>0. /\ NoItem \notin Signals /\ row \in [Signals -> Payload]
        /\ receiver \in [Receivers -> Receiver]
    BY SignalsAssumption DEF TypeOK
  <1>1. CASE Around
    <2>1. UNCHANGED <<row, log, receiver>>
      BY <1>1 DEF Around, Finish, Reopen, HourPasses, Switch, vars, durable
    <2>2. \A s \in Signals : item[s] # "absent" => item'[s] # "absent"
      BY <1>1 DEF Around, Finish, Reopen, HourPasses, Switch, vars, durable, TypeOK
    <2> QED
      BY <2>1, <2>2 DEF LinksOK, At, KeyHeld
  <1>2. ASSUME NEW r \in Receivers, Moves(r) \/ Begin(r) PROVE LinksOK'
    <2>1. UNCHANGED <<row, log, item>>
      BY <1>2, ReadersWriteNothing
    <2>2. ASSUME NEW q \in Receivers, receiver'[q].linked # NoItem
          PROVE  /\ receiver'[q].phase = "commit" /\ KeyOf[receiver'[q].signal] # NoKey
                 /\ KeyOf[receiver'[q].linked] = KeyOf[receiver'[q].signal]
      <3>1. CASE Begin(r)
        BY <1>0, <2>2, <3>1 DEF Begin, Go, At, LinksOK, KeyHeld, Receiver
      <3>2. CASE Moves(r) /\ ~Resolve(r)
        <4>1. CASE q # r
          BY <2>2, <3>2, <4>1, MoveEffect DEF LinksOK, At, KeyHeld
        <4>2. CASE q = r
          <5>1. At(r, "idle") \/ At(r, "budget") \/ At(r, "lock")
            BY <3>2 DEF Moves, Arrive, signalItemBudget, lockDedupeKey
          <5> QED
            BY <2>2, <3>2, <4>2, <5>1, MoveEffect DEF LinksOK, At
        <4> QED
          BY <4>1, <4>2
      <3>3. CASE Resolve(r)
        <4>1. CASE q # r
          BY <2>2, <3>3, <4>1, ResolveEffect DEF LinksOK, At, KeyHeld
        <4>2. CASE q = r
          <5>1. /\ receiver'[r].linked \in LiveItems(KeyOf[receiver[r].signal])
                /\ receiver'[r].signal = receiver[r].signal /\ receiver'[r].phase = "commit"
            BY <2>2, <3>3, <4>2, ResolveEffect DEF LinksOK, At
          <5> QED
            BY <4>2, <5>1 DEF LiveItems, LinksOK
        <4> QED
          BY <4>1, <4>2
      <3> QED
        BY <1>2, <3>1, <3>2, <3>3
    <2> QED
      BY <2>1, <2>2 DEF LinksOK, At, KeyHeld
  <1>3. ASSUME NEW r \in Receivers, Ends(r) PROVE LinksOK'
    <2> DEFINE s == receiver[r].signal
    <2>1. \A q \in Receivers : receiver'[q].linked # NoItem => q # r /\ receiver'[q] = receiver[q]
      BY <1>3, EndEffect DEF Idle
    <2>2. ASSUME NEW t \in Signals, KeyOf[t] # NoKey, row'[t].item # NoItem
          PROVE  KeyOf[row'[t].item] = KeyOf[t]
      <3>1. Wrote(r, s, receiver[r].linked)
        BY <1>3, WriteEffect
      <3>2. receiver[r].linked # NoItem => KeyOf[receiver[r].linked] = KeyOf[s]
        BY DEF LinksOK, KeyHeld
      <3> HIDE DEF s
      <3> QED
        BY <1>0, <2>2, <3>1, <3>2 DEF LinksOK, Wrote
    <2>3. ASSUME NEW t \in Signals, [item |-> t, created |-> TRUE] \in log'[t]
          PROVE  item'[t] # "absent"
      <3>1. CASE t # s
        BY <1>3, <2>3, <3>1, WriteEffect DEF LinksOK, Wrote
      <3>2. CASE t = s
        BY <1>0, <1>3, <2>3, <3>2, WriteEffect DEF LinksOK, Wrote
      <3> QED
        BY <3>1, <3>2
    <2> QED
      BY <2>1, <2>2, <2>3 DEF LinksOK, At, KeyHeld
  <1> QED
    BY <1>1, <1>2, <1>3, NextCases

\* What LiveOK says of one key.
LiveAt(k) ==
    /\ \A i, j \in LiveOf(k) : i = j
    /\ \A i \in LiveOf(k) : \E s \in Signals : KeyOf[s] = k /\ row[s].item = i
    /\ \A r \in Receivers : At(r, "commit") /\ KeyHeld(r) = k
          => \A i \in LiveOf(k) : i = receiver[r].linked

\* Under the lock, what Resolve finds is the live item of the key, if there is one.
LEMMA ResolveFinds ==
    ASSUME SignalsInv, NEW k \in Keys, LiveAt(k), NEW r \in Receivers, Resolve(r),
           KeyHeld(r) = k, NEW i \in LiveOf(k)
    PROVE  i = receiver'[r].linked
  <1>1. i \in Signals /\ item[i] = "live" /\ NoItem \notin Signals /\ k # NoKey
    BY SignalsAssumption DEF LiveOf
  <1>2. PICK s \in Signals : KeyOf[s] = k /\ row[s].item = i
    BY DEF LiveAt
  <1>3. i \in LiveItems(k)
    BY <1>1, <1>2 DEF LiveItems
  <1>4. receiver'[r].linked \in LiveItems(k)
    BY <1>3, ResolveEffect DEF SignalsInv, KeyHeld
  <1>5. PICK t \in Signals : /\ KeyOf[t] = k /\ row[t].item # NoItem
                             /\ item[row[t].item] = "live" /\ receiver'[r].linked = row[t].item
    BY <1>4 DEF LiveItems
  <1>6. row[t].item \in Signals
    BY <1>5 DEF SignalsInv, TypeOK, Payload
  <1>7. receiver'[r].linked \in LiveOf(k)
    BY <1>1, <1>5, <1>6 DEF LiveOf, SignalsInv, LinksOK
  <1> QED
    BY <1>7 DEF LiveAt

\* A transaction that commits is the only one of its key past the lock: what it
\* writes leads to the one live item, found or made.
LEMMA LiveEnds ==
    ASSUME SignalsInv, NEW k \in Keys, LiveAt(k), NEW r \in Receivers, Ends(r)
    PROVE  LiveAt(k)'
  <1> DEFINE s == receiver[r].signal
             l == receiver[r].linked
  <1>1. Wrote(r, s, l)
    BY WriteEffect
  <1>2. /\ NoItem \notin Signals /\ k # NoKey /\ item \in [Signals -> {"absent", "live", "terminal"}]
    BY SignalsAssumption DEF SignalsInv, TypeOK
  <1>3. receiver'[r] = Idle /\ \A q \in Receivers \ {r} : receiver'[q] = receiver[q]
    BY EndEffect DEF SignalsInv
  <1>4. ASSUME LiveOf(k)' \subseteq LiveOf(k),
               \A t \in Signals : KeyOf[t] = k => row'[t] = row[t]
        PROVE  LiveAt(k)'
    <2>1. \A q \in Receivers : receiver'[q].phase = "commit" => receiver'[q] = receiver[q]
      BY <1>3 DEF Idle
    <2> QED
      BY <1>4, <2>1 DEF LiveAt, At, KeyHeld
  <1>5. CASE KeyOf[s] # k
    <2> HIDE DEF s, l
    <2> QED
      BY <1>1, <1>4, <1>5 DEF Wrote, LiveOf
  <1>6. CASE Abort(r)
    BY <1>4, <1>6 DEF Abort, durable, LiveOf
  <1>7. CASE KeyOf[s] = k /\ ~Abort(r)
    <2>1. At(r, "commit")
      BY <1>7 DEF Ends, Link, Create, Refuse
    <2>2. \A q \in Receivers : ~(receiver'[q].phase = "commit" /\ KeyOf[receiver'[q].signal] = k)
      BY <1>2, <1>3, <1>7, <2>1 DEF SignalsInv, LockOK, At, KeyHeld, Idle
    <2>3. \A i \in LiveOf(k) : i = l
      BY <1>7, <2>1 DEF LiveAt, KeyHeld
    <2> HIDE DEF s, l
    <2>4. SUFFICES /\ \A i, j \in LiveOf(k)' : i = j
                   /\ \A i \in LiveOf(k)' : \E t \in Signals : KeyOf[t] = k /\ row'[t].item = i
      BY <2>2 DEF LiveAt, At, KeyHeld
    <2>5. CASE l \in Signals
      <3>1. LiveOf(k)' = LiveOf(k) /\ (row'[s].item = l \/ \A t \in Signals : row'[t] = row[t])
        BY <1>1, <1>2, <1>7, <2>5 DEF Wrote, LiveOf
      <3>2. s \in Signals
        BY <1>1 DEF Wrote
      <3> QED
        BY <1>7, <2>3, <3>1, <3>2 DEF LiveAt
    <2>6. CASE l = NoItem
      <3>1. LiveOf(k) = {}
        BY <1>2, <2>3, <2>6 DEF LiveOf
      <3>2. s \in Signals /\ \A t \in Signals \ {s} : item'[t] = item[t]
        BY <1>1 DEF Wrote
      <3>3. LiveOf(k)' \subseteq {s}
        BY <3>1, <3>2 DEF LiveOf
      <3>4. ASSUME s \in LiveOf(k)' PROVE row'[s].item = s
        <4>1. item'[s] = "live" /\ item[s] # "live"
          BY <1>7, <3>1, <3>2, <3>4 DEF LiveOf
        <4>2. item[s] = "absent" /\ (row'[s].item = s \/ [item |-> s, created |-> TRUE] \in log[s])
          BY <1>1, <1>2, <1>7, <2>6, <3>2, <4>1 DEF Wrote
        <4> QED
          BY <3>2, <4>2 DEF SignalsInv, LinksOK
      <3> QED
        BY <1>7, <3>2, <3>3, <3>4
    <2> QED
      BY <1>1, <1>7, <2>5, <2>6 DEF Wrote
  <1> QED
    BY <1>5, <1>6, <1>7

\* Every step keeps the one live item of an undisturbed key.
LEMMA LiveStep ==
    ASSUME SignalsInv, [Next]_vars
    PROVE  LiveOK'
  <1> SUFFICES ASSUME NEW k \in Keys, Undisturbed(k)' PROVE LiveAt(k)'
    BY DEF LiveOK, LiveAt
  <1>1. CASE Around
    <2>1. UNCHANGED <<row, receiver>> /\ reopened \subseteq reopened'
      BY <1>1 DEF Around, Finish, Reopen, HourPasses, Switch, vars, durable
    <2>2. LiveAt(k)
      BY <2>1 DEF SignalsInv, LiveOK, LiveAt, Undisturbed
    <2>3. LiveOf(k)' \subseteq LiveOf(k)
      BY <1>1 DEF Around, Finish, Reopen, HourPasses, Switch, vars, durable, LiveOf, Undisturbed,
                  SignalsInv, TypeOK
    <2> QED
      BY <2>1, <2>2, <2>3 DEF LiveAt, At, KeyHeld
  <1>2. ASSUME NEW r \in Receivers, Moves(r) \/ Begin(r) PROVE LiveAt(k)'
    <2>1. UNCHANGED <<row, item, reopened>>
      BY <1>2, ReadersWriteNothing
    <2>2. LiveAt(k)
      BY <2>1 DEF SignalsInv, LiveOK, LiveAt, Undisturbed
    <2>3. LiveOf(k)' = LiveOf(k)
      BY <2>1 DEF LiveOf
    <2>4. ASSUME NEW q \in Receivers, receiver'[q].phase = "commit", KeyOf[receiver'[q].signal] = k,
                 NEW i \in LiveOf(k)
          PROVE  i = receiver'[q].linked
      <3>1. CASE Begin(r)
        <4>1. receiver'[q] = receiver[q]
          BY <2>4, <3>1 DEF Begin, Go, SignalsInv, TypeOK, Receiver
        <4> QED
          BY <2>2, <2>4, <4>1 DEF LiveAt, At, KeyHeld
      <3>2. CASE Moves(r) /\ ~Resolve(r)
        <4>1. receiver'[q] = receiver[q]
          BY <2>4, <3>2, MoveEffect DEF SignalsInv
        <4> QED
          BY <2>2, <2>4, <4>1 DEF LiveAt, At, KeyHeld
      <3>3. CASE Resolve(r) /\ q # r
        <4>1. receiver'[q] = receiver[q]
          BY <3>3, ResolveEffect DEF SignalsInv
        <4> QED
          BY <2>2, <2>4, <4>1 DEF LiveAt, At, KeyHeld
      <3>4. CASE Resolve(r) /\ q = r
        <4>1. KeyHeld(r) = k
          BY <2>4, <3>4, ResolveEffect DEF SignalsInv, KeyHeld
        <4> QED
          BY <2>2, <2>4, <3>4, <4>1, ResolveFinds
      <3> QED
        BY <1>2, <3>1, <3>2, <3>3, <3>4
    <2> QED
      BY <2>1, <2>2, <2>3, <2>4 DEF LiveAt, At, KeyHeld
  <1>3. ASSUME NEW r \in Receivers, Ends(r) PROVE LiveAt(k)'
    <2>1. reopened' = reopened
      BY <1>3, WriteEffect DEF Wrote
    <2>2. LiveAt(k)
      BY <2>1 DEF SignalsInv, LiveOK, LiveAt, Undisturbed
    <2> QED
      BY <1>3, <2>2, LiveEnds
  <1> QED
    BY <1>1, <1>2, <1>3, NextCases

-----------------------------------------------------------------------------
(* The theorems                                                            *)

\* The inductive invariant: types, connections, the locks, the links and the one
\* live item of a key, which each step of a receiver keeps.
THEOREM Invariance == Spec => []SignalsInv
  <1>1. Init => SignalsInv
    <2> SUFFICES ASSUME Init PROVE SignalsInv
      OBVIOUS
    <2>1. TypeOK
      BY SignalsAssumption DEF Init, TypeOK, Payload, NoRow, Idle, Receiver, Phase
    <2>2. {r \in Receivers : InTx(r)} = {}
      BY DEF Init, InTx, Idle
    <2>3. ConnectionsOK
      <3>1. Cardinality({r \in Receivers : InTx(r)}) = 0
        BY <2>2, FS_EmptySet
      <3>2. free = PoolSize /\ PoolSize \in Nat
        BY SignalsAssumption DEF Init
      <3> QED
        BY <3>1, <3>2 DEF ConnectionsOK
    <2>4. LockOK /\ LinksOK /\ LiveOK
      BY DEF LockOK, LinksOK, LiveOK, Init, Idle, NoRow, At, KeyHeld, LiveOf
    <2> QED
      BY <2>1, <2>3, <2>4 DEF SignalsInv
  <1>2. SignalsInv /\ [Next]_vars => SignalsInv'
    <2> SUFFICES ASSUME SignalsInv, [Next]_vars PROVE SignalsInv'
      OBVIOUS
    <2> QED
      BY TypeStep, ConnectionsStep, LockStep, LinksStep, LiveStep DEF SignalsInv
  <1> QED
    BY <1>1, <1>2, PTL DEF Spec

\* The variables of a signal receiver keep their types: in particular, no
\* transaction takes a connection that is not free or gives one back twice.
THEOREM TypeCorrect == Spec => []TypeOK
  <1>1. SignalsInv => TypeOK
    BY DEF SignalsInv
  <1> QED
    BY <1>1, Invariance, PTL

\* Whatever the number of receivers that race on a dedupe key, of retries and of
\* transactions cut off, signals.Service.Receive leaves one live item of the key
\* at most, unless a late escalation reopened one (lockDedupeKey and
\* lookupLiveWorkItem).
THEOREM OneLiveItem == Spec => []OneLiveItemPerKey
  <1>1. SignalsInv => OneLiveItemPerKey
    <2> SUFFICES ASSUME SignalsInv, NEW k \in Keys, \A s \in reopened : KeyOf[s] # k
                 PROVE  Cardinality(LiveOf(k)) <= 1
      BY DEF OneLiveItemPerKey
    <2>1. \A i, j \in LiveOf(k) : i = j
      BY DEF SignalsInv, LiveOK, Undisturbed
    <2>2. CASE LiveOf(k) = {}
      BY <2>2, FS_EmptySet
    <2>3. ASSUME NEW i \in LiveOf(k) PROVE Cardinality(LiveOf(k)) <= 1
      <3>1. LiveOf(k) = {i}
        BY <2>1, <2>3
      <3> QED
        BY <3>1, FS_Singleton
    <2> QED
      BY <2>2, <2>3
  <1> QED
    BY <1>1, Invariance, PTL
-----------------------------------------------------------------------------
(* The hourly budget                                                       *)

\* A finite set of numbers that is not empty has a largest one.
LEMMA LargestExists ==
    ASSUME NEW S \in SUBSET Nat, IsFiniteSet(S), S # {}
    PROVE  Max(S) \in S /\ \A y \in S : y <= Max(S)
  <1> DEFINE above(n) == {z \in S : n < z}
             T == {above(x) : x \in S}
  <1>1. T \subseteq FiniteSubsetsOf(S) /\ T # {}
    <2>1. \A x \in S : above(x) \in SUBSET S /\ IsFiniteSet(above(x))
      BY FS_Subset
    <2> QED
      BY <2>1 DEF FiniteSubsetsOf
  <1>2. IsWellFoundedOn(StrictSubsetOrdering(S), FiniteSubsetsOf(S))
    BY FS_StrictSubsetOrderingWellFounded
  <1>3. \E A \in T : \A B \in T : ~(<<B, A>> \in StrictSubsetOrdering(S))
    <2> HIDE DEF T
    <2> QED
      BY <1>1, <1>2, WFMin
  <1>4. PICK x \in S : \A y \in S : ~(<<above(y), above(x)>> \in StrictSubsetOrdering(S))
    BY <1>3
  <1>5. \A y \in S : y <= x
    <2> SUFFICES ASSUME NEW y \in S, ~(y <= x) PROVE FALSE
      OBVIOUS
    <2>0. x \in Nat /\ y \in Nat /\ x < y /\ \A z \in S : y < z => x < z
      OBVIOUS
    <2>1. y \in above(x) /\ y \notin above(y) /\ above(y) \subseteq above(x) /\ above(x) \subseteq S
      <3>1. y \in above(x) /\ above(x) \subseteq S
        BY <2>0
      <3>2. y \notin above(y)
        BY <2>0
      <3>3. above(y) \subseteq above(x)
        BY <2>0
      <3> QED
        BY <3>1, <3>2, <3>3
    <2> HIDE DEF above
    <2>2. above(y) \in SUBSET S /\ above(x) \in SUBSET S /\ above(y) # above(x)
      BY <2>1
    <2> QED
      BY <1>4, <2>1, <2>2 DEF StrictSubsetOrdering
  <1>6. \E z \in S : \A y \in S : z >= y
    BY <1>5
  <1> QED
    BY <1>6 DEF Max

\* No profile allows more than the largest budget.
LEMMA LargestBudgetBounds ==
    ASSUME NEW p \in Profiles
    PROVE  LargestBudget \in Nat \ {0} /\ Budget[p] <= LargestBudget
  <1> DEFINE S == {Budget[q] : q \in Profiles}
  <1>1. Budget \in Surjection(Profiles, S)
    BY SignalsAssumption DEF Surjection
  <1>2. IsFiniteSet(S)
    BY <1>1, FS_Surjection, SignalsAssumption
  <1>3. S \in SUBSET (Nat \ {0}) /\ Budget[p] \in S
    BY SignalsAssumption
  <1>4. Max(S) \in S /\ \A y \in S : y <= Max(S)
    <2> HIDE DEF S
    <2> QED
      BY <1>2, <1>3, LargestExists
  <1> QED
    BY <1>3, <1>4 DEF LargestBudget

\* As many run together as there are receivers and connections.
LEMMA TogetherBounds ==
    ASSUME NEW n \in Nat, n <= Cardinality(Receivers), n <= PoolSize
    PROVE  Together \in Nat /\ n <= Together
  <1>1. Cardinality(Receivers) \in Nat /\ PoolSize \in Nat
    BY SignalsAssumption, FS_CardinalityType
  <1>2. \E x \in {Cardinality(Receivers), PoolSize} : \A y \in {Cardinality(Receivers), PoolSize} : x =< y
    BY <1>1
  <1>3. Together \in {Cardinality(Receivers), PoolSize}
    BY <1>2 DEF Together, Min
  <1> QED
    BY <1>1, <1>3

\* A receiver's budget is that of the profile it read, and reading it writes nothing.
LEMMA BudgetInHand ==
    ASSUME SignalsInv, BudgetOK, [Next]_vars, NEW q \in Receivers
    PROVE  receiver'[q].max <= LargestBudget
  <1>1. /\ profile \in Profiles /\ receiver \in [Receivers -> Receiver]
        /\ Budget[profile] <= LargestBudget /\ LargestBudget \in Nat /\ 0 <= LargestBudget
        /\ receiver[q].max <= LargestBudget
    BY LargestBudgetBounds DEF SignalsInv, TypeOK, BudgetOK
  <1>2. receiver'[q].max \in {0, Budget[profile], receiver[q].max}
    <2> USE DEF Receiver, Idle
    <2>1. CASE Around
      BY <2>1 DEF Around, Finish, Reopen, HourPasses, Switch, vars
    <2>2. ASSUME NEW r \in Receivers, Moves(r) PROVE <1>2
      <3>1. CASE \E s \in Signals : Arrive(r, s)
        BY <1>1, <3>1 DEF Arrive
      <3>2. CASE signalItemBudget(r)
        BY <1>1, <3>2 DEF signalItemBudget
      <3>3. CASE lockDedupeKey(r)
        BY <1>1, <3>3 DEF lockDedupeKey, Go
      <3>4. CASE Resolve(r)
        <4> DEFINE live == LiveItems(KeyOf[receiver[r].signal])
                   Fits == admitItemCreation(Cardinality(Created(TokenOf[receiver[r].signal])),
                                             receiver[r].max)
        <4>1. \/ \E i \in live : receiver' = [receiver EXCEPT ![r].phase = "commit", ![r].linked = i,
                                                              ![r].admitted = TRUE]
              \/ receiver' = [receiver EXCEPT ![r].phase = "commit", ![r].admitted = Fits]
          BY <3>4 DEF Resolve
        <4> HIDE DEF live, Fits
        <4>2. ASSUME NEW i, receiver' = [receiver EXCEPT ![r].phase = "commit", ![r].linked = i,
                                                          ![r].admitted = TRUE]
              PROVE  receiver'[q].max = receiver[q].max
          <5> DEFINE new == [receiver[r] EXCEPT !.phase = "commit", !.linked = i, !.admitted = TRUE]
          <5>1. new.max = receiver[r].max /\ receiver' = [receiver EXCEPT ![r] = new]
            BY <1>1, <4>2
          <5> HIDE DEF new
          <5> QED
            BY <1>1, <5>1
        <4>3. CASE receiver' = [receiver EXCEPT ![r].phase = "commit", ![r].admitted = Fits]
          BY <1>1, <4>3
        <4> QED
          BY <4>1, <4>2, <4>3
      <3> QED
        BY <2>2, <3>1, <3>2, <3>3, <3>4 DEF Moves
    <2>3. ASSUME NEW r \in Receivers, Begin(r) PROVE <1>2
      BY <1>1, <2>3 DEF Begin, Go
    <2>4. ASSUME NEW r \in Receivers, Ends(r) PROVE <1>2
      BY <1>1, <2>4, EndEffect DEF SignalsInv
    <2> QED
      BY <2>1, <2>2, <2>3, <2>4, NextCases
  <1> QED
    BY <1>1, <1>2

\* What a token has spent shrinks when no receiver starts to create.
LEMMA SpentShrinks ==
    ASSUME NEW t \in Tokens,
           \A q \in Receivers : Creating(q)' => Creating(q) /\ receiver'[q].signal = receiver[q].signal,
           Created(t)' \subseteq Spent(t)
    PROVE  Spent(t)' \subseteq Spent(t)
  BY DEF Spent

\* A receiver is let through while the count is below its budget.
LEMMA ResolveAdmits ==
    ASSUME SignalsInv, NEW r \in Receivers, Resolve(r), Creating(r)'
    PROVE  Cardinality(Created(TokenOf[receiver[r].signal])) < receiver[r].max
  <1> DEFINE live == LiveItems(KeyOf[receiver[r].signal])
             Fits == admitItemCreation(Cardinality(Created(TokenOf[receiver[r].signal])), receiver[r].max)
  <1>1. receiver \in [Receivers -> Receiver] /\ NoItem \notin live
    BY DEF SignalsInv, TypeOK, LiveItems
  <1>2. CASE \E i \in live : receiver' = [receiver EXCEPT ![r].phase = "commit", ![r].linked = i,
                                                          ![r].admitted = TRUE]
    BY <1>1, <1>2 DEF Creating, Receiver
  <1>3. CASE receiver' = [receiver EXCEPT ![r].phase = "commit", ![r].admitted = Fits]
    <2> HIDE DEF Fits
    <2>1. receiver'[r].admitted = Fits
      BY <1>1, <1>3 DEF Receiver
    <2> QED
      BY <2>1 DEF Creating, Fits, admitItemCreation
  <1> QED
    BY <1>2, <1>3 DEF Resolve

\* The sets that are counted are finite, and each creation under way adds one.
CountsAdd(t) ==
    /\ IsFiniteSet(Created(t)) /\ IsFiniteSet(Spent(t))
    /\ Cardinality(Created(t)) \in Nat /\ Cardinality(Spent(t)) \in Nat
    /\ Cardinality(Spent(t)) <= Cardinality(Created(t)) + Cardinality({q \in Receivers : Creating(q)})
    /\ IsFiniteSet({q \in Receivers : Creating(q)})

LEMMA SpentFinite ==
    ASSUME NEW t \in Tokens, IsFiniteSet(recent)
    PROVE  CountsAdd(t)
  <1> DEFINE C == {q \in Receivers : Creating(q)}
             A == {q \in Receivers : Creating(q) /\ TokenOf[receiver[q].signal] = t}
             S == {receiver[r].signal : r \in A}
             f == [r \in A |-> receiver[r].signal]
  <1>1. /\ IsFiniteSet(C) /\ IsFiniteSet(A) /\ Cardinality(A) <= Cardinality(C)
        /\ Cardinality(A) \in Nat /\ Cardinality(C) \in Nat
    <2>1. IsFiniteSet(C) /\ C \in SUBSET Receivers
      BY SignalsAssumption, FS_Subset
    <2>2. A \in SUBSET C
      OBVIOUS
    <2> QED
      BY <2>1, <2>2, FS_Subset, FS_CardinalityType
  <1>2. f \in Surjection(A, S)
    BY DEF Surjection
  <1>3. IsFiniteSet(S) /\ Cardinality(S) <= Cardinality(A) /\ Cardinality(S) \in Nat
    <2> HIDE DEF A, S, f
    <2> QED
      BY <1>1, <1>2, FS_Surjection, FS_CardinalityType
  <1>4. IsFiniteSet(Created(t)) /\ Cardinality(Created(t)) \in Nat
    BY FS_Subset, FS_CardinalityType DEF Created
  <1>5. Spent(t) = Created(t) \union S
    BY DEF Spent
  <1> HIDE DEF S, A, C
  <1>6. /\ IsFiniteSet(Spent(t)) /\ Cardinality(Spent(t)) \in Nat
        /\ Cardinality(Spent(t)) <= Cardinality(Created(t)) + Cardinality(S)
    <2>1. IsFiniteSet(Created(t) \union S)
      BY <1>3, <1>4, FS_Union
    <2>2. Cardinality(Created(t) \union S)
            = Cardinality(Created(t)) + Cardinality(S) - Cardinality(Created(t) \intersect S)
      BY <1>3, <1>4, FS_Union
    <2>3. IsFiniteSet(Created(t) \intersect S)
      BY <1>4, FS_Intersection
    <2>4. Cardinality(Created(t) \intersect S) \in Nat /\ Cardinality(Created(t) \union S) \in Nat
      BY <2>1, <2>3, FS_CardinalityType
    <2> QED
      BY <1>3, <1>4, <1>5, <2>1, <2>2, <2>4
  <1> QED
    BY <1>1, <1>3, <1>4, <1>6 DEF C, CountsAdd

\* Also after a step.
LEMMA SpentFiniteNext ==
    ASSUME NEW t \in Tokens
    PROVE  (IsFiniteSet(recent) => CountsAdd(t))'
  <1>1. IsFiniteSet(recent) => CountsAdd(t)
    BY SpentFinite
  <1> QED
    BY <1>1, PTL

\* The end of a transaction counts one creation more only if it was let through.
LEMMA EndSpends ==
    ASSUME SignalsInv, NEW r \in Receivers, Ends(r), NEW t \in Tokens
    PROVE  /\ Created(t)' \subseteq Spent(t)
           /\ recent' \subseteq recent \union {receiver[r].signal}
  <1> DEFINE s == receiver[r].signal
  <1>1. s \in Signals /\ row \in [Signals -> Payload] /\ log \in [Signals -> SUBSET Payload]
    BY EndEffect DEF SignalsInv, TypeOK, LockOK, InTx, At
  <1>2. Created(t) \subseteq Spent(t)
    BY DEF Spent
  <1>3. ASSUME NEW target \in Signals \union {NoItem}, Record(s, target, FALSE)
        PROVE  Created(t)' \subseteq Created(t) /\ recent' \subseteq recent \union {s}
    <2> HIDE DEF s
    <2>1. \/ UNCHANGED <<row, recent>>
          \/ /\ row' = [row EXCEPT ![s] = [item |-> target, created |-> FALSE]]
             /\ recent' = recent \union {s}
      BY <1>3 DEF Record
    <2>2. CASE UNCHANGED <<row, recent>>
      BY <2>2 DEF Created
    <2>3. CASE /\ row' = [row EXCEPT ![s] = [item |-> target, created |-> FALSE]]
               /\ recent' = recent \union {s}
      <3>1. row'[s].created = FALSE /\ \A u \in Signals \ {s} : row'[u] = row[u]
        BY <1>1, <2>3
      <3>2. recent \subseteq Signals
        BY DEF SignalsInv, TypeOK
      <3> QED
        BY <2>3, <3>1, <3>2 DEF Created
    <2> QED
      BY <2>1, <2>2, <2>3
  <1>4. CASE Abort(r)
    BY <1>2, <1>4 DEF Abort, durable, Created
  <1>5. CASE Link(r)
    <2>1. receiver[r].linked \in Signals \union {NoItem}
      BY DEF SignalsInv, TypeOK, Receiver
    <2> QED
      BY <1>2, <1>3, <1>5, <2>1 DEF Link
  <1>6. CASE Refuse(r)
    BY <1>2, <1>3, <1>6 DEF Refuse
  <1>7. CASE Create(r)
    <2>1. Creating(r) /\ Record(s, s, TRUE)
      BY <1>7 DEF Create, Creating
    <2>2. TokenOf[s] = t => s \in Spent(t)
      BY <2>1 DEF Spent
    <2>3. recent' \subseteq recent \union {s} /\ \A u \in Signals \ {s} : row'[u] = row[u]
      <3> HIDE DEF s
      <3> QED
        BY <1>1, <2>1 DEF Record
    <2>4. recent \subseteq Signals
      BY DEF SignalsInv, TypeOK
    <2> HIDE DEF s
    <2>5. Created(t)' \subseteq Created(t) \union {u \in {s} : TokenOf[u] = t}
      BY <2>3, <2>4 DEF Created
    <2>6. Created(t)' \subseteq Spent(t)
      BY <1>2, <2>2, <2>5
    <2> QED
      BY <2>3, <2>6 DEF s
  <1> QED
    BY <1>4, <1>5, <1>6, <1>7 DEF Ends

\* The budget's bound holds before and after every step.
LEMMA BudgetStep ==
    ASSUME SignalsInv, BudgetOK, [Next]_vars
    PROVE  BudgetOK'
  <1>1. \A q \in Receivers : receiver'[q].max <= LargestBudget
    BY BudgetInHand
  <1>2. IsFiniteSet(recent')
    <2>1. \/ recent' \subseteq recent
          \/ \E r \in Receivers : recent' \subseteq recent \union {receiver[r].signal}
      <3>1. CASE Around
        BY <3>1 DEF Around, Finish, Reopen, HourPasses, Switch, vars, durable
      <3>2. ASSUME NEW r \in Receivers, Moves(r) \/ Begin(r) PROVE recent' = recent
        BY <3>2 DEF Moves, Begin, Arrive, signalItemBudget, lockDedupeKey, Resolve, durable
      <3>3. ASSUME NEW r \in Receivers, Ends(r) PROVE recent' \subseteq recent \union {receiver[r].signal}
        <4>1. Tokens # {}
          BY <3>3, EndEffect, SignalsAssumption DEF SignalsInv, TypeOK, LockOK, InTx, At
        <4> QED
          BY <3>3, <4>1, EndSpends
      <3> QED
        BY <3>1, <3>2, <3>3, NextCases
    <2>2. IsFiniteSet(recent) /\ \A r \in Receivers : IsFiniteSet(recent \union {receiver[r].signal})
      BY FS_AddElement DEF BudgetOK
    <2> QED
      BY <2>1, <2>2, FS_Subset
  <1>3. ASSUME NEW t \in Tokens
        PROVE  Cardinality(Spent(t)') <= LargestBudget + Together - 1
    <2> DEFINE Bounded == Cardinality(Spent(t)') <= LargestBudget + Together - 1
    <2>0. IsFiniteSet(recent) /\ Cardinality(Spent(t)) <= LargestBudget + Together - 1
      BY DEF BudgetOK
    <2>1. Created(t) \subseteq Spent(t)
      BY DEF Spent
    <2>2. ASSUME Spent(t)' \subseteq Spent(t) PROVE Bounded
      <3>1. IsFiniteSet(Spent(t)) /\ Cardinality(Spent(t)) \in Nat
        BY <2>0, SpentFinite DEF CountsAdd
      <3>2. Cardinality(Spent(t)') <= Cardinality(Spent(t)) /\ Cardinality(Spent(t)') \in Nat
        BY <2>2, <3>1, FS_Subset, FS_CardinalityType
      <3>3. LargestBudget \in Nat /\ Together \in Nat
        BY LargestBudgetBounds, TogetherBounds, FS_CardinalityType, SignalsAssumption
           DEF SignalsInv, TypeOK
      <3> QED
        BY <2>0, <3>1, <3>2, <3>3
    <2>3. CASE Around
      <3>1. receiver' = receiver /\ row' = row /\ recent' \subseteq recent
        BY <2>3 DEF Around, Finish, Reopen, HourPasses, Switch, vars, durable
      <3>2. Spent(t)' \subseteq Spent(t)
        BY <3>1 DEF Spent, Created, Creating, At
      <3> QED
        BY <2>2, <3>2
    <2>4. ASSUME NEW r \in Receivers, Moves(r) \/ Begin(r), ~Resolve(r) PROVE Bounded
      <3>1. receiver'[r].phase # "commit" /\ \A q \in Receivers \ {r} : receiver'[q] = receiver[q]
        <4>1. CASE Begin(r)
          BY <4>1 DEF Begin, Go, SignalsInv, TypeOK
        <4> QED
          BY <2>4, <4>1, MoveEffect DEF SignalsInv
      <3>2. row' = row /\ recent' = recent
        BY <2>4 DEF Moves, Begin, Arrive, signalItemBudget, lockDedupeKey, Resolve, durable
      <3>3. \A q \in Receivers : Creating(q)' => Creating(q) /\ receiver'[q].signal = receiver[q].signal
        BY <3>1 DEF Creating, At
      <3>4. Created(t)' \subseteq Spent(t)
        BY <2>1, <3>2 DEF Created
      <3> QED
        BY <2>2, <3>3, <3>4, SpentShrinks
    <2>5. ASSUME NEW r \in Receivers, Ends(r) PROVE Bounded
      <3>1. receiver'[r] = Idle /\ \A q \in Receivers \ {r} : receiver'[q] = receiver[q]
        BY <2>5, EndEffect DEF SignalsInv
      <3>2. \A q \in Receivers : Creating(q)' => Creating(q) /\ receiver'[q].signal = receiver[q].signal
        BY <3>1 DEF Creating, At, Idle
      <3> QED
        BY <2>2, <2>5, <3>2, EndSpends, SpentShrinks
    <2>6. ASSUME NEW r \in Receivers, Resolve(r) PROVE Bounded
      <3>1. /\ At(r, "resolve") /\ receiver'[r].phase = "commit" /\ receiver'[r].signal = receiver[r].signal
            /\ \A q \in Receivers \ {r} : receiver'[q] = receiver[q]
        BY <2>6, ResolveEffect DEF SignalsInv
      <3>2. row' = row /\ recent' = recent
        BY <2>6 DEF Resolve, durable
      <3>3. Created(t)' = Created(t)
        BY <3>2 DEF Created
      <3>4. CASE ~(Creating(r)' /\ TokenOf[receiver[r].signal] = t)
        <4>1. \A q \in Receivers \ {r} : Creating(q)' <=> Creating(q)
          BY <3>1 DEF Creating, At
        <4>2. Spent(t)' \subseteq Spent(t)
          BY <3>1, <3>3, <3>4, <4>1 DEF Spent
        <4> QED
          BY <2>2, <4>2
      <3>5. CASE Creating(r)' /\ TokenOf[receiver[r].signal] = t
        <4>1. Cardinality(Created(t)) < receiver[r].max /\ receiver[r].max \in Nat
          BY <2>6, <3>5, ResolveAdmits DEF SignalsInv, TypeOK, Receiver
        <4>2. receiver[r].max <= LargestBudget /\ LargestBudget \in Nat
          BY LargestBudgetBounds DEF BudgetOK, SignalsInv, TypeOK
        <4> DEFINE C == {q \in Receivers : Creating(q)}
                   busy == {q \in Receivers : InTx(q)}
        <4>3. /\ IsFiniteSet(Created(t)') /\ Cardinality(Created(t)') \in Nat
              /\ Cardinality(Spent(t)') \in Nat
              /\ Cardinality(Spent(t)') <= Cardinality(Created(t)') + Cardinality(C')
              /\ IsFiniteSet(C')
          BY <1>2, SpentFiniteNext DEF CountsAdd
        <4>4. C' \subseteq busy' /\ IsFiniteSet(busy') /\ free' + Cardinality(busy') = PoolSize
              /\ free' \in 0..PoolSize /\ busy' \subseteq Receivers
          <5>1. ConnectionsOK' /\ free' \in 0..PoolSize
            BY ConnectionsStep
          <5> QED
            BY <5>1, FS_Subset, SignalsAssumption DEF ConnectionsOK, Creating, At, InTx
        <4>5. Cardinality(C') \in Nat /\ Cardinality(C') <= Cardinality(Receivers) /\ Cardinality(C') <= PoolSize
          <5> HIDE DEF C, busy
          <5>1. Cardinality(C') <= Cardinality(busy') /\ Cardinality(busy') <= Cardinality(Receivers)
            BY <4>4, FS_Subset, SignalsAssumption
          <5>2. Cardinality(C') \in Nat /\ Cardinality(busy') \in Nat /\ Cardinality(Receivers) \in Nat
            BY <4>3, <4>4, FS_CardinalityType, SignalsAssumption
          <5> QED
            BY <4>4, <5>1, <5>2, SignalsAssumption
        <4>6. Together \in Nat /\ Cardinality(C') <= Together
          <5> HIDE DEF C
          <5> QED
            BY <4>5, TogetherBounds
        <4> HIDE DEF C, busy
        <4> QED
          BY <3>3, <4>1, <4>2, <4>3, <4>5, <4>6
      <3> QED
        BY <3>4, <3>5
    <2> QED
      BY <2>3, <2>4, <2>5, <2>6, NextCases DEF Moves
  <1> QED
    BY <1>1, <1>2, <1>3 DEF BudgetOK

\* The hourly budget of a token is exceeded by fewer items than transactions can
\* run together, whatever profiles, receivers and connections there are
\* (admitItemCreation counts without a lock on the token).
THEOREM OvershootBounded == Spec => []OvershootIsBounded
  <1>1. Init => BudgetOK
    <2> SUFFICES ASSUME Init PROVE BudgetOK
      OBVIOUS
    <2>1. /\ IsFiniteSet(recent) /\ \A r \in Receivers : receiver[r] = Idle
      BY FS_EmptySet DEF Init
    <2>2. LargestBudget \in Nat \ {0} /\ Together \in Nat
      BY LargestBudgetBounds, TogetherBounds, FS_CardinalityType, SignalsAssumption DEF Init
    <2>3. \A t \in Tokens : Spent(t) = {}
      BY <2>1 DEF Init, Spent, Created, Creating, At, Idle
    <2> QED
      BY <2>1, <2>2, <2>3, FS_EmptySet DEF BudgetOK, Idle
  <1>2. SignalsInv /\ BudgetOK /\ [Next]_vars => BudgetOK'
    BY BudgetStep
  <1>3. SignalsInv /\ BudgetOK => OvershootIsBounded
    <2> SUFFICES ASSUME SignalsInv, BudgetOK, NEW t \in Tokens
                 PROVE  Cardinality(Created(t)) <= LargestBudget + Together - 1
      BY DEF OvershootIsBounded, LargestBudget, Together
    <2>1. /\ IsFiniteSet(Spent(t)) /\ Cardinality(Spent(t)) \in Nat
          /\ Cardinality(Created(t)) \in Nat /\ Created(t) \in SUBSET Spent(t)
      BY SpentFinite DEF BudgetOK, Spent, CountsAdd
    <2>2. Cardinality(Created(t)) <= Cardinality(Spent(t))
      BY <2>1, FS_Subset
    <2>3. LargestBudget \in Nat /\ Together \in Nat
      BY LargestBudgetBounds, TogetherBounds, FS_CardinalityType, SignalsAssumption DEF SignalsInv, TypeOK
    <2> QED
      BY <2>1, <2>2, <2>3 DEF BudgetOK
  <1> QED
    BY <1>1, <1>2, <1>3, Invariance, PTL DEF Spec


-----------------------------------------------------------------------------
(* Nobody is stuck                                                         *)

\* However many receivers run on however small a pool, one of them has the connection
\* or the lock that its next step waits for: whoever holds a lock has its connection
\* and waits for nothing, and when nobody is in a transaction the pool is full (Receive).
THEOREM SomeoneGoesOn == Spec => []ReceiversNeverStuck
  <1>1. Init => HoldersOK
    BY DEF Init, HoldersOK
  <1>2. SignalsInv /\ HoldersOK => ReceiversNeverStuck
    <2> SUFFICES ASSUME SignalsInv, HoldersOK, NEW r \in Receivers, ~At(r, "idle")
                 PROVE  \E q \in Receivers : Ready(q)
      BY DEF ReceiversNeverStuck
    <2>0. /\ receiver \in [Receivers -> Receiver] /\ PoolSize \in Nat \ {0}
          /\ holder \in [Keys -> Receivers \union {Nobody}]
      BY SignalsAssumption DEF SignalsInv, TypeOK
    <2>1. ASSUME NEW q \in Receivers, receiver[q].phase \in {"resolve", "commit"}
          PROVE  Ready(q)
      BY <2>1 DEF Ready, At
    <2>2. ASSUME NEW q \in Receivers, At(q, "lock"),
                 ~\E p \in Receivers : receiver[p].phase \in {"resolve", "commit"}
          PROVE  Ready(q)
      <3>1. \A k \in Keys : holder[k] = Nobody
        BY <2>0, <2>2 DEF HoldersOK
      <3> QED
        BY <2>2, <3>1 DEF Ready, At
    <2>3. ASSUME ~\E q \in Receivers : InTx(q)
          PROVE  Ready(r)
      <3>1. {q \in Receivers : InTx(q)} = {}
        BY <2>3
      <3>2. free + 0 = PoolSize
        BY <3>1, FS_EmptySet DEF SignalsInv, ConnectionsOK
      <3>3. free > 0
        BY <2>0, <3>2 DEF SignalsInv, TypeOK
      <3>4. receiver[r].phase # "lock"
        BY <2>3 DEF InTx
      <3> QED
        BY <3>3, <3>4 DEF Ready, At
    <2> QED
      BY <2>1, <2>2, <2>3 DEF InTx, At
  <1>3. SignalsInv /\ HoldersOK /\ [Next]_vars => HoldersOK'
    BY HoldersStep
  <1> QED
    BY <1>1, <1>2, <1>3, Invariance, PTL DEF Spec
=============================================================================
