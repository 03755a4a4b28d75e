--------------------------- MODULE ScenariosProofs ---------------------------
(***************************************************************************)
(* Safety of scheduled overrides and keep-alive, for any accounts,         *)
(* overrides, scenarios and remote, and any number of failures, upsets and *)
(* edits.                                                                  *)
(*                                                                         *)
(* A slot's overrides are applied by a recursive function, so what holds   *)
(* of them all is carried along its steps.  Three facts make the invariant *)
(* inductive: what is registered, not done and not lost is scheduled, once;*)
(* what is scheduled lies ahead of the open slot, unless a travel or an    *)
(* error passed its slot; and the accounts kept alive are those of the     *)
(* overrides that wrote.                                                   *)
(***************************************************************************)
EXTENDS Scenarios, SlotProofs, SequenceTheorems

-----------------------------------------------------------------------------
(* A slot's overrides *)

(* What is reached by the overrides of a slot, one after the other. *)
States ==
  [accounts : [Account -> Held \cup {None}], settled : SUBSET Account, wrote : SUBSET Override]

LEMMA NotHeld == None \notin Held
BY ScenariosAssumption

LEMMA Overrides ==
  /\ Target \in [Override -> Account]
  /\ Writes \in [Override -> SUBSET Account]
  /\ \A o \in Override : Target[o] \in Writes[o]
  /\ KeptAlive \in [Override -> SUBSET Account]
BY ScenariosAssumption

LEMMA FreshHeld ==
  /\ Fresh \in Held /\ Fresh.by = {}
  /\ \A o \in Override : [Fresh EXCEPT !.by = {o}] \in Held /\ [Fresh EXCEPT !.by = {o}].by = {o}
  /\ \A h \in Held, o \in Override :
       /\ [h EXCEPT !.by = @ \cup {o}] \in Held
       /\ [h EXCEPT !.by = @ \cup {o}].by = h.by \cup {o}
  /\ \A h \in Held, m \in Moments :
       /\ [h EXCEPT !.kept = m] \in Held
       /\ [h EXCEPT !.kept = m].kept = m
       /\ [h EXCEPT !.kept = m].by = h.by
<1>1. Fresh \in Held /\ Fresh.by = {}
  BY DEF Fresh, Held
<1>2. ASSUME NEW h \in Held, NEW o \in Override
      PROVE  /\ [h EXCEPT !.by = @ \cup {o}] \in Held
             /\ [h EXCEPT !.by = @ \cup {o}].by = h.by \cup {o}
  BY <1>2 DEF Held
<1>3. ASSUME NEW o \in Override
      PROVE  [Fresh EXCEPT !.by = {o}] \in Held /\ [Fresh EXCEPT !.by = {o}].by = {o}
  BY <1>3, <1>1 DEF Held
<1>4. ASSUME NEW h \in Held, NEW m \in Moments
      PROVE  /\ [h EXCEPT !.kept = m] \in Held
             /\ [h EXCEPT !.kept = m].kept = m
             /\ [h EXCEPT !.kept = m].by = h.by
  BY <1>4 DEF Held
<1> QED
  BY <1>1, <1>2, <1>3, <1>4

(* What one override does to what the earlier ones of its slot left: it    *)
(* writes all its accounts or none, brings no other, and takes nothing     *)
(* from what is settled.                                                   *)
OneOverride(s, t, o, stops) ==
  /\ s.settled \subseteq t.settled
  /\ \A a \in s.settled :
       s.accounts[a] # None => t.accounts[a] # None /\ s.accounts[a].by \subseteq t.accounts[a].by
  /\ \A a \in Account : s.accounts[a] = None /\ t.accounts[a] # None => a \in Writes[o]
  /\ \/ t.wrote = s.wrote
     \/ /\ ~stops /\ t.wrote = s.wrote \cup {o}
        /\ \A a \in Writes[o] : t.accounts[a] # None /\ o \in t.accounts[a].by
        /\ Writes[o] \ TokenAccounts \subseteq t.settled

LEMMA OverrideApplied ==
  ASSUME NEW s \in States, NEW o \in Override, NEW fault, NEW stops \in BOOLEAN
  PROVE  LET t == ApplyOverride(s, o, fault, stops)
         IN  t \in States /\ OneOverride(s, t, o, stops)
<1> DEFINE fetches == FetchesFirst(o, s.settled, fault)
           before == IF fetches THEN [s.accounts EXCEPT ![Target[o]] = Fresh] ELSE s.accounts
           writes == ~stops /\ o \notin fault.bad /\ before[Target[o]] # None
           with(a) == IF before[a] = None THEN [Fresh EXCEPT !.by = {o}]
                      ELSE [before[a] EXCEPT !.by = @ \cup {o}]
           after == [a \in Account |-> IF writes /\ a \in Writes[o] THEN with(a) ELSE before[a]]
           settled == s.settled \cup (IF fetches THEN {Target[o]} ELSE {})
                                \cup (IF writes THEN SettledBy(o) ELSE {})
           t == ApplyOverride(s, o, fault, stops)
<1>1. /\ s.accounts \in [Account -> Held \cup {None}]
      /\ s.settled \subseteq Account /\ s.wrote \subseteq Override
  BY DEF States
<1>2. Target[o] \in Account /\ Target[o] \in Writes[o] /\ Writes[o] \subseteq Account
  BY Overrides
<1>3. fetches => Target[o] \notin s.settled
  BY DEF FetchesFirst
<1>4. t = [accounts |-> after, settled |-> settled,
           wrote |-> s.wrote \cup (IF writes THEN {o} ELSE {})]
  BY DEF ApplyOverride
<1> HIDE DEF fetches, t
<1>5. /\ before \in [Account -> Held \cup {None}]
      /\ \A a \in Account : a # Target[o] \/ ~fetches => before[a] = s.accounts[a]
      /\ fetches => before[Target[o]] = Fresh
  BY <1>1, <1>2, FreshHeld
<1> HIDE DEF before
<1>6. \A a \in Account : with(a) \in Held /\ o \in with(a).by
                         /\ (before[a] # None => before[a].by \subseteq with(a).by)
  <2>1. ASSUME NEW a \in Account, before[a] = None PROVE with(a) \in Held /\ o \in with(a).by
    BY <2>1, FreshHeld
  <2>2. ASSUME NEW a \in Account, before[a] # None
        PROVE  with(a) \in Held /\ with(a).by = before[a].by \cup {o}
    <3>1. before[a] \in Held
      BY <1>5, <2>2
    <3> QED
      BY <2>2, <3>1, FreshHeld
  <2> QED
    BY <2>1, <2>2
<1> HIDE DEF with
<1>7. /\ after \in [Account -> Held \cup {None}]
      /\ \A a \in Account : after[a] = IF writes /\ a \in Writes[o] THEN with(a) ELSE before[a]
  BY <1>5, <1>6
<1> HIDE DEF writes, after
<1>8. settled \subseteq Account /\ s.settled \subseteq settled
  BY <1>1, <1>2 DEF SettledBy
<1>9. /\ t.accounts = after /\ t.settled = settled
      /\ t.wrote = s.wrote \cup (IF writes THEN {o} ELSE {})
  BY <1>4
<1>10. writes => Writes[o] \ TokenAccounts \subseteq settled
  BY DEF SettledBy
<1> HIDE DEF settled
<1>11. t \in States
  <2>1. s.wrote \cup (IF writes THEN {o} ELSE {}) \subseteq Override
    BY <1>1
  <2> QED
    BY <1>4, <1>7, <1>8, <2>1 DEF States
<1>12. ASSUME NEW a \in s.settled, s.accounts[a] # None
       PROVE  t.accounts[a] # None /\ s.accounts[a].by \subseteq t.accounts[a].by
  <2>1. a \in Account /\ before[a] = s.accounts[a]
    BY <1>1, <1>3, <1>5
  <2>2. CASE writes /\ a \in Writes[o]
    BY <1>6, <1>7, <1>9, <1>12, <2>1, <2>2, NotHeld
  <2>3. CASE ~(writes /\ a \in Writes[o])
    BY <1>7, <1>9, <1>12, <2>1, <2>3
  <2> QED
    BY <2>2, <2>3
<1>13. ASSUME NEW a \in Account, s.accounts[a] = None, t.accounts[a] # None PROVE a \in Writes[o]
  BY <1>2, <1>5, <1>7, <1>9, <1>13
<1>14. \/ t.wrote = s.wrote
       \/ /\ ~stops /\ t.wrote = s.wrote \cup {o}
          /\ \A a \in Writes[o] : t.accounts[a] # None /\ o \in t.accounts[a].by
          /\ Writes[o] \ TokenAccounts \subseteq t.settled
  <2>1. CASE writes
    <3>1. ~stops
      BY <2>1 DEF writes
    <3>2. \A a \in Writes[o] : t.accounts[a] # None /\ o \in t.accounts[a].by
      BY <1>2, <1>6, <1>7, <1>9, <2>1, NotHeld
    <3> QED
      BY <1>9, <1>10, <2>1, <3>1, <3>2
  <2>2. CASE ~writes
    BY <1>9, <2>2
  <2> QED
    BY <2>1, <2>2
<1>15. OneOverride(s, t, o, stops)
  BY <1>8, <1>9, <1>12, <1>13, <1>14 DEF OneOverride
<1> QED
  BY <1>11, <1>15 DEF t

(* After the first i overrides due, of which the one at "stop" fails.      *)
UpTo(s, due, stop, i) ==
  /\ \A o \in s.wrote : \E j \in 1..i \ {stop} : o = due[j]
  /\ \A o \in s.wrote : \A a \in Writes[o] \ TokenAccounts :
       a \in s.settled /\ s.accounts[a] # None /\ o \in s.accounts[a].by
  /\ \A a \in Account :
       accounts[a] = None /\ s.accounts[a] # None => \E j \in 1..i : a \in Writes[due[j]]

LEMMA NextOverride ==
  ASSUME NEW due, NEW stop, NEW i \in Nat \ {0}, due[i] \in Override,
         NEW s \in States, NEW t \in States, UpTo(s, due, stop, i - 1),
         OneOverride(s, t, due[i], i = stop)
  PROVE  UpTo(t, due, stop, i)
<1> DEFINE o == due[i]
<1>1. 1..(i - 1) \subseteq 1..i /\ i \in 1..i
  OBVIOUS
<1>2. s.wrote \subseteq Override /\ s.settled \subseteq Account
  BY DEF States
<1>3. \A q \in t.wrote : \E j \in 1..i \ {stop} : q = due[j]
  BY <1>1 DEF UpTo, OneOverride
<1>4. ASSUME NEW q \in t.wrote, NEW a \in Writes[q] \ TokenAccounts
      PROVE  a \in t.settled /\ t.accounts[a] # None /\ q \in t.accounts[a].by
  <2>1. CASE q \in s.wrote
    BY <1>4, <2>1 DEF UpTo, OneOverride
  <2>2. CASE q \notin s.wrote
    BY <1>4, <2>2 DEF OneOverride
  <2> QED
    BY <2>1, <2>2
<1>5. ASSUME NEW a \in Account, accounts[a] = None, t.accounts[a] # None
      PROVE  \E j \in 1..i : a \in Writes[due[j]]
  <2>1. CASE s.accounts[a] = None
    BY <1>1, <1>5, <2>1 DEF OneOverride
  <2>2. CASE s.accounts[a] # None
    BY <1>1, <1>5, <2>2 DEF UpTo
  <2> QED
    BY <2>1, <2>2
<1> QED
  BY <1>3, <1>4, <1>5 DEF UpTo

(* How far the overrides due are gone through. *)
LastOf(due, fault) == IF fault.stop = 0 THEN Len(due) ELSE fault.stop

LEMMA OverridesApplied ==
  ASSUME accounts \in [Account -> Held \cup {None}],
         NEW due \in Seq(Override), NEW fault \in Faults(due)
  PROVE  /\ ApplyOverrides(due, fault) \in States
         /\ UpTo(ApplyOverrides(due, fault), due, fault.stop, LastOf(due, fault))
<1> DEFINE n == LastOf(due, fault)
           first == [accounts |-> accounts, settled |-> {}, wrote |-> {}]
           F == [i \in 1..n |-> [s \in States |->
                   ApplyOverride(s, due[i], fault, i = fault.stop)]]
           Run(g) == [i \in 0..n |->
                        IF i = 0 THEN first
                        ELSE ApplyOverride(g[i - 1], due[i], fault, i = fault.stop)]
           state == CHOOSE g : g = Run(g)
           T == {i \in 0..n : state[i] \in States /\ UpTo(state[i], due, fault.stop, i)}
<1>1. n \in 0..Len(due) /\ n \in Nat /\ 1..n \subseteq 1..Len(due)
  BY DEF LastOf, Faults
<1>2. \A i \in 1..n : due[i] \in Override
  BY <1>1
<1>3. first \in States
  BY DEF States
<1>4. \A i \in 1..n, s \in States :
        LET t == ApplyOverride(s, due[i], fault, i = fault.stop)
        IN  t \in States /\ OneOverride(s, t, due[i], i = fault.stop)
  BY <1>2, OverrideApplied
<1> HIDE DEF n
<1>5. F \in [1..n -> [States -> States]]
  BY <1>4
<1>6. PICK g : Unrolls(g, n, States, first, F)
  <2> HIDE DEF F, first
  <2> QED
    BY <1>1, <1>3, <1>5, Recursion
<1>7. g = Run(g)
  <2>1. ASSUME NEW i \in 1..n
        PROVE  g[i] = ApplyOverride(g[i - 1], due[i], fault, i = fault.stop)
    <3>1. i - 1 \in 0..n
      BY <1>1
    <3> QED
      BY <1>6, <3>1 DEF Unrolls
  <2>2. \A i \in 0..n : g[i] = Run(g)[i]
    BY <1>1, <1>6, <2>1 DEF Unrolls
  <2> QED
    <3> HIDE DEF F, first
    <3> QED
      BY <1>6, <2>2 DEF Unrolls
<1>8. state = Run(state)
  <2> HIDE DEF Run
  <2> QED
    BY <1>7
<1>9. ApplyOverrides(due, fault) = state[n]
  BY DEF ApplyOverrides, n, LastOf
<1> HIDE DEF state
<1>10. 0 \in T
  <2>1. state[0] = first
    BY <1>1, <1>8
  <2> QED
    BY <1>1, <1>3, <2>1 DEF UpTo
<1>11. ASSUME NEW i \in 1..n, i - 1 \in T PROVE i \in T
  <2>1. i \in 0..n /\ i # 0 /\ i \in Nat \ {0} /\ state[i - 1] \in States
        /\ UpTo(state[i - 1], due, fault.stop, i - 1)
    BY <1>1, <1>11
  <2>2. state[i] = ApplyOverride(state[i - 1], due[i], fault, i = fault.stop)
    <3> HIDE DEF T, F, first
    <3> QED
      BY <1>8, <2>1
  <2>3. state[i] \in States /\ OneOverride(state[i - 1], state[i], due[i], i = fault.stop)
    BY <1>4, <2>1, <2>2
  <2>4. UpTo(state[i], due, fault.stop, i)
    BY <1>2, <2>1, <2>3, NextOverride
  <2> QED
    BY <2>1, <2>3, <2>4
<1>12. 0..n \subseteq T
  <2> HIDE DEF T
  <2> QED
    BY <1>1, <1>10, <1>11, StepByStep
<1>13. n \in 0..n
  BY <1>1
<1> QED
  BY <1>9, <1>12, <1>13 DEF n

-----------------------------------------------------------------------------
(* The schedule *)

LEMMA ScenarioTyped ==
  ASSUME NEW s \in Scenario
  PROVE  /\ Len(s) \in Nat /\ DOMAIN s = 1..Len(s)
         /\ \A i \in DOMAIN s : s[i].override \in Override /\ s[i].relative_slot \in Nat
         /\ \A i, j \in DOMAIN s : s[i].override = s[j].override => i = j
<1>1. s \in Seq([override : Override, relative_slot : Nat])
  BY ScenariosAssumption
<1>2. IsInjective([i \in DOMAIN s |-> s[i].override])
  BY ScenariosAssumption
<1>3. ASSUME NEW i \in DOMAIN s, NEW j \in DOMAIN s, s[i].override = s[j].override
      PROVE  i = j
  BY <1>2, <1>3 DEF IsInjective
<1>4. /\ Len(s) \in Nat /\ DOMAIN s = 1..Len(s)
      /\ \A i \in DOMAIN s : s[i] \in [override : Override, relative_slot : Nat]
  BY <1>1, LenProperties, ElementOfSeq
<1> QED
  BY <1>3, <1>4

(* d is what the first n overrides of a scenario add to a slot's.          *)
Pushed(d, s, base, slot, n) ==
  /\ \A k \in DOMAIN d : \E i \in 1..n :
       base + s[i].relative_slot = slot /\ d[k] = s[i].override
  /\ \A k, l \in DOMAIN d : d[k] = d[l] => k = l
  /\ \A i \in 1..n : base + s[i].relative_slot = slot => \E k \in DOMAIN d : d[k] = s[i].override

LEMMA PushNext ==
  ASSUME NEW d \in Seq(Override), NEW s, NEW base, NEW slot, NEW n \in Nat \ {0},
         s[n].override \in Override, \A i \in 1..n : s[i].override = s[n].override => i = n,
         Pushed(d, s, base, slot, n - 1),
         NEW e, e = IF base + s[n].relative_slot # slot THEN d ELSE Append(d, s[n].override)
  PROVE  e \in Seq(Override) /\ Pushed(e, s, base, slot, n)
<1>1. \A i \in 1..n : i = n \/ i \in 1..(n - 1)
  OBVIOUS
<1>2. 1..(n - 1) \subseteq 1..n /\ n \in 1..n /\ n \notin 1..(n - 1)
  OBVIOUS
<1>3. CASE base + s[n].relative_slot # slot
  BY <1>1, <1>2, <1>3 DEF Pushed
<1>4. CASE base + s[n].relative_slot = slot
  <2>1. e = Append(d, s[n].override)
    BY <1>4
  <2>2. /\ e \in Seq(Override) /\ DOMAIN e = DOMAIN d \cup {Len(d) + 1}
        /\ Len(d) + 1 \notin DOMAIN d
        /\ e[Len(d) + 1] = s[n].override /\ \A k \in DOMAIN d : e[k] = d[k]
    BY <2>1
  <2>3. \A k \in DOMAIN d : d[k] # s[n].override
    BY <1>2 DEF Pushed
  <2>4. \A k \in DOMAIN e : \E i \in 1..n :
          base + s[i].relative_slot = slot /\ e[k] = s[i].override
    BY <1>2, <1>4, <2>2 DEF Pushed
  <2>5. \A k, l \in DOMAIN e : e[k] = e[l] => k = l
    BY <2>2, <2>3 DEF Pushed
  <2>6. \A i \in 1..n : base + s[i].relative_slot = slot => \E k \in DOMAIN e : e[k] = s[i].override
    BY <1>1, <2>2 DEF Pushed
  <2> QED
    BY <2>2, <2>4, <2>5, <2>6 DEF Pushed
<1> QED
  BY <1>3, <1>4

LEMMA Due ==
  ASSUME NEW s \in Scenario, NEW base, NEW slot
  PROVE  /\ DueAt(s, base, slot) \in Seq(Override)
         /\ Pushed(DueAt(s, base, slot), s, base, slot, Len(s))
<1> DEFINE n == Len(s)
           Push(d, i) == IF base + s[i].relative_slot # slot THEN d ELSE Append(d, s[i].override)
           F == [i \in 1..n |-> [d \in Seq(Override) |-> Push(d, i)]]
           Run(g) == [i \in 0..n |->
                        IF i = 0 THEN <<>>
                        ELSE IF base + s[i].relative_slot # slot THEN g[i - 1]
                        ELSE Append(g[i - 1], s[i].override)]
           due == CHOOSE g : g = Run(g)
           T == {i \in 0..n : due[i] \in Seq(Override) /\ Pushed(due[i], s, base, slot, i)}
<1>1. /\ n \in Nat /\ DOMAIN s = 1..n
      /\ \A i \in 1..n : s[i].override \in Override
      /\ \A i, j \in 1..n : s[i].override = s[j].override => i = j
  BY ScenarioTyped
<1>2. \A i \in 1..n, d \in Seq(Override) : Push(d, i) \in Seq(Override)
  BY <1>1
<1> HIDE DEF n, Push
<1>3. F \in [1..n -> [Seq(Override) -> Seq(Override)]]
  BY <1>2
<1>4. PICK g : Unrolls(g, n, Seq(Override), <<>>, F)
  <2>1. <<>> \in Seq(Override)
    OBVIOUS
  <2> HIDE DEF F
  <2> QED
    BY <1>1, <1>3, <2>1, Recursion
<1>5. g = Run(g)
  <2>1. ASSUME NEW i \in 1..n PROVE g[i] = Push(g[i - 1], i)
    <3>1. i - 1 \in 0..n
      BY <1>1
    <3> QED
      BY <1>4, <3>1 DEF Unrolls
  <2>2. \A i \in 0..n : g[i] = Run(g)[i]
    <3>1. g[0] = Run(g)[0]
      BY <1>1, <1>4 DEF Unrolls
    <3>2. \A i \in 1..n : i \in 0..n /\ i # 0
      BY <1>1
    <3>3. ASSUME NEW i \in 1..n PROVE g[i] = Run(g)[i]
      BY <2>1, <3>2 DEF Push
    <3>4. \A i \in 0..n : i = 0 \/ i \in 1..n
      BY <1>1
    <3> QED
      BY <3>1, <3>3, <3>4
  <2> QED
    <3> HIDE DEF F
    <3> QED
      BY <1>4, <2>2 DEF Unrolls
<1>6. due = Run(due)
  <2> HIDE DEF Run
  <2> QED
    BY <1>5
<1>7. DueAt(s, base, slot) = due[n]
  BY DEF DueAt, n
<1> HIDE DEF due
<1>8. 0 \in T
  <2>1. due[0] = <<>>
    BY <1>1, <1>6
  <2> QED
    <3>1. /\ <<>> \in Seq(Override) /\ DOMAIN <<>> = {} /\ 1..0 = {}
          /\ 0 \in 0..n
      BY <1>1
    <3>2. Pushed(<<>>, s, base, slot, 0)
      BY <3>1, Zenon DEF Pushed
    <3> QED
      BY <2>1, <3>1, <3>2
<1>9. ASSUME NEW i \in 1..n, i - 1 \in T PROVE i \in T
  <2>1. /\ i \in 0..n /\ i # 0 /\ i \in Nat \ {0} /\ due[i - 1] \in Seq(Override)
        /\ Pushed(due[i - 1], s, base, slot, i - 1)
    BY <1>1, <1>9
  <2>2. due[i] = IF base + s[i].relative_slot # slot THEN due[i - 1]
                 ELSE Append(due[i - 1], s[i].override)
    <3> HIDE DEF T
    <3> QED
      BY <1>6, <2>1
  <2>3. \A j \in 1..i : s[j].override = s[i].override => j = i
    BY <1>1
  <2>4. due[i] \in Seq(Override) /\ Pushed(due[i], s, base, slot, i)
    <3> HIDE DEF T
    <3> QED
      BY <1>1, <2>1, <2>2, <2>3, PushNext
  <2> QED
    BY <2>1, <2>4
<1>10. 0..n \subseteq T
  <2> HIDE DEF T
  <2> QED
    BY <1>1, <1>8, <1>9, StepByStep
<1>11. n \in 0..n
  BY <1>1
<1> QED
  BY <1>7, <1>10, <1>11 DEF n

(* An override is in a schedule, at an index of a slot's.                  *)
In(schedule, o, slot, i) ==
  slot \in DOMAIN schedule /\ i \in DOMAIN schedule[slot] /\ schedule[slot][i] = o

(* The overrides of S are in a schedule, once each, and no others.         *)
HoldsOnce(schedule, S) ==
  /\ \A o : (\E slot, i : In(schedule, o, slot, i)) <=> o \in S
  /\ \A o, slot, i, other, j :
       In(schedule, o, slot, i) /\ In(schedule, o, other, j) => slot = other /\ i = j

Typed(schedule) ==
  /\ DOMAIN schedule \subseteq Nat
  /\ \A slot \in DOMAIN schedule : schedule[slot] \in Seq(Override) \ {<<>>}

OfSlot(schedule, slot) == IF slot \in DOMAIN schedule THEN schedule[slot] ELSE <<>>

(* A scenario's overrides, of which S has none, are added to the schedule  *)
(* that holds those of S.                                                  *)
Adds(schedule, S, s, base, overrides, new) ==
  /\ Typed(schedule) /\ S \in SUBSET Override /\ HoldsOnce(schedule, S)
  /\ s \in Scenario /\ base \in Nat
  /\ overrides = {s[i].override : i \in DOMAIN s} /\ S \cap overrides = {}
  /\ new = [slot \in DOMAIN schedule \cup {base + s[i].relative_slot : i \in DOMAIN s} |->
              OfSlot(schedule, slot) \o DueAt(s, base, slot)]

LEMMA Registered ==
  ASSUME NEW schedule, NEW S, NEW s, NEW base, NEW overrides, NEW new,
         Adds(schedule, S, s, base, overrides, new)
  PROVE  Typed(new) /\ HoldsOnce(new, S \cup overrides) /\ overrides \subseteq Override
<1> DEFINE At(slot) == OfSlot(schedule, slot)
           More(slot) == DueAt(s, base, slot)
           slots == {base + s[i].relative_slot : i \in DOMAIN s}
<1>0. /\ Typed(schedule) /\ S \in SUBSET Override /\ HoldsOnce(schedule, S)
      /\ s \in Scenario /\ base \in Nat
      /\ S \cap overrides = {}
  BY DEF Adds
<1> USE <1>0
<1>1. /\ Len(s) \in Nat /\ DOMAIN s = 1..Len(s)
      /\ \A i \in DOMAIN s : s[i].override \in Override /\ s[i].relative_slot \in Nat
      /\ \A i, j \in DOMAIN s : s[i].override = s[j].override => i = j
  BY ScenarioTyped
<1>2. /\ slots \subseteq Nat /\ overrides \subseteq Override
      /\ \A o \in overrides : \E i \in DOMAIN s : o = s[i].override
      /\ \A i \in DOMAIN s : s[i].override \in overrides /\ base + s[i].relative_slot \in slots
      /\ \A slot \in slots : \E i \in DOMAIN s : slot = base + s[i].relative_slot
  BY <1>1 DEF Adds
<1>3. \A slot : More(slot) \in Seq(Override) /\ Pushed(More(slot), s, base, slot, Len(s))
  BY Due
<1>4. \A slot : At(slot) \in Seq(Override)
  BY DEF OfSlot, Typed
<1>5. new = [slot \in DOMAIN schedule \cup slots |-> At(slot) \o More(slot)]
  BY DEF Adds
<1> HIDE DEF More, At, slots
<1>6. /\ DOMAIN new = DOMAIN schedule \cup slots
      /\ \A slot \in DOMAIN new : new[slot] = At(slot) \o More(slot)
  BY <1>5
<1>7. \A slot : /\ At(slot) \o More(slot) \in Seq(Override)
                /\ Len(At(slot) \o More(slot)) = Len(At(slot)) + Len(More(slot))
                /\ \A i \in 1..(Len(At(slot)) + Len(More(slot))) :
                     (At(slot) \o More(slot))[i] =
                        IF i <= Len(At(slot)) THEN At(slot)[i] ELSE More(slot)[i - Len(At(slot))]
  BY <1>3, <1>4
<1>8. \A slot : Len(At(slot)) \in Nat /\ Len(More(slot)) \in Nat
                /\ DOMAIN At(slot) = 1..Len(At(slot)) /\ DOMAIN More(slot) = 1..Len(More(slot))
  BY <1>3, <1>4
<1>9. ASSUME NEW slot \in DOMAIN new PROVE new[slot] \in Seq(Override) \ {<<>>}
  <2>1. new[slot] \in Seq(Override) /\ Len(new[slot]) = Len(At(slot)) + Len(More(slot))
    BY <1>6, <1>7
  <2>2. CASE slot \in DOMAIN schedule
    <3>1. At(slot) # <<>> /\ Len(At(slot)) # 0
      BY <2>2 DEF At, OfSlot, Typed
    <3> QED
      BY <1>8, <2>1, <3>1
  <2>3. CASE slot \in slots
    <3>1. PICK i \in DOMAIN s : slot = base + s[i].relative_slot
      BY <1>2, <2>3
    <3>2. Pushed(More(slot), s, base, slot, Len(s)) /\ i \in 1..Len(s)
      BY <1>1, <1>3
    <3>3. \E k \in DOMAIN More(slot) : More(slot)[k] = s[i].override
      BY <3>1, <3>2 DEF Pushed
    <3> QED
      BY <1>8, <2>1, <3>3
  <2> QED
    BY <1>6, <2>2, <2>3
<1>10. Typed(new)
  BY <1>2, <1>6, <1>9 DEF Typed
(* Where an override is: where it was, or where it is due.                 *)
<1>11. ASSUME NEW slot, NEW k, NEW o, In(new, o, slot, k)
       PROVE  \/ In(schedule, o, slot, k)
              \/ /\ k \in Nat /\ k - Len(At(slot)) \in DOMAIN More(slot)
                 /\ More(slot)[k - Len(At(slot))] = o
  <2>1. /\ slot \in DOMAIN new /\ k \in DOMAIN new[slot] /\ new[slot][k] = o
        /\ new[slot] = At(slot) \o More(slot)
    BY <1>6, <1>11 DEF In
  <2>2. k \in 1..(Len(At(slot)) + Len(More(slot)))
    BY <1>7, <1>8, <2>1
  <2>3. CASE k <= Len(At(slot))
    <3>1. At(slot)[k] = o /\ k \in DOMAIN At(slot)
      BY <1>7, <1>8, <2>1, <2>2, <2>3
    <3>2. slot \in DOMAIN schedule /\ schedule[slot] = At(slot)
      BY <3>1 DEF At, OfSlot
    <3> QED
      BY <3>1, <3>2 DEF In
  <2>4. CASE ~(k <= Len(At(slot)))
    BY <1>7, <1>8, <2>1, <2>2, <2>4
  <2> QED
    BY <2>3, <2>4
<1>12. ASSUME NEW slot, NEW k, NEW o, In(schedule, o, slot, k) PROVE In(new, o, slot, k)
  <2>1. slot \in DOMAIN new /\ At(slot) = schedule[slot] /\ k \in DOMAIN At(slot) /\ At(slot)[k] = o
    BY <1>6, <1>12 DEF In, At, OfSlot
  <2>2. new[slot] = At(slot) \o More(slot)
    BY <1>6, <2>1
  <2>3. k \in 1..(Len(At(slot)) + Len(More(slot))) /\ k <= Len(At(slot))
    BY <1>8, <2>1
  <2>4. DOMAIN (At(slot) \o More(slot)) = 1..(Len(At(slot)) + Len(More(slot)))
    BY <1>7
  <2>5. (At(slot) \o More(slot))[k] = At(slot)[k]
    BY <1>7, <2>3
  <2>6. k \in DOMAIN new[slot] /\ new[slot][k] = At(slot)[k]
    BY <2>2, <2>3, <2>4, <2>5
  <2> QED
    BY <2>1, <2>6 DEF In
<1>13. ASSUME NEW slot \in slots, NEW j \in DOMAIN More(slot)
       PROVE  In(new, More(slot)[j], slot, Len(At(slot)) + j)
  <2>1. slot \in DOMAIN new /\ new[slot] = At(slot) \o More(slot)
    BY <1>6
  <2>2. /\ Len(At(slot)) + j \in 1..(Len(At(slot)) + Len(More(slot)))
        /\ ~(Len(At(slot)) + j <= Len(At(slot))) /\ Len(At(slot)) + j - Len(At(slot)) = j
    BY <1>8
  <2> QED
    BY <1>7, <2>1, <2>2 DEF In
<1>14. ASSUME NEW slot, NEW j \in DOMAIN More(slot)
       PROVE  \E i \in DOMAIN s : More(slot)[j] = s[i].override /\ slot = base + s[i].relative_slot
  <2>1. Pushed(More(slot), s, base, slot, Len(s))
    BY <1>3
  <2> QED
    BY <1>1, <2>1 DEF Pushed
<1>15. ASSUME NEW o, NEW slot, NEW k, In(new, o, slot, k) PROVE o \in S \cup overrides
  BY <1>2, <1>11, <1>14, <1>15 DEF HoldsOnce
<1>16. ASSUME NEW o \in S PROVE \E slot, k : In(new, o, slot, k)
  BY <1>12 DEF HoldsOnce
<1>17. ASSUME NEW o \in overrides PROVE \E slot, k : In(new, o, slot, k)
  <2>1. PICK i \in DOMAIN s : o = s[i].override
    BY <1>2
  <2>2. base + s[i].relative_slot \in slots
    BY <1>2
  <2>3. Pushed(More(base + s[i].relative_slot), s, base, base + s[i].relative_slot, Len(s))
    BY <1>3
  <2>4. PICK j \in DOMAIN More(base + s[i].relative_slot) :
          More(base + s[i].relative_slot)[j] = o
    BY <1>1, <2>1, <2>3 DEF Pushed
  <2> QED
    BY <1>13, <2>2, <2>4
<1>18. ASSUME NEW o, NEW slot, NEW k, NEW other, NEW l, In(new, o, slot, k), In(new, o, other, l)
       PROVE  slot = other /\ k = l
  <2>1. CASE o \in S
    <3>1. o \notin overrides
      BY <2>1
    <3>2. \A z : \A j \in DOMAIN More(z) : More(z)[j] # o
      BY <1>2, <1>14, <3>1
    <3>3. In(schedule, o, slot, k) /\ In(schedule, o, other, l)
      BY <1>11, <1>18, <3>2
    <3> QED
      BY <3>3 DEF HoldsOnce
  <2>2. CASE o \notin S
    <3>1. ~In(schedule, o, slot, k) /\ ~In(schedule, o, other, l)
      BY <2>2 DEF HoldsOnce
    <3>2. /\ k \in Nat /\ k - Len(At(slot)) \in DOMAIN More(slot)
          /\ More(slot)[k - Len(At(slot))] = o
      BY <1>11, <1>18, <3>1
    <3>3. /\ l \in Nat /\ l - Len(At(other)) \in DOMAIN More(other)
          /\ More(other)[l - Len(At(other))] = o
      BY <1>11, <1>18, <3>1
    <3>4. PICK i \in DOMAIN s : o = s[i].override /\ slot = base + s[i].relative_slot
      BY <1>14, <3>2
    <3>5. PICK h \in DOMAIN s : o = s[h].override /\ other = base + s[h].relative_slot
      BY <1>14, <3>3
    <3>6. slot = other
      BY <1>1, <3>4, <3>5
    <3>7. k - Len(At(slot)) = l - Len(At(slot))
      BY <1>3, <3>2, <3>3, <3>6 DEF Pushed
    <3> QED
      BY <1>8, <3>2, <3>3, <3>6, <3>7
  <2> QED
    BY <2>1, <2>2
<1>19. HoldsOnce(new, S \cup overrides)
  BY <1>15, <1>16, <1>17, <1>18 DEF HoldsOnce
<1> QED
  BY <1>2, <1>10, <1>19

Without(schedule, slot, left) ==
  [s \in (DOMAIN schedule \ {slot}) \cup (IF left = <<>> THEN {} ELSE {slot}) |->
     IF s = slot THEN left ELSE schedule[s]]

(* A slot's overrides are taken from a schedule that holds those of S, and *)
(* what is not processed goes back.                                        *)
Takes(schedule, S, slot, due, fault, new) ==
  /\ Typed(schedule) /\ S \in SUBSET Override /\ HoldsOnce(schedule, S)
  /\ slot \in Nat /\ due = OfSlot(schedule, slot) /\ fault.stop \in 0..Len(due)
  /\ new = Without(schedule, slot, Unprocessed(due, fault))

LEMMA Taken ==
  ASSUME NEW schedule, NEW S, NEW slot, NEW due, NEW fault, NEW new,
         Takes(schedule, S, slot, due, fault, new)
  PROVE  /\ Typed(new)
         /\ ToSet(Processed(due, fault)) \subseteq S
         /\ HoldsOnce(new, S \ ToSet(Processed(due, fault)))
         /\ slot \in DOMAIN new => fault.stop # 0
<1> DEFINE stop == fault.stop
           left == Unprocessed(due, fault)
           P == ToSet(Processed(due, fault))
<1>0. /\ Typed(schedule) /\ S \in SUBSET Override /\ HoldsOnce(schedule, S)
      /\ slot \in Nat /\ due = OfSlot(schedule, slot) /\ stop \in 0..Len(due)
      /\ new = Without(schedule, slot, left)
  BY DEF Takes
<1> USE <1>0
<1> HIDE DEF left
<1>1. due \in Seq(Override) /\ Len(due) \in Nat /\ DOMAIN due = 1..Len(due)
  BY DEF OfSlot, Typed
<1>2. \A i \in DOMAIN due : In(schedule, due[i], slot, i)
  BY DEF OfSlot, In
<1>3. \A i, o : In(schedule, o, slot, i) => i \in DOMAIN due /\ due[i] = o
  BY DEF OfSlot, In
<1>4. stop \in 0..Len(due)
  OBVIOUS
<1>5. new = [s \in (DOMAIN schedule \ {slot}) \cup (IF left = <<>> THEN {} ELSE {slot}) |->
                 IF s = slot THEN left ELSE schedule[s]]
  BY DEF Without
(* What stays: nothing, or what is from the failed override on.            *)
<1>6. CASE stop = 0
  <2>1. left = <<>> /\ P = {due[i] : i \in DOMAIN due}
    BY <1>6 DEF left, Unprocessed, Processed, ToSet
  <2>2. DOMAIN new = DOMAIN schedule \ {slot} /\ \A z \in DOMAIN new : new[z] = schedule[z]
    BY <1>5, <2>1
  <2>3. Typed(new)
    BY <2>2 DEF Typed
  <2>4. \A o, z, i : In(new, o, z, i) <=> In(schedule, o, z, i) /\ z # slot
    BY <2>2 DEF In
  <2>5. P \subseteq S
    BY <1>2, <2>1 DEF HoldsOnce
  <2>6. \A o, z, i : In(schedule, o, z, i) => (o \in P <=> z = slot)
    BY <1>2, <1>3, <2>1 DEF HoldsOnce
  <2>7. HoldsOnce(new, S \ P)
    BY <2>4, <2>5, <2>6 DEF HoldsOnce
  <2> QED
    BY <2>2, <2>3, <2>5, <2>7
<1>7. CASE stop # 0
  <2>1. /\ left = SubSeq(due, stop, Len(due)) /\ P = ToSet(SubSeq(due, 1, stop - 1))
        /\ stop \in 1..Len(due)
    BY <1>4, <1>7 DEF left, Unprocessed, Processed
  <2>2. /\ left \in Seq(Override) /\ Len(left) = Len(due) - stop + 1
        /\ \A i \in 1..Len(left) : left[i] = due[i + stop - 1]
    BY <1>1, <2>1
  <2>3. P = {due[i] : i \in 1..(stop - 1)}
    <3>1. /\ Len(SubSeq(due, 1, stop - 1)) = stop - 1
          /\ SubSeq(due, 1, stop - 1) \in Seq(Override)
          /\ \A i \in 1..(stop - 1) : SubSeq(due, 1, stop - 1)[i] = due[i]
      BY <1>1, <2>1
    <3>2. DOMAIN SubSeq(due, 1, stop - 1) = 1..(stop - 1)
      BY <3>1
    <3> QED
      BY <2>1, <3>1, <3>2 DEF ToSet
  <2>4. left # <<>>
    BY <1>1, <2>1, <2>2
  <2>5. /\ DOMAIN new = (DOMAIN schedule \ {slot}) \cup {slot} /\ new[slot] = left
        /\ \A z \in DOMAIN new : z # slot => new[z] = schedule[z]
    BY <1>5, <2>4
  <2>6. Typed(new)
    BY <2>2, <2>4, <2>5 DEF Typed
  <2>7. \A o, z, i : z # slot => (In(new, o, z, i) <=> In(schedule, o, z, i))
    BY <2>5 DEF In
  <2>8. DOMAIN left = 1..(Len(due) - stop + 1)
    BY <2>2
  <2>9. ASSUME NEW o, NEW i, In(new, o, slot, i)
        PROVE  i \in Nat /\ i + stop - 1 \in stop..Len(due) /\ In(schedule, o, slot, i + stop - 1)
    <3>1. i \in 1..(Len(due) - stop + 1) /\ left[i] = o
      BY <2>5, <2>8, <2>9 DEF In
    <3>2. i + stop - 1 \in stop..Len(due) /\ due[i + stop - 1] = o
      <4>1. i \in Nat /\ i + stop - 1 \in stop..Len(due)
        BY <1>1, <2>1, <3>1
      <4>2. i \in 1..Len(left)
        BY <2>2, <3>1
      <4> QED
        BY <2>2, <3>1, <4>1, <4>2
    <3>3. i + stop - 1 \in DOMAIN due
      BY <1>1, <2>1, <3>2
    <3>4. In(schedule, o, slot, i + stop - 1)
      BY <1>2, <3>2, <3>3
    <3> QED
      BY <3>1, <3>2, <3>4
  <2>10. ASSUME NEW o, NEW i, In(schedule, o, slot, i), i >= stop
         PROVE  In(new, o, slot, i - stop + 1)
    <3>1. i \in 1..Len(due) /\ due[i] = o
      BY <1>1, <1>3, <2>10
    <3>2. /\ i - stop + 1 \in 1..(Len(due) - stop + 1)
          /\ (i - stop + 1) + stop - 1 = i
      <4>1. stop \in Nat /\ i \in Nat /\ Len(due) \in Nat /\ i >= stop /\ i <= Len(due)
        BY <1>1, <2>1, <2>10, <3>1
      <4> HIDE DEF stop
      <4> QED
        BY <4>1
    <3>3. left[i - stop + 1] = o
      BY <2>2, <3>1, <3>2
    <3> QED
      BY <2>5, <2>8, <3>2, <3>3 DEF In
  <2>11. P \subseteq S
    <3>1. 1..(stop - 1) \subseteq DOMAIN due
      BY <1>1, <2>1
    <3> QED
      BY <1>2, <2>3, <3>1 DEF HoldsOnce
  <2>12. ASSUME NEW o, NEW z, NEW i, In(schedule, o, z, i)
         PROVE  o \in P <=> z = slot /\ ~(i >= stop)
    <3>1. CASE o \in P
      <4>1. PICK j \in 1..(stop - 1) : o = due[j]
        BY <2>3, <3>1
      <4>2. In(schedule, o, slot, j)
        BY <1>1, <1>2, <2>1, <4>1
      <4>3. z = slot /\ i = j
        BY <2>12, <4>2 DEF HoldsOnce
      <4> QED
        BY <2>1, <3>1, <4>1, <4>3
    <3>2. CASE z = slot /\ ~(i >= stop)
      <4>1. i \in 1..Len(due) /\ due[i] = o
        BY <1>1, <1>3, <2>12, <3>2
      <4> QED
        BY <2>1, <2>3, <3>2, <4>1
    <3> QED
      BY <3>1, <3>2
  <2>13. ASSUME NEW o, NEW z, NEW i, In(new, o, z, i) PROVE o \in S \ P
    <3>1. CASE z # slot
      BY <2>7, <2>12, <2>13, <3>1 DEF HoldsOnce
    <3>2. CASE z = slot
      <4>1. i + stop - 1 >= stop /\ In(schedule, o, slot, i + stop - 1)
        BY <1>1, <2>1, <2>9, <2>13, <3>2
      <4> QED
        BY <2>12, <4>1 DEF HoldsOnce
    <3> QED
      BY <3>1, <3>2
  <2>14. ASSUME NEW o \in S \ P PROVE \E z, i : In(new, o, z, i)
    <3>1. PICK z, i : In(schedule, o, z, i)
      BY DEF HoldsOnce
    <3>2. z # slot \/ i >= stop
      BY <2>12, <3>1
    <3> QED
      BY <2>7, <2>10, <3>1, <3>2
  <2>15. ASSUME NEW o, NEW z, NEW i, NEW other, NEW j, In(new, o, z, i), In(new, o, other, j)
         PROVE  z = other /\ i = j
    <3> DEFINE Was(x, y) == IF x = slot THEN y + stop - 1 ELSE y
    <3>1. In(schedule, o, z, Was(z, i)) /\ In(schedule, o, other, Was(other, j))
      BY <2>7, <2>9, <2>15
    <3>2. z = other /\ Was(z, i) = Was(z, j)
      BY <3>1 DEF HoldsOnce
    <3>3. CASE z = slot
      <4>1. i \in Nat /\ j \in Nat /\ i + stop - 1 = j + stop - 1
        BY <2>9, <2>15, <3>2, <3>3
      <4> QED
        BY <2>1, <3>2, <4>1
    <3>4. CASE z # slot
      BY <3>2, <3>4
    <3> QED
      BY <3>3, <3>4
  <2>16. HoldsOnce(new, S \ P)
    BY <2>13, <2>14, <2>15 DEF HoldsOnce
  <2> QED
    BY <1>7, <2>6, <2>11, <2>16
<1> QED
  BY <1>6, <1>7

(* What is refused its way back is gone, and nothing else is.              *)
LEMMA TakenForGood ==
  ASSUME NEW schedule, NEW S, NEW slot, NEW due, NEW fault, NEW new,
         Typed(schedule), S \in SUBSET Override, HoldsOnce(schedule, S), slot \in Nat,
         due = OfSlot(schedule, slot), fault.stop \in 1..Len(due),
         new = Without(schedule, slot, <<>>)
  PROVE  /\ Typed(new) /\ slot \notin DOMAIN new
         /\ ToSet(Processed(due, fault)) \subseteq S
         /\ ToSet(Unprocessed(due, fault)) \subseteq S \ ToSet(Processed(due, fault))
         /\ HoldsOnce(new, S \ (ToSet(Processed(due, fault)) \cup ToSet(Unprocessed(due, fault))))
<1> DEFINE stop == fault.stop
           P == ToSet(Processed(due, fault))
           L == ToSet(Unprocessed(due, fault))
           none == [stop |-> 0]
<1>1. due \in Seq(Override) /\ Len(due) \in Nat /\ DOMAIN due = 1..Len(due)
  BY DEF OfSlot, Typed
<1>2. \A i \in DOMAIN due : In(schedule, due[i], slot, i)
  BY DEF OfSlot, In
<1>3. none.stop = 0 /\ Unprocessed(due, none) = <<>> /\ Processed(due, none) = due
  BY DEF Unprocessed, Processed
<1>4. Takes(schedule, S, slot, due, none, new)
  BY <1>1, <1>3 DEF Takes
<1>5. /\ Typed(new) /\ ToSet(due) \subseteq S /\ HoldsOnce(new, S \ ToSet(due))
      /\ slot \notin DOMAIN new
  BY <1>3, <1>4, Taken
<1>6. stop \in 1..Len(due) /\ stop # 0
  BY <1>1
<1>7. P = {due[i] : i \in 1..(stop - 1)}
  <2> DEFINE first == SubSeq(due, 1, stop - 1)
  <2>1. first \in Seq(Override) /\ Len(first) = stop - 1 /\ \A i \in 1..(stop - 1) : first[i] = due[i]
    BY <1>1, <1>6
  <2>2. DOMAIN first = 1..(stop - 1)
    BY <2>1
  <2>3. P = {first[i] : i \in DOMAIN first}
    BY <1>6 DEF Processed, ToSet
  <2> HIDE DEF first, P
  <2> QED
    BY <2>1, <2>2, <2>3
<1>8. L = {due[i] : i \in stop..Len(due)}
  <2> DEFINE rest == SubSeq(due, stop, Len(due))
  <2>1. /\ rest \in Seq(Override) /\ Len(rest) = Len(due) - stop + 1
        /\ \A i \in 1..(Len(due) - stop + 1) : rest[i] = due[i + stop - 1]
    BY <1>1, <1>6
  <2>2. DOMAIN rest = 1..(Len(due) - stop + 1)
    BY <2>1
  <2>3. L = {rest[i] : i \in DOMAIN rest}
    BY <1>6 DEF Unprocessed, ToSet
  <2> HIDE DEF rest, L
  <2>4. stop \in Nat /\ Len(due) \in Nat
    BY <1>1, <1>6
  <2> HIDE DEF stop
  <2>5. \A i \in 1..(Len(due) - stop + 1) : i + stop - 1 \in stop..Len(due)
    BY <2>4
  <2>6. \A i \in stop..Len(due) : /\ i - stop + 1 \in 1..(Len(due) - stop + 1)
                                  /\ (i - stop + 1) + stop - 1 = i
    BY <2>4
  <2>7. \A x \in L : \E i \in stop..Len(due) : x = due[i]
    BY <2>1, <2>2, <2>3, <2>5
  <2>8. \A i \in stop..Len(due) : due[i] \in L
    <3> SUFFICES ASSUME NEW i \in stop..Len(due) PROVE due[i] \in L
      OBVIOUS
    <3>1. rest[i - stop + 1] = due[i] /\ i - stop + 1 \in DOMAIN rest
      BY <2>1, <2>2, <2>6
    <3> QED
      BY <2>3, <3>1
  <2> QED
    BY <2>7, <2>8
<1>9. ToSet(due) = P \cup L
  <2>1. ToSet(due) = {due[i] : i \in 1..Len(due)}
    BY <1>1 DEF ToSet
  <2>2. 1..Len(due) = (1..(stop - 1)) \cup (stop..Len(due))
    BY <1>1, <1>6
  <2> HIDE DEF P, L, stop
  <2> QED
    BY <1>7, <1>8, <2>1, <2>2
<1>10. P \cap L = {}
  <2> SUFFICES ASSUME NEW i \in 1..(stop - 1), NEW j \in stop..Len(due), due[i] = due[j]
               PROVE  FALSE
    BY <1>7, <1>8
  <2>1. i \in DOMAIN due /\ j \in DOMAIN due /\ i # j
    BY <1>1, <1>6
  <2>2. In(schedule, due[i], slot, i) /\ In(schedule, due[i], slot, j)
    BY <1>2, <2>1
  <2> QED
    BY <2>1, <2>2 DEF HoldsOnce
<1> HIDE DEF P, L
<1>11. P \subseteq S /\ L \subseteq S \ P /\ HoldsOnce(new, S \ (P \cup L))
  BY <1>5, <1>9, <1>10
<1> QED
  BY <1>5, <1>11 DEF P, L

-----------------------------------------------------------------------------
(* Keep-alive *)

Keeping(held, bindings, moment, fault, kept) ==
  /\ held \in [Account -> Held \cup {None}] /\ moment \in Moments
  /\ kept = ApplyKeepAlive(held, bindings, moment, fault)

(* Every account that is there is written, but for those it is refused,    *)
(* and none comes that is not to be downloaded.                            *)
LEMMA KeptAliveFor ==
  ASSUME NEW held, NEW bindings, NEW moment, NEW fault, NEW kept,
         Keeping(held, bindings, moment, fault, kept)
  PROVE  /\ kept \in [Account -> Held \cup {None}]
         /\ \A a \in Account \cap bindings :
              a \notin fault.unkept /\ kept[a] # None => kept[a].kept = moment
         /\ \A a \in Account : held[a] # None => kept[a] # None /\ kept[a].by = held[a].by
         /\ \A a \in Account : held[a] = None /\ kept[a] # None => a \notin offline
<1> DEFINE base(a) == IF held[a] = None THEN Fresh ELSE held[a]
           with(a) == IF a \in fault.unkept THEN base(a) ELSE [base(a) EXCEPT !.kept = moment]
           left(a) == a \notin bindings \/ (held[a] = None /\ ~Fetchable(a, fault))
<1> USE DEF Keeping
<1>1. kept = [a \in Account |-> IF left(a) THEN held[a] ELSE with(a)]
  BY DEF ApplyKeepAlive
<1>2. \A a \in Account : base(a) \in Held /\ (held[a] # None => base(a) = held[a])
  BY FreshHeld
<1>3. ASSUME NEW a \in Account
      PROVE  with(a) \in Held /\ with(a).by = base(a).by
             /\ (a \notin fault.unkept => with(a).kept = moment)
  <2>1. base(a) \in Held
    BY <1>2
  <2> HIDE DEF base
  <2> QED
    BY <2>1, FreshHeld
<1>4. \A a \in Account : left(a) /\ a \in bindings => held[a] = None
  OBVIOUS
<1>5. \A a \in Account : held[a] = None /\ a \in offline => left(a)
  BY DEF Fetchable
<1> HIDE DEF base, with, left
<1>6. \A a \in Account : kept[a] = IF left(a) THEN held[a] ELSE with(a)
  BY <1>1
<1>7. kept \in [Account -> Held \cup {None}]
  BY <1>1, <1>3
<1>8. ASSUME NEW a \in Account, held[a] # None
      PROVE  kept[a] # None /\ kept[a].by = held[a].by
  BY <1>2, <1>3, <1>6, <1>8, NotHeld
<1>9. ASSUME NEW a \in Account, a \in bindings, a \notin fault.unkept, kept[a] # None
      PROVE  kept[a].kept = moment
  BY <1>3, <1>4, <1>6, <1>9
<1>10. ASSUME NEW a \in Account, held[a] = None, kept[a] # None PROVE a \notin offline
  BY <1>5, <1>6, <1>10
<1> QED
  BY <1>7, <1>8, <1>9, <1>10

-----------------------------------------------------------------------------
(* The invariant *)

(* What is scheduled is ahead, was passed, or failed.                      *)
Ahead == \A slot \in DOMAIN scheduled_overrides : slot > open \/ slot \in passed

Inv ==
  /\ TypeOK
  /\ HoldsOnce(scheduled_overrides, registered \ (done \cup lost))
  /\ Ahead
  /\ EnrolledAreWriters

LEMMA InvInit == Init => Inv
<1> SUFFICES ASSUME Init PROVE Inv
  OBVIOUS
<1>1. InitialSlot \in Nat
  BY ScenariosAssumption
<1>2. DOMAIN scheduled_overrides = {}
  BY DEF Init
<1>3. accounts \in [Account -> Held \cup {None}]
  BY FreshHeld DEF Init
<1>4. TypeOK
  BY <1>1, <1>2, <1>3 DEF Init, TypeOK
<1>5. HoldsOnce(scheduled_overrides, registered \ (done \cup lost))
  BY <1>2 DEF Init, HoldsOnce, In
<1>6. Ahead
  BY <1>2 DEF Ahead
<1>7. EnrolledAreWriters
  BY DEF Init, EnrolledAreWriters
<1> QED
  BY <1>4, <1>5, <1>6, <1>7 DEF Inv

(* The accounts of a slot's overrides are what they were, but for those    *)
(* that they or keep-alive write.                                          *)
NothingBrought ==
  \A a \in offline :
    accounts[a] = None /\ accounts'[a] # None
      => travelling = 0 /\ \E o \in ToSet(ScheduledAt(open + 1)) : a \in Writes[o]

AllKept ==
  \A a \in keep_alive_bindings' \ unkept' : accounts'[a] # None => accounts'[a].kept = Moment'

LEMMA BlockClosed ==
  ASSUME Inv, NEW fault \in Faults(ScheduledAt(open + 1)), CloseBlock(fault),
         travelling = 0, travelling' \in Nat, producing' \in BOOLEAN
  PROVE  Inv' /\ AllKept /\ NothingBrought /\ StillThere(Account \ TokenAccounts)
<1> DEFINE due == ScheduledAt(open + 1)
           left == Restored(due, fault)
           result == ApplyOverrides(due, fault)
           bindings == EnrollKeepAlive(result.wrote, fault)
           P == ToSet(Processed(due, fault))
           L == IF fault.lost THEN ToSet(Unprocessed(due, fault)) ELSE {}
           pending == registered \ (done \cup lost)
<1>1. TypeOK /\ open \in Nat /\ Typed(scheduled_overrides)
  BY DEF Inv, TypeOK, Typed
<1>2. due = OfSlot(scheduled_overrides, open + 1) /\ due \in Seq(Override)
  BY <1>1 DEF ScheduledAt, OfSlot, Typed
<1>3. /\ open' = open + 1 /\ landed' = FALSE
      /\ accounts' = ApplyKeepAlive(result.accounts, bindings, Moment', fault)
      /\ keep_alive_bindings' = bindings
      /\ wrote' = wrote \cup result.wrote
      /\ scheduled_overrides' = Rescheduled(open + 1, left)
      /\ done' = done \cup P /\ lost' = lost \cup L
      /\ passed' = IF fault.stop = 0 THEN passed ELSE passed \cup {open + 1}
      /\ unkept' = fault.unkept
      /\ UNCHANGED <<offline, registered, edits>>
  BY DEF CloseBlock, Materialize
<1>4. /\ fault.stop \in 0..Len(due) /\ fault.unkept \subseteq keep_alive_bindings
      /\ fault.lost \in BOOLEAN /\ (fault.lost => fault.stop # 0)
  BY DEF Faults
<1>5. open + 1 \in Nat /\ Moment' \in Moments
  <2>1. open' = open + 1 /\ landed' = FALSE
    BY DEF CloseBlock
  <2>2. open' \in Nat /\ open + 1 \in Nat
    <3>1. open' = open + 1 /\ open \in Nat
      BY <1>1, <2>1
    <3> QED
      BY <3>1
  <2> QED
    BY <2>1, <2>2 DEF Moment, Moments
<1>6. /\ result \in States
      /\ UpTo(result, due, fault.stop, LastOf(due, fault))
  BY <1>1, <1>2, OverridesApplied DEF TypeOK
<1>7. pending \in SUBSET Override /\ HoldsOnce(scheduled_overrides, pending)
  BY <1>1 DEF Inv, TypeOK
<1>8. /\ scheduled_overrides' = Without(scheduled_overrides, open + 1, left)
      /\ DOMAIN scheduled_overrides' \subseteq DOMAIN scheduled_overrides \cup {open + 1}
  BY <1>3 DEF Rescheduled, Without
<1> HIDE DEF left, P, L, pending, bindings, result, due
<1>10. /\ Typed(scheduled_overrides') /\ P \subseteq pending /\ L \subseteq pending \ P
       /\ HoldsOnce(scheduled_overrides', pending \ (P \cup L))
       /\ open + 1 \in DOMAIN scheduled_overrides' => fault.stop # 0
  <2>1. PICK schedule, new, S, slot, rest, all :
          /\ schedule = scheduled_overrides /\ new = scheduled_overrides'
          /\ S = pending /\ slot = open + 1 /\ rest = left /\ all = due
    OBVIOUS
  <2>2. /\ Typed(schedule) /\ S \in SUBSET Override /\ HoldsOnce(schedule, S) /\ slot \in Nat
        /\ all = OfSlot(schedule, slot) /\ fault.stop \in 0..Len(all)
        /\ new = Without(schedule, slot, rest)
    BY <1>1, <1>2, <1>4, <1>5, <1>7, <1>8, <2>1
  <2>3. P = ToSet(Processed(all, fault))
    BY <2>1 DEF P, due
  <2>4. CASE ~fault.lost
    <3>1. rest = Unprocessed(all, fault) /\ L = {}
      BY <2>1, <2>4 DEF left, Restored, L, due
    <3>2. Takes(schedule, S, slot, all, fault, new)
      BY <2>2, <3>1 DEF Takes
    <3>3. /\ Typed(new) /\ P \subseteq S /\ HoldsOnce(new, S \ P)
          /\ slot \in DOMAIN new => fault.stop # 0
      BY <2>3, <3>2, Taken
    <3> QED
      BY <2>1, <3>1, <3>3
  <2>5. CASE fault.lost
    <3>1. rest = <<>> /\ L = ToSet(Unprocessed(all, fault))
      BY <2>1, <2>5 DEF left, Restored, L, due
    <3>2. fault.stop \in 1..Len(all)
      <4>1. Len(all) \in Nat
        BY <1>2, <2>1
      <4> QED
        BY <1>4, <2>2, <2>5, <4>1
    <3>3. /\ Typed(new) /\ slot \notin DOMAIN new /\ P \subseteq S /\ L \subseteq S \ P
          /\ HoldsOnce(new, S \ (P \cup L))
      BY <2>2, <2>3, <3>1, <3>2, TakenForGood
    <3> QED
      BY <2>1, <3>3
  <2> QED
    BY <1>4, <2>4, <2>5
<1>11. result.wrote \subseteq P
  <2> SUFFICES ASSUME NEW o \in result.wrote PROVE o \in P
    OBVIOUS
  <2>1. PICK j \in 1..LastOf(due, fault) \ {fault.stop} : o = due[j]
    BY <1>6 DEF UpTo
  <2>2. Len(due) \in Nat /\ DOMAIN due = 1..Len(due)
    BY <1>2
  <2>3. CASE fault.stop = 0
    <3>1. P = {due[i] : i \in DOMAIN due}
      BY <2>3 DEF P, due, Processed, ToSet
    <3> QED
      BY <2>1, <2>2, <2>3, <3>1 DEF LastOf
  <2>4. CASE fault.stop # 0
    <3> DEFINE first == SubSeq(due, 1, fault.stop - 1)
    <3>1. P = {first[i] : i \in DOMAIN first}
      BY <2>4 DEF P, due, Processed, ToSet
    <3>2. j \in 1..(fault.stop - 1)
      BY <1>4, <2>1, <2>2, <2>4 DEF LastOf
    <3>3. /\ first \in Seq(Override) /\ Len(first) = fault.stop - 1
          /\ \A i \in 1..(fault.stop - 1) : first[i] = due[i]
      BY <1>2, <1>4, <2>2, <2>4
    <3>4. DOMAIN first = 1..(fault.stop - 1)
      BY <3>3
    <3> HIDE DEF first
    <3>5. j \in DOMAIN first /\ first[j] = o
      BY <2>1, <3>2, <3>3, <3>4
    <3> QED
      BY <3>1, <3>5
  <2> QED
    BY <2>3, <2>4
<1>12. /\ result.accounts \in [Account -> Held \cup {None}] /\ result.wrote \subseteq Override
  BY <1>6 DEF States
<1>13. /\ accounts' \in [Account -> Held \cup {None}]
       /\ \A a \in Account \cap bindings :
            a \notin fault.unkept /\ accounts'[a] # None => accounts'[a].kept = Moment'
       /\ \A a \in Account : result.accounts[a] # None
            => accounts'[a] # None /\ accounts'[a].by = result.accounts[a].by
       /\ \A a \in Account : result.accounts[a] = None /\ accounts'[a] # None => a \notin offline
  <2>1. PICK held, moment, kept, bound :
          /\ held = result.accounts /\ moment = Moment' /\ kept = accounts' /\ bound = bindings
    OBVIOUS
  <2>2. Keeping(held, bound, moment, fault, kept)
    BY <1>3, <1>5, <1>12, <2>1 DEF Keeping
  <2>3. /\ kept \in [Account -> Held \cup {None}]
        /\ \A a \in Account \cap bound :
             a \notin fault.unkept /\ kept[a] # None => kept[a].kept = moment
        /\ \A a \in Account : held[a] # None => kept[a] # None /\ kept[a].by = held[a].by
        /\ \A a \in Account : held[a] = None /\ kept[a] # None => a \notin offline
    BY <2>2, KeptAliveFor
  <2> QED
    BY <2>1, <2>3
<1>14. /\ bindings = keep_alive_bindings \cup UNION {KeptAlive[o] : o \in result.wrote}
       /\ bindings \subseteq Account
  <2>1. bindings = keep_alive_bindings \cup UNION {KeptAlive[o] : o \in result.wrote}
    BY DEF bindings, EnrollKeepAlive
  <2>2. \A o \in result.wrote : KeptAlive[o] \subseteq Account
    BY <1>12, Overrides
  <2>3. keep_alive_bindings \subseteq Account
    BY <1>1 DEF TypeOK
  <2> QED
    BY <2>1, <2>2, <2>3
<1>15. TypeOK'
  <2>1. DOMAIN scheduled_overrides' \subseteq Nat
        /\ \A slot \in DOMAIN scheduled_overrides' :
             scheduled_overrides'[slot] \in Seq(Override) \ {<<>>}
    BY <1>10 DEF Typed
  <2>2. registered' \subseteq Override /\ done' \subseteq registered' /\ wrote' \subseteq done'
    BY <1>1, <1>3, <1>10, <1>11 DEF TypeOK, pending
  <2>5. lost' \subseteq registered' \ done'
    BY <1>1, <1>3, <1>10 DEF TypeOK, pending
  <2>3. passed' \subseteq Nat /\ unkept' \subseteq Account /\ offline' \subseteq Account
    BY <1>1, <1>3, <1>4, <1>5 DEF TypeOK
  <2>4. open' \in Nat /\ landed' \in BOOLEAN
    BY <1>3, <1>5
  <2> QED
    BY <1>3, <1>13, <1>14, <2>1, <2>2, <2>3, <2>4, <2>5 DEF TypeOK
<1>16. HoldsOnce(scheduled_overrides, registered \ (done \cup lost))'
  <2>1. (registered \ (done \cup lost))' = pending \ (P \cup L)
    BY <1>3 DEF pending
  <2> QED
    BY <1>10, <2>1
<1>17. Ahead'
  <2> SUFFICES ASSUME NEW slot \in DOMAIN scheduled_overrides'
               PROVE  slot > open' \/ slot \in passed'
    BY DEF Ahead
  <2>1. CASE slot = open + 1
    BY <1>3, <1>10, <2>1
  <2>2. CASE slot # open + 1
    <3>1. slot \in DOMAIN scheduled_overrides
      BY <1>8, <2>2
    <3>2. slot \in Nat /\ (slot > open \/ slot \in passed)
      BY <1>1, <3>1 DEF Inv, Ahead, TypeOK
    <3> QED
      BY <1>1, <1>3, <2>2, <3>2
  <2> QED
    BY <2>1, <2>2
<1>18. EnrolledAreWriters'
  <2>1. keep_alive_bindings = UNION {KeptAlive[o] : o \in wrote}
    BY DEF Inv, EnrolledAreWriters
  <2>2. keep_alive_bindings' = UNION {KeptAlive[o] : o \in wrote'}
    BY <1>3, <1>14, <2>1
  <2> QED
    BY <2>2 DEF EnrolledAreWriters
<1>19. AllKept
  BY <1>3, <1>13, <1>14 DEF AllKept
<1>20. NothingBrought
  <2> SUFFICES ASSUME NEW a \in offline, accounts[a] = None, accounts'[a] # None
               PROVE  \E o \in ToSet(due) : a \in Writes[o]
    BY DEF NothingBrought, due
  <2>1. a \in Account
    BY <1>1 DEF TypeOK
  <2>2. result.accounts[a] # None
    BY <1>13, <2>1
  <2>3. PICK j \in 1..LastOf(due, fault) : a \in Writes[due[j]]
    BY <1>6, <2>1, <2>2 DEF UpTo
  <2>4. Len(due) \in Nat /\ DOMAIN due = 1..Len(due)
    BY <1>2
  <2>5. j \in DOMAIN due
    BY <1>4, <2>3, <2>4 DEF LastOf
  <2> QED
    BY <2>3, <2>5 DEF ToSet
<1>21. StillThere(Account \ TokenAccounts)
  <2> SUFFICES ASSUME NEW o \in wrote' \ wrote, NEW a \in Writes[o] \cap (Account \ TokenAccounts)
               PROVE  o \in accounts'[a].by
    BY DEF StillThere
  <2>1. o \in result.wrote
    BY <1>3
  <2>2. result.accounts[a] # None /\ o \in result.accounts[a].by
    BY <1>6, <2>1 DEF UpTo
  <2> QED
    BY <1>13, <2>2
<1> QED
  BY <1>15, <1>16, <1>17, <1>18, <1>19, <1>20, <1>21 DEF Inv

(* A close that fails once the slot has moved leaves all accounts as they  *)
(* were, and says so of those kept alive.                                  *)
LEMMA CloseFailed ==
  ASSUME Inv, CloseFails, travelling' \in Nat, producing' \in BOOLEAN
  PROVE  /\ Inv' /\ (Moment' # Moment => AllKept) /\ NothingBrought
         /\ StillThere(Account \ TokenAccounts)
<1>1. /\ UNCHANGED <<scheduled_overrides, accounts, offline, keep_alive_bindings, registered, done,
                     lost, wrote>>
      /\ \/ UNCHANGED <<open, landed, passed, unkept>>
         \/ /\ open' = open + 1 /\ landed' = FALSE
            /\ passed' = passed \cup {open + 1} /\ unkept' = keep_alive_bindings
  BY DEF CloseFails, SlotStaysOpen, SlotOpensBare
<1>2. TypeOK /\ open \in Nat /\ open + 1 \in Nat
  BY DEF Inv, TypeOK
<1>3. /\ open' \in Nat /\ landed' \in BOOLEAN /\ passed' \subseteq Nat /\ unkept' \subseteq Account
      /\ passed \subseteq passed'
  <2>1. CASE UNCHANGED <<open, landed, passed, unkept>>
    BY <1>2, <2>1 DEF TypeOK
  <2>2. CASE /\ open' = open + 1 /\ landed' = FALSE
             /\ passed' = passed \cup {open + 1} /\ unkept' = keep_alive_bindings
    BY <1>2, <2>2 DEF TypeOK
  <2> QED
    BY <1>1, <2>1, <2>2
<1>4. TypeOK'
  BY <1>1, <1>2, <1>3 DEF TypeOK
<1>5. HoldsOnce(scheduled_overrides, registered \ (done \cup lost))' /\ EnrolledAreWriters'
  BY <1>1 DEF Inv, EnrolledAreWriters
<1>6. Ahead'
  <2> SUFFICES ASSUME NEW slot \in DOMAIN scheduled_overrides
               PROVE  slot > open' \/ slot \in passed'
    BY <1>1 DEF Ahead
  <2>1. slot \in Nat /\ (slot > open \/ slot \in passed)
    BY <1>2 DEF Inv, Ahead, TypeOK
  <2>2. CASE open' = open + 1 /\ passed' = passed \cup {open + 1}
    BY <1>2, <2>1, <2>2
  <2>3. CASE open' = open /\ passed' = passed
    BY <2>1, <2>3
  <2> QED
    BY <1>1, <2>2, <2>3
<1>7. Moment' # Moment => AllKept
  <2>1. Moment' # Moment => unkept' = keep_alive_bindings
    BY <1>1 DEF Moment
  <2> QED
    BY <1>1, <2>1 DEF AllKept
<1>8. NothingBrought /\ StillThere(Account \ TokenAccounts)
  <2>1. \A a \in offline : accounts'[a] = accounts[a]
    BY <1>1
  <2> QED
    BY <1>1, <2>1 DEF NothingBrought, StillThere
<1> QED
  BY <1>4, <1>5, <1>6, <1>7, <1>8 DEF Inv

LEMMA ScenarioRegistered ==
  ASSUME Inv, NEW s \in Scenario, NEW base \in InitialSlot..MaxSlot, RegisterScenario(s, base)
  PROVE  Inv'
<1> DEFINE overrides == {s[i].override : i \in DOMAIN s}
           slots == {base + s[i].relative_slot : i \in DOMAIN s}
<1>1. /\ TypeOK /\ open \in Nat /\ Typed(scheduled_overrides)
      /\ registered \subseteq Override /\ done \subseteq registered
      /\ lost \subseteq registered \ done
  BY DEF Inv, TypeOK, Typed
<1>2. /\ overrides \cap registered = {} /\ base \in BaseSlots
      /\ registered' = registered \cup overrides
      /\ UNCHANGED <<open, landed, producing, travelling, accounts, offline, keep_alive_bindings,
                     done, lost, wrote, passed, unkept>>
  BY DEF RegisterScenario, world
<1>3. scheduled_overrides' = [slot \in DOMAIN scheduled_overrides \cup slots |->
                                OfSlot(scheduled_overrides, slot) \o DueAt(s, base, slot)]
  BY DEF RegisterScenario, OfSlot, ScheduledAt
<1>4. base \in Nat /\ base >= open + 1
  BY <1>1, <1>2, ScenariosAssumption DEF BaseSlots
<1> HIDE DEF overrides, slots
<1>5. Typed(scheduled_overrides') /\ overrides \subseteq Override
      /\ HoldsOnce(scheduled_overrides', (registered \ (done \cup lost)) \cup overrides)
  <2>1. PICK schedule, new, S : schedule = scheduled_overrides /\ new = scheduled_overrides'
                                /\ S = registered \ (done \cup lost)
    OBVIOUS
  <2>2. Typed(schedule) /\ S \in SUBSET Override /\ HoldsOnce(schedule, S) /\ S \cap overrides = {}
    BY <1>1, <1>2, <2>1 DEF Inv
  <2>3. Adds(schedule, S, s, base, overrides, new)
    BY <1>3, <1>4, <2>1, <2>2 DEF Adds, slots, overrides
  <2>4. Typed(new) /\ HoldsOnce(new, S \cup overrides) /\ overrides \subseteq Override
    BY <2>3, Registered
  <2> QED
    BY <2>1, <2>4
<1>6. TypeOK'
  <2>1. \A slot \in DOMAIN scheduled_overrides' :
          scheduled_overrides'[slot] \in Seq(Override) \ {<<>>}
    BY <1>5 DEF Typed
  <2>2. DOMAIN scheduled_overrides' \subseteq Nat
    BY <1>5 DEF Typed
  <2> QED
    BY <1>1, <1>2, <1>5, <2>1, <2>2 DEF TypeOK
<1>7. HoldsOnce(scheduled_overrides, registered \ (done \cup lost))'
  <2>1. (registered \ (done \cup lost))' = (registered \ (done \cup lost)) \cup overrides
    BY <1>1, <1>2
  <2> QED
    BY <1>5, <2>1
<1>8. Ahead'
  <2> SUFFICES ASSUME NEW slot \in DOMAIN scheduled_overrides'
               PROVE  slot > open' \/ slot \in passed'
    BY DEF Ahead
  <2>1. CASE slot \in DOMAIN scheduled_overrides
    BY <1>2, <2>1 DEF Inv, Ahead
  <2>2. CASE slot \in slots
    <3>1. PICK i \in DOMAIN s : slot = base + s[i].relative_slot
      BY <2>2 DEF slots
    <3>2. s[i].relative_slot \in Nat
      BY <3>1, ScenarioTyped
    <3> QED
      BY <1>1, <1>2, <1>4, <3>1, <3>2
  <2> QED
    BY <1>3, <2>1, <2>2
<1>9. EnrolledAreWriters'
  BY <1>2 DEF Inv, EnrolledAreWriters
<1> QED
  BY <1>6, <1>7, <1>8, <1>9 DEF Inv

(* Where a travel lands only keep-alive runs, and it fetches nothing that  *)
(* is not to be downloaded.                                                *)
LEMMA TravelLanded ==
  ASSUME Inv, Land
  PROVE  Inv' /\ AllKept /\ NothingBrought
<1>1. TypeOK /\ open \in Nat /\ travelling \in Nat
  BY DEF Inv, TypeOK
<1>2. PICK fault \in Faults(<<>>) :
        accounts' = ApplyKeepAlive(accounts, keep_alive_bindings, Moment', fault)
        /\ unkept' = fault.unkept
  BY DEF Land, KeptWhereLanded
<1>3. /\ open' = IF travelling > open THEN travelling ELSE open
      /\ travelling' = 0 /\ passed' = passed \cup ((open + 1)..open')
      /\ UNCHANGED <<producing, scheduled_overrides, offline, keep_alive_bindings, registered,
                     done, lost, wrote>>
  BY DEF Land
<1>4. landed' = TRUE
  BY DEF Land
<1>5. open' \in Nat /\ open' >= open
  BY <1>1, <1>3
<1>6. Moment' \in Moments
  BY <1>4, <1>5 DEF Moment, Moments
<1>7. fault.unkept \subseteq keep_alive_bindings
  BY DEF Faults
<1>8. /\ accounts' \in [Account -> Held \cup {None}]
      /\ \A a \in Account \cap keep_alive_bindings :
           a \notin fault.unkept /\ accounts'[a] # None => accounts'[a].kept = Moment'
      /\ \A a \in Account : accounts[a] = None /\ accounts'[a] # None => a \notin offline
  <2>1. PICK held, moment, kept, bound : held = accounts /\ moment = Moment' /\ kept = accounts'
                                         /\ bound = keep_alive_bindings
    OBVIOUS
  <2>2. Keeping(held, bound, moment, fault, kept)
    BY <1>1, <1>2, <1>6, <2>1 DEF Keeping, TypeOK
  <2>3. /\ kept \in [Account -> Held \cup {None}]
        /\ \A a \in Account \cap bound :
             a \notin fault.unkept /\ kept[a] # None => kept[a].kept = moment
        /\ \A a \in Account : held[a] = None /\ kept[a] # None => a \notin offline
    BY <2>2, KeptAliveFor
  <2> QED
    BY <2>1, <2>3
<1>9. TypeOK'
  <2>1. (open + 1)..open' \subseteq Nat
    BY <1>1, <1>5
  <2>2. passed' \subseteq Nat /\ unkept' \subseteq Account /\ landed' \in BOOLEAN
    BY <1>1, <1>2, <1>3, <1>4, <1>7, <2>1, Zenon DEF TypeOK
  <2> QED
    BY <1>1, <1>3, <1>5, <1>8, <2>2 DEF TypeOK
<1>10. HoldsOnce(scheduled_overrides, registered \ (done \cup lost))' /\ EnrolledAreWriters'
  BY <1>3 DEF Inv, EnrolledAreWriters
<1>11. Ahead'
  <2> SUFFICES ASSUME NEW slot \in DOMAIN scheduled_overrides
               PROVE  slot > open' \/ slot \in passed'
    BY <1>3 DEF Ahead
  <2>1. slot \in Nat /\ (slot > open \/ slot \in passed)
    BY <1>1 DEF Inv, Ahead, TypeOK
  <2>2. slot > open => slot > open' \/ slot \in (open + 1)..open'
    BY <1>1, <1>5, <2>1
  <2> QED
    BY <1>3, <2>1, <2>2
<1>12. AllKept
  BY <1>1, <1>2, <1>3, <1>8 DEF AllKept, TypeOK
<1>13. NothingBrought
  BY <1>1, <1>8 DEF NothingBrought, TypeOK
<1> QED
  BY <1>9, <1>10, <1>11, <1>12, <1>13 DEF Inv

(* The steps of clients and operators, and of slots that open.             *)
LEMMA InvNext ==
  Inv /\ [Next]_vars =>
    /\ Inv'
    /\ Moment' # Moment => AllKept /\ NothingBrought
    /\ StillThere(Account \ TokenAccounts)
<1> SUFFICES ASSUME Inv, [Next]_vars
             PROVE  /\ Inv'
                    /\ Moment' # Moment => AllKept /\ NothingBrought
                    /\ StillThere(Account \ TokenAccounts)
  OBVIOUS
<1>1. TypeOK /\ open \in Nat /\ InitialSlot \in Nat
  BY ScenariosAssumption DEF Inv, TypeOK
<1>2. ASSUME wrote' \subseteq wrote PROVE StillThere(Account \ TokenAccounts)
  BY <1>2 DEF StillThere
<1>3. ASSUME UNCHANGED <<open, landed>> PROVE Moment' = Moment
  BY <1>3 DEF Moment
<1>4. ASSUME NEW s \in Scenario, NEW base \in InitialSlot..MaxSlot, RegisterScenario(s, base)
      PROVE  Inv' /\ UNCHANGED <<open, landed, wrote>>
  BY <1>4, ScenarioRegistered DEF RegisterScenario, world
<1>5. CASE CloseSlot
  <2>1. \/ \E fault \in Faults(ScheduledAt(open + 1)) :
             CloseBlock(fault) /\ producing' = (fault.stop = 0)
        \/ CloseFails /\ producing' = FALSE
    BY <1>5 DEF CloseSlot
  <2>2. travelling = 0 /\ travelling' \in Nat
    BY <1>1, <1>5, Zenon DEF CloseSlot, TypeOK
  <2>3. CASE CloseFails /\ producing' = FALSE
    BY <2>2, <2>3, CloseFailed
  <2>4. ASSUME NEW fault \in Faults(ScheduledAt(open + 1)), CloseBlock(fault),
               producing' = (fault.stop = 0)
        PROVE  Inv' /\ AllKept /\ NothingBrought /\ StillThere(Account \ TokenAccounts)
    <3>1. producing' \in BOOLEAN
      BY <2>4, Zenon
    <3> QED
      BY <2>2, <2>4, <3>1, BlockClosed
  <2> QED
    BY <2>1, <2>3, <2>4
<1>6. ASSUME NEW slot \in InitialSlot..MaxSlot, CloseBeforeTravel(slot)
      PROVE  /\ Inv' /\ (Moment' # Moment => AllKept) /\ NothingBrought
             /\ StillThere(Account \ TokenAccounts)
  <2>1. (\E fault \in Faults(ScheduledAt(open + 1)) : CloseBlock(fault)) \/ CloseFails
    BY <1>6 DEF CloseBeforeTravel
  <2>2. slot \in Nat
    BY <1>1, ScenariosAssumption
  <2>3. travelling = 0 /\ travelling' = slot /\ producing' = producing
    BY <1>6 DEF CloseBeforeTravel
  <2>4. travelling' \in Nat /\ producing' \in BOOLEAN
    BY <1>1, <2>2, <2>3 DEF TypeOK
  <2>5. CASE CloseFails
    BY <2>4, <2>5, CloseFailed
  <2>6. CASE \E fault \in Faults(ScheduledAt(open + 1)) : CloseBlock(fault)
    BY <2>3, <2>4, <2>6, BlockClosed
  <2> QED
    BY <2>1, <2>5, <2>6
<1>7. CASE Land
  BY <1>2, <1>7, TravelLanded DEF Land
<1>8. ASSUME NEW a \in Account, ReplaceAccount(a) \/ RemoveAccount(a) \/ MarkOffline(a)
      PROVE  Inv' /\ UNCHANGED <<open, landed, wrote>>
  <2>1. /\ UNCHANGED <<open, landed, producing, travelling, scheduled_overrides,
                       keep_alive_bindings, registered, done, lost, wrote, passed,
                       unkept>>
    BY <1>8 DEF ReplaceAccount, RemoveAccount, MarkOffline, world, history
  <2>2. accounts' \in [Account -> Held \cup {None}]
    <3>1. accounts \in [Account -> Held \cup {None}]
      BY <1>1 DEF TypeOK
    <3> QED
      BY <1>8, <3>1, FreshHeld DEF ReplaceAccount, RemoveAccount, MarkOffline
  <2>3. offline' \subseteq Account
    <3>1. offline \subseteq Account
      BY <1>1 DEF TypeOK
    <3> QED
      BY <1>8, <3>1 DEF ReplaceAccount, RemoveAccount, MarkOffline
  <2>4. TypeOK'
    BY <1>1, <2>1, <2>2, <2>3 DEF TypeOK
  <2>5. HoldsOnce(scheduled_overrides, registered \ (done \cup lost))' /\ Ahead' /\ EnrolledAreWriters'
    BY <2>1 DEF Inv, Ahead, EnrolledAreWriters
  <2> QED
    BY <2>1, <2>4, <2>5 DEF Inv
<1>9. CASE ResetNetwork
  <2>1. /\ open' = InitialSlot /\ scheduled_overrides' = <<>>
        /\ accounts' = [a \in Account |-> None] /\ offline' = {} /\ keep_alive_bindings' = {}
        /\ registered' = {} /\ done' = {} /\ lost' = {}
        /\ wrote' = {} /\ passed' = {} /\ unkept' = {}
        /\ UNCHANGED <<producing, travelling>>
    BY <1>9 DEF ResetNetwork
  <2>2. landed' = FALSE
    BY <1>9 DEF ResetNetwork
  <2>3. DOMAIN scheduled_overrides' = {}
    BY <2>1
  <2>4. TypeOK'
    BY <1>1, <2>1, <2>2, <2>3 DEF TypeOK
  <2>5. HoldsOnce(scheduled_overrides, registered \ (done \cup lost))'
    BY <2>1, <2>3 DEF HoldsOnce, In
  <2>6. Ahead' /\ EnrolledAreWriters'
    BY <2>1, <2>3 DEF Ahead, EnrolledAreWriters
  <2>7. AllKept
    BY <2>1 DEF AllKept
  <2>8. NothingBrought
    <3>1. offline \subseteq Account
      BY <1>1 DEF TypeOK
    <3> QED
      BY <2>1, <3>1 DEF NothingBrought
  <2> QED
    BY <1>2, <2>1, <2>4, <2>5, <2>6, <2>7, <2>8 DEF Inv
<1>10. CASE Restart
  <2>1. /\ open' \in InitialSlot..open /\ travelling' = 0
        /\ keep_alive_bindings' = {} /\ wrote' = {} /\ unkept' = {}
        /\ UNCHANGED <<scheduled_overrides, accounts, offline, registered, done, lost, passed>>
    BY <1>10 DEF Restart
  <2>2. landed' = FALSE /\ producing' = TRUE
    BY <1>10 DEF Restart
  <2>3. open' \in Nat /\ open' <= open
    BY <1>1, <2>1
  <2>4. TypeOK'
    BY <1>1, <2>1, <2>2, <2>3 DEF TypeOK
  <2>5. HoldsOnce(scheduled_overrides, registered \ (done \cup lost))' /\ EnrolledAreWriters'
    BY <2>1 DEF Inv, EnrolledAreWriters
  <2>6. Ahead'
    <3> SUFFICES ASSUME NEW slot \in DOMAIN scheduled_overrides
                 PROVE  slot > open' \/ slot \in passed
      BY <2>1 DEF Ahead
    <3>1. slot \in Nat /\ (slot > open \/ slot \in passed)
      BY <1>1 DEF Inv, Ahead, TypeOK
    <3> QED
      BY <1>1, <2>3, <3>1
  <2>7. AllKept /\ NothingBrought
    BY <2>1 DEF AllKept, NothingBrought
  <2> QED
    BY <1>2, <2>1, <2>4, <2>5, <2>6, <2>7 DEF Inv
<1>11. CASE UNCHANGED vars
  <2>1. UNCHANGED <<open, landed, producing, travelling, scheduled_overrides, accounts, offline,
                    keep_alive_bindings, registered, done, lost, wrote, passed,
                       unkept>>
    BY <1>11 DEF vars, world, history
  <2>2. Inv'
    BY <2>1 DEF Inv, TypeOK, Ahead, EnrolledAreWriters
  <2> QED
    BY <1>2, <1>3, <2>1, <2>2
<1> QED
  BY <1>2, <1>3, <1>4, <1>5, <1>6, <1>7, <1>8, <1>9, <1>10, <1>11 DEF Next

LEMMA InvHolds == Spec => []Inv
BY InvInit, InvNext, PTL DEF Spec

-----------------------------------------------------------------------------
(* Theorems *)

(* An override that was registered is in the schedule once until it is     *)
(* processed or refused its way back, and nowhere after, whatever else     *)
(* failed; what is scheduled is ahead, passed or failed; keep-alive has the accounts of the overrides   *)
(* that wrote and no others.                                               *)
THEOREM OverridesAccountedFor == Spec => []EveryOverrideAccountedFor
<1>1. Inv => EveryOverrideAccountedFor
  <2> SUFFICES ASSUME Inv PROVE EveryOverrideAccountedFor
    OBVIOUS
  <2>1. ASSUME NEW o \in Override
        PROVE  Cardinality(Places(o)) = IF o \in registered \ (done \cup lost) THEN 1 ELSE 0
    <3>1. \A p : p \in Places(o) <=>
            \E slot, i : p = <<slot, i>> /\ In(scheduled_overrides, o, slot, i)
      BY DEF Places, In
    <3>2. HoldsOnce(scheduled_overrides, registered \ (done \cup lost))
      BY DEF Inv
    <3>3. CASE o \in registered \ (done \cup lost)
      <4>1. PICK slot, i : In(scheduled_overrides, o, slot, i)
        BY <3>2, <3>3 DEF HoldsOnce
      <4>2. Places(o) = {<<slot, i>>}
        BY <3>1, <3>2, <4>1 DEF HoldsOnce
      <4> QED
        BY <3>3, <4>2, FS_Singleton
    <3>4. CASE o \notin registered \ (done \cup lost)
      <4>1. Places(o) = {}
        BY <3>1, <3>2, <3>4 DEF HoldsOnce
      <4> QED
        BY <3>4, <4>1, FS_EmptySet
    <3> QED
      BY <3>3, <3>4
  <2> QED
    BY <2>1 DEF Inv, Ahead, EveryOverrideAccountedFor
<1> QED
  BY <1>1, InvHolds, PTL

(* Whenever the Clock moves, every account bound to keep-alive that is     *)
(* there and was not refused its write shows the new moment, unless the    *)
(* close failed with the Clock moved and kept none alive; and no           *)
(* account that is not to be downloaded comes but by an override of the    *)
(* slot.                                                                   *)
THEOREM KeepAliveFollowsTheClock == Spec => KeepAliveFresh
<1>1. Inv /\ [Next]_vars =>
        [Moment' # Moment =>
           /\ \A a \in keep_alive_bindings' \ unkept' :
                accounts'[a] # None => accounts'[a].kept = Moment'
           /\ \A a \in offline :
                accounts[a] = None /\ accounts'[a] # None
                  => travelling = 0 /\ \E o \in ToSet(ScheduledAt(open + 1)) : a \in Writes[o]]_vars
  BY InvNext DEF AllKept, NothingBrought
<1> QED
  BY <1>1, InvHolds, PTL DEF Spec, KeepAliveFresh

(* What an override writes on a path that settles its accounts is still    *)
(* there when its slot is done, whatever the later overrides fetched.      *)
THEOREM FetchesWipeNoWrite == Spec => WritesSurviveFetches
<1>1. Inv /\ [Next]_vars => [StillThere(Account \ TokenAccounts)]_vars
  BY InvNext
<1> QED
  BY <1>1, InvHolds, PTL DEF Spec, WritesSurviveFetches
==============================================================================
