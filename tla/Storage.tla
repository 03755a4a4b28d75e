------------------------------ MODULE Storage ------------------------------
(***************************************************************************)
(* What a sandbox promises about one of the server's stores: the contract  *)
(* of trait Storage for the sandbox's view of it, while the store itself   *)
(* stays as it is until the sandbox is committed (or dropped).             *)
(***************************************************************************)
EXTENDS Naturals, FiniteSets

CONSTANTS Key, Value,
          Nothing  \* Option::None, the value of a key that is not there; it is no Value

VARIABLES contents,   \* what the sandbox reads: key -> value, for the keys there are
          committed,  \* what the store itself holds
          reply       \* what the last operation returned

vars == <<contents, committed, reply>>

Maps == UNION {[K -> Value] : K \in SUBSET Key}

Find(k) == IF k \in DOMAIN contents THEN contents[k] ELSE Nothing

With(k, v) == [x \in DOMAIN contents \cup {k} |-> IF x = k THEN v ELSE contents[x]]

Without(k) == [x \in DOMAIN contents \ {k} |-> contents[x]]

(* A sandbox is made of a store as it stands. *)
Init == /\ contents \in Maps
        /\ committed = contents
        /\ reply = [done |-> TRUE]

Store(k, v) == contents' = With(k, v) /\ reply' = [done |-> TRUE] /\ UNCHANGED committed

Get(k) == reply' = [value |-> Find(k)] /\ UNCHANGED <<contents, committed>>

(* A take returns what it removes. *)
Take(k) == contents' = Without(k) /\ reply' = [value |-> Find(k)] /\ UNCHANGED committed

Clear == contents' = [k \in {} |-> Nothing] /\ reply' = [done |-> TRUE] /\ UNCHANGED committed

Keys == reply' = [keys |-> DOMAIN contents] /\ UNCHANGED <<contents, committed>>

IntoIter == reply' = [entries |-> contents] /\ UNCHANGED <<contents, committed>>

Count == reply' = [count |-> Cardinality(DOMAIN contents)] /\ UNCHANGED <<contents, committed>>

(* The value at a key is replaced by v, or removed if v is Nothing. *)
Modify(k, v) ==
  /\ contents' = IF v = Nothing THEN Without(k) ELSE With(k, v)
  /\ reply' = [done |-> TRUE]
  /\ UNCHANGED committed

Commit == committed' = contents /\ reply' = [done |-> TRUE] /\ UNCHANGED contents

(* The sandbox is dropped and a new one made. *)
Discard == contents' = committed /\ reply' = [done |-> TRUE] /\ UNCHANGED committed

Next ==
  \/ \E k \in Key, v \in Value : Store(k, v)
  \/ \E k \in Key : Get(k)
  \/ \E k \in Key : Take(k)
  \/ Clear \/ Keys \/ IntoIter \/ Count
  \/ \E k \in Key, v \in Value \cup {Nothing} : Modify(k, v)
  \/ Commit
  \/ Discard

Spec == Init /\ [][Next]_vars
=============================================================================
