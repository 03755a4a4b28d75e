--------------------------- MODULE OverlayStorage ---------------------------
(***************************************************************************)
(* OverlayStorage, the copy-on-write wrapper every store of a profiling or *)
(* bundle sandbox is put in: writes and deletes go to a map in memory,     *)
(* reads fall through to the base for keys that are not in it, and         *)
(* commit_overlay_storage replays the map onto the base.  The base is any  *)
(* Storage, possibly another overlay; it is held to what module Storage    *)
(* says of one.  No other handle writes to the base meanwhile: a bundle    *)
(* sandbox is not committed onto a store that was written since.           *)
(***************************************************************************)
EXTENDS Naturals, FiniteSets

CONSTANTS Key, Value, Nothing,
          Deleted  \* OverlayEntry::Deleted; a Value stands for Written(value)

ASSUME OverlayAssumption ==
  /\ Nothing \notin Value /\ Deleted \notin Value /\ Nothing # Deleted

VARIABLES base,          \* the wrapped store: key -> value
          overlay,       \* key -> value or Deleted
          base_cleared,  \* the base is to be ignored
          reply          \* what the last operation returned

overlayVars == <<base, overlay, base_cleared, reply>>

NoEntries == [k \in {} |-> Nothing]

Written == {k \in DOMAIN overlay : overlay[k] # Deleted}
Tombstones == {k \in DOMAIN overlay : overlay[k] = Deleted}

FindInBase(k) == IF k \in DOMAIN base THEN base[k] ELSE Nothing

(* get: the overlay, then the base unless it was cleared. *)
FindIgnoringTombstones(k) ==  \* mutant: a deleted key is looked up in the base
  IF k \in Written THEN overlay[k]
  ELSE IF base_cleared THEN Nothing
  ELSE FindInBase(k)

Find(k) ==
  IF k \in Written THEN overlay[k]
  ELSE IF k \in Tombstones \/ base_cleared THEN Nothing
  ELSE FindInBase(k)

(* keys: what was written, and the base's keys that were not deleted. *)
KeySet ==
  Written \cup (IF base_cleared THEN {} ELSE DOMAIN base \ (Tombstones \cup Written))

Entries == [k \in KeySet |-> IF k \in Written THEN overlay[k] ELSE base[k]]

Put(k, entry) ==
  [x \in DOMAIN overlay \cup {k} |-> IF x = k THEN entry ELSE overlay[x]]

(* take: an entry becomes a tombstone; a key of the base gets one only if  *)
(* there is something to hide.                                             *)
OverlayAfterTake(k) ==
  IF k \in Written \/ (k \notin Tombstones /\ ~base_cleared /\ k \in DOMAIN base)
  THEN Put(k, Deleted)
  ELSE overlay

(* commit_overlay_storage: clear, then the deletes, then the writes. *)
Replayed(target) ==
  LET kept == (IF base_cleared THEN {} ELSE DOMAIN target) \ Tombstones IN
  [k \in kept \cup Written |-> IF k \in Written THEN overlay[k] ELSE target[k]]

-----------------------------------------------------------------------------
OverlayInit ==
  /\ base \in UNION {[K -> Value] : K \in SUBSET Key}
  /\ overlay = NoEntries
  /\ base_cleared = FALSE
  /\ reply = [done |-> TRUE]

Store(k, v) == /\ overlay' = Put(k, v)
               /\ reply' = [done |-> TRUE]
               /\ UNCHANGED <<base, base_cleared>>

Get(k) == reply' = [value |-> Find(k)] /\ UNCHANGED <<base, overlay, base_cleared>>

Take(k) == /\ reply' = [value |-> Find(k)]
           /\ overlay' = OverlayAfterTake(k)
           /\ UNCHANGED <<base, base_cleared>>

Clear == /\ overlay' = NoEntries
         /\ base_cleared' = TRUE
         /\ reply' = [done |-> TRUE]
         /\ UNCHANGED base

Keys == reply' = [keys |-> KeySet] /\ UNCHANGED <<base, overlay, base_cleared>>

IntoIter == reply' = [entries |-> Entries] /\ UNCHANGED <<base, overlay, base_cleared>>

Count == reply' = [count |-> Cardinality(KeySet)] /\ UNCHANGED <<base, overlay, base_cleared>>

(* modify: what is found is changed to v and stored, or taken if v is Nothing. *)
Modify(k, v) ==
  /\ overlay' = IF v = Nothing THEN OverlayAfterTake(k) ELSE Put(k, v)
  /\ reply' = [done |-> TRUE]
  /\ UNCHANGED <<base, base_cleared>>

(* The sandbox is committed, and another made of the result. *)
Commit == /\ base' = Replayed(base)
          /\ overlay' = NoEntries
          /\ base_cleared' = FALSE
          /\ reply' = [done |-> TRUE]

(* The sandbox is dropped, and another made of the base. *)
Discard == /\ overlay' = NoEntries
           /\ base_cleared' = FALSE
           /\ reply' = [done |-> TRUE]
           /\ UNCHANGED base

OverlayNext ==
  \/ \E k \in Key, v \in Value : Store(k, v)
  \/ \E k \in Key : Get(k)
  \/ \E k \in Key : Take(k)
  \/ Clear \/ Keys \/ IntoIter \/ Count
  \/ \E k \in Key, v \in Value \cup {Nothing} : Modify(k, v)
  \/ Commit
  \/ Discard

OverlaySpec == OverlayInit /\ [][OverlayNext]_overlayVars

-----------------------------------------------------------------------------
(* Properties *)

OverlayTypeOK ==
  /\ DOMAIN base \subseteq Key /\ base \in [DOMAIN base -> Value]
  /\ DOMAIN overlay \subseteq Key
  /\ overlay \in [DOMAIN overlay -> Value \cup {Deleted}]
  /\ base_cleared \in BOOLEAN

(* The sandbox's view, key by key. *)
View == [k \in {k \in Key : Find(k) # Nothing} |-> Find(k)]

Contract == INSTANCE Storage WITH contents <- View, committed <- base

(* The overlay is a Storage whose writes do not reach the base before a    *)
(* commit and all do then, and a dropped one leaves no trace.              *)
ImplementsContract == Contract!Spec
=============================================================================
