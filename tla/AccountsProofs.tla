--------------------------- MODULE AccountsProofs ---------------------------
(***************************************************************************)
(* Safety of the accounts, for any accounts, remote, RPC threads and       *)
(* number of writes, reads and commands.                                   *)
(*                                                                         *)
(* The invariant is one of each account (Kept): what the indexes have of   *)
(* it is what the account visible to callers leaves in them, the token     *)
(* account remembered beside them included, and a database holds what      *)
(* LiteSVM holds.  An operation on a bank is described by what it does to  *)
(* one account: Registers and Sets for writes, Filled and Landing for what *)
(* was fetched, Resetting for resets.  A call's accounts are resolved, and *)
(* streamed accounts reset, one after the other; StepByStep carries the    *)
(* description from one to the next.                                       *)
(***************************************************************************)
EXTENDS Accounts, FiniteSetTheorems, WellFoundedInduction, TLAPS

-----------------------------------------------------------------------------
(* The indexes, one account at a time *)

LEMMA NotNone == None \notin Accounts
BY AccountsAssumption, Zenon DEF Accounts

Indexed(a) == a # None /\ a.owner \in TokenPrograms /\ a.token # NoToken

OwnerEntries(b, q) == {e \in b.by_owner : e[2] = q}
TokenEntries(b, q) == {e \in b.by_token : e[3] = q}

(* In b, the indexes have of q what an account a leaves in them. *)
Registered(b, q, a) ==
  /\ OwnerEntries(b, q) = IF a = None THEN {} ELSE {<<a.owner, q>>}
  /\ TokenEntries(b, q) = IF Indexed(a) THEN Entries(a.token, q) ELSE {}
  /\ b.token_accounts[q] = IF Indexed(a) THEN a.token ELSE NoToken

SameIndexes(b, c, q) ==
  /\ OwnerEntries(c, q) = OwnerEntries(b, q)
  /\ TokenEntries(c, q) = TokenEntries(b, q)
  /\ c.token_accounts[q] = b.token_accounts[q]

LEMMA SameRegistered ==
  ASSUME NEW b, NEW c, NEW q, NEW a, SameIndexes(b, c, q), Registered(b, q, a)
  PROVE  Registered(c, q, a)
BY DEF SameIndexes, Registered

LEMMA EntriesTyped ==
  ASSUME NEW t \in Tokens, NEW p \in Pubkeys
  PROVE  /\ Entries(t, p) \subseteq {"owner", "mint", "delegate"} \X Keys \X Pubkeys
         /\ \A e \in Entries(t, p) : e[3] = p
<1>1. t.owner \in Keys /\ t.mint \in Keys /\ t.delegate \in Keys
  BY DEF Keys
<1> QED
  BY <1>1 DEF Entries

LEMMA Removes ==
  ASSUME NEW b \in Banks, NEW D \in SUBSET Pubkeys, NEW old \in [D -> Accounts]
  PROVE  LET c == RemoveFromIndexes(b, old)
         IN  /\ c \in Banks
             /\ c.live = b.live /\ c.db = b.db /\ c.offline = b.offline
             /\ c.unsettled = b.unsettled
             /\ c.by_owner \subseteq b.by_owner
             /\ \A q \in Pubkeys \ D : SameIndexes(b, c, q)
             /\ \A q \in D : Registered(b, q, None) => Registered(c, q, None)
             /\ \A q \in D, a \in Accounts :
                  Registered(b, q, a) /\ a.owner = old[q].owner => Registered(c, q, None)
<1> DEFINE indexed == {p \in DOMAIN old :
                         old[p].owner \in TokenPrograms /\ b.token_accounts[p] # NoToken}
           owners == {<<old[p].owner, p>> : p \in DOMAIN old}
           none   == [p \in indexed |-> NoToken]
           gone   == UNION {Entries(b.token_accounts[p], p) : p \in indexed}
           c      == RemoveFromIndexes(b, old)
<1>1. /\ b.by_owner \in SUBSET ({a.owner : a \in Accounts} \X Pubkeys)
      /\ b.token_accounts \in [Pubkeys -> Tokens \cup {NoToken}]
      /\ b.by_token \in SUBSET ({"owner", "mint", "delegate"} \X Keys \X Pubkeys)
  BY DEF Banks
<1>2. indexed \subseteq D /\ indexed \subseteq Pubkeys /\ DOMAIN old = D
  OBVIOUS
<1>3. none \in [indexed -> Tokens \cup {NoToken}]
  OBVIOUS
<1>4. /\ Over(b.token_accounts, none) \in [Pubkeys -> Tokens \cup {NoToken}]
      /\ \A q \in indexed : Over(b.token_accounts, none)[q] = NoToken
      /\ \A q \in Pubkeys \ indexed : Over(b.token_accounts, none)[q] = b.token_accounts[q]
  <2>1. \A q \in indexed : none[q] = NoToken
    OBVIOUS
  <2>2. indexed \in SUBSET Pubkeys /\ b.token_accounts \in [Pubkeys -> Tokens \cup {NoToken}]
    BY <1>1
  <2> HIDE DEF none, indexed
  <2> QED
    BY <2>2, <1>3, <2>1 DEF Over
<1>5. c = [b EXCEPT !.by_owner = b.by_owner \ owners,
                    !.token_accounts = Over(b.token_accounts, none),
                    !.by_token = b.by_token \ gone]
  BY DEF RemoveFromIndexes
<1>6. \A p \in indexed : \A e \in Entries(b.token_accounts[p], p) : e[3] = p
  BY <1>1, <1>2, EntriesTyped
<1>7. /\ c \in Banks
      /\ c.by_owner = b.by_owner \ owners
      /\ c.token_accounts = Over(b.token_accounts, none)
      /\ c.by_token = b.by_token \ gone
      /\ c.live = b.live /\ c.db = b.db /\ c.offline = b.offline
      /\ c.unsettled = b.unsettled
  <2> DEFINE over == Over(b.token_accounts, none)
  <2>1. /\ b.by_owner \ owners \in SUBSET ({a.owner : a \in Accounts} \X Pubkeys)
        /\ b.by_token \ gone \in SUBSET ({"owner", "mint", "delegate"} \X Keys \X Pubkeys)
    BY <1>1
  <2> HIDE DEF owners, none, gone, indexed, c, over
  <2>2. over \in [Pubkeys -> Tokens \cup {NoToken}]
    BY <1>4 DEF over
  <2> QED
    BY <2>1, <2>2, <1>5 DEF over, Banks
<1>8. \A e : e \in gone <=> \E p \in indexed : e \in Entries(b.token_accounts[p], p)
  OBVIOUS
<1>9. \A e : e \in owners <=> \E p \in D : e = <<old[p].owner, p>>
  OBVIOUS
<1>10. \A p \in Pubkeys : p \in indexed <=>
         p \in D /\ old[p].owner \in TokenPrograms /\ b.token_accounts[p] # NoToken
  OBVIOUS
<1> HIDE DEF c, none, gone, owners, indexed
<1>11. ASSUME NEW q \in Pubkeys \ D PROVE SameIndexes(b, c, q)
  <2>1. OwnerEntries(c, q) = OwnerEntries(b, q)
    BY <1>7, <1>9 DEF OwnerEntries
  <2>2. TokenEntries(c, q) = TokenEntries(b, q)
    BY <1>2, <1>6, <1>7, <1>8 DEF TokenEntries
  <2>3. c.token_accounts[q] = b.token_accounts[q]
    BY <1>2, <1>4, <1>7
  <2> QED
    BY <2>1, <2>2, <2>3 DEF SameIndexes
<1>12. ASSUME NEW q \in D, Registered(b, q, None) PROVE Registered(c, q, None)
  <2>1. q \in Pubkeys /\ q \notin indexed
    BY <1>10, <1>12 DEF Registered, Indexed
  <2>2. c.token_accounts[q] = NoToken
    BY <1>4, <1>7, <1>12, <2>1 DEF Registered, Indexed
  <2> QED
    BY <1>7, <1>12, <2>2 DEF Registered, Indexed, OwnerEntries, TokenEntries
<1>13. ASSUME NEW q \in D, NEW a \in Accounts, Registered(b, q, a), a.owner = old[q].owner
       PROVE  Registered(c, q, None)
  <2>1. q \in Pubkeys /\ a # None
    BY NotNone
  <2>2. OwnerEntries(c, q) = {}
    BY <1>7, <1>9, <1>13, <2>1 DEF Registered, OwnerEntries
  <2>3. q \in indexed <=> Indexed(a)
    BY <1>10, <1>13, <2>1 DEF Registered, Indexed
  <2>4. TokenEntries(c, q) = {} /\ c.token_accounts[q] = NoToken
    BY <1>4, <1>7, <1>8, <1>13, <2>1, <2>3 DEF Registered, TokenEntries
  <2> QED
    BY <2>2, <2>4 DEF Registered, Indexed
<1> QED
  BY <1>7, <1>11, <1>12, <1>13 DEF c
LEMMA Adds ==
  ASSUME NEW b \in Banks, NEW D \in SUBSET Pubkeys, NEW new \in [D -> Accounts],
         NEW c, c = AddToIndexes(b, new)
  PROVE  /\ c \in Banks
         /\ c.live = b.live /\ c.db = b.db /\ c.offline = b.offline
         /\ c.unsettled = b.unsettled
         /\ \A q \in Pubkeys \ D : SameIndexes(b, c, q)
         /\ \A q \in D : Registered(b, q, None) => Registered(c, q, new[q])
<1> DEFINE indexed == {p \in DOMAIN new :
                         new[p].owner \in TokenPrograms /\ new[p].token # NoToken}
           owners == {<<new[p].owner, p>> : p \in DOMAIN new}
           tokens == [p \in indexed |-> new[p].token]
           added  == UNION {Entries(new[p].token, p) : p \in indexed}
<1>1. /\ b.by_owner \in SUBSET ({a.owner : a \in Accounts} \X Pubkeys)
      /\ b.token_accounts \in [Pubkeys -> Tokens \cup {NoToken}]
      /\ b.by_token \in SUBSET ({"owner", "mint", "delegate"} \X Keys \X Pubkeys)
  BY DEF Banks
<1>2. indexed \subseteq D /\ indexed \subseteq Pubkeys /\ DOMAIN new = D
  OBVIOUS
<1>3. \A p \in indexed : new[p].token \in Tokens /\ tokens[p] = new[p].token
  BY DEF Tokens
<1>4. tokens \in [indexed -> Tokens \cup {NoToken}]
  <2>1. \A p \in indexed : new[p].token \in Tokens
    BY <1>3
  <2> HIDE DEF indexed
  <2> QED
    BY <2>1
<1>5. /\ Over(b.token_accounts, tokens) \in [Pubkeys -> Tokens \cup {NoToken}]
      /\ \A q \in indexed : Over(b.token_accounts, tokens)[q] = new[q].token
      /\ \A q \in Pubkeys \ indexed : Over(b.token_accounts, tokens)[q] = b.token_accounts[q]
  <2> HIDE DEF tokens, indexed
  <2> QED
    BY <1>1, <1>2, <1>3, <1>4 DEF Over
<1>6. \A p \in indexed :
        /\ Entries(new[p].token, p) \subseteq {"owner", "mint", "delegate"} \X Keys \X Pubkeys
        /\ \A e \in Entries(new[p].token, p) : e[3] = p
  <2> HIDE DEF tokens, indexed
  <2> QED
    BY <1>2, <1>3, EntriesTyped
<1>7. c = [b EXCEPT !.by_owner = b.by_owner \cup owners,
                    !.token_accounts = Over(b.token_accounts, tokens),
                    !.by_token = b.by_token \cup added]
  BY DEF AddToIndexes
<1>8. \A e : e \in added <=> \E p \in indexed : e \in Entries(new[p].token, p)
  OBVIOUS
<1>9. \A e : e \in owners <=> \E p \in D : e = <<new[p].owner, p>>
  OBVIOUS
<1>10. \A p \in D : new[p] # None /\ (p \in indexed <=> Indexed(new[p]))
  BY NotNone DEF Indexed
<1>11. owners \subseteq {a.owner : a \in Accounts} \X Pubkeys
  OBVIOUS
<1> HIDE DEF tokens, added, owners, indexed
<1>12. added \subseteq {"owner", "mint", "delegate"} \X Keys \X Pubkeys
  BY <1>6, <1>8
<1>13. /\ c \in Banks
       /\ c.by_owner = b.by_owner \cup owners
       /\ c.token_accounts = Over(b.token_accounts, tokens)
       /\ c.by_token = b.by_token \cup added
       /\ c.live = b.live /\ c.db = b.db /\ c.offline = b.offline
       /\ c.unsettled = b.unsettled
  <2> DEFINE over == Over(b.token_accounts, tokens)
  <2>1. /\ b.by_owner \cup owners \in SUBSET ({a.owner : a \in Accounts} \X Pubkeys)
        /\ b.by_token \cup added \in SUBSET ({"owner", "mint", "delegate"} \X Keys \X Pubkeys)
    BY <1>1, <1>11, <1>12
  <2> HIDE DEF over
  <2>2. over \in [Pubkeys -> Tokens \cup {NoToken}]
    BY <1>5 DEF over
  <2> QED
    BY <2>1, <2>2, <1>7 DEF over, Banks
<1>14. ASSUME NEW q \in Pubkeys \ D PROVE SameIndexes(b, c, q)
  <2>1. OwnerEntries(c, q) = OwnerEntries(b, q)
    BY <1>13, <1>9 DEF OwnerEntries
  <2>2. TokenEntries(c, q) = TokenEntries(b, q)
    BY <1>2, <1>6, <1>13, <1>8 DEF TokenEntries
  <2>3. c.token_accounts[q] = b.token_accounts[q]
    BY <1>2, <1>5, <1>13
  <2> QED
    BY <2>1, <2>2, <2>3 DEF SameIndexes
<1>15. ASSUME NEW q \in D, Registered(b, q, None) PROVE Registered(c, q, new[q])
  <2>1. q \in Pubkeys /\ new[q] # None
    BY NotNone
  <2>2. OwnerEntries(c, q) = {<<new[q].owner, q>>}
    BY <1>13, <1>9, <1>15 DEF Registered, OwnerEntries
  <2>3. /\ TokenEntries(c, q) = IF Indexed(new[q]) THEN Entries(new[q].token, q) ELSE {}
        /\ c.token_accounts[q] = IF Indexed(new[q]) THEN new[q].token ELSE NoToken
    <3>1. TokenEntries(b, q) = {} /\ b.token_accounts[q] = NoToken
      BY <1>15 DEF Registered, Indexed
    <3>2. CASE q \in indexed
      <4>1. Indexed(new[q]) /\ c.token_accounts[q] = new[q].token
        BY <1>5, <1>10, <1>13, <3>2
      <4>2. \A e \in added : e[3] = q => e \in Entries(new[q].token, q)
        BY <1>6, <1>8
      <4>3. \A e \in Entries(new[q].token, q) : e \in added /\ e[3] = q
        BY <1>6, <1>8, <3>2
      <4>4. TokenEntries(c, q) = Entries(new[q].token, q)
        BY <1>13, <3>1, <4>2, <4>3 DEF TokenEntries
      <4> QED
        BY <4>1, <4>4
    <3>3. CASE q \notin indexed
      BY <1>5, <1>6, <1>8, <1>10, <1>13, <2>1, <3>1, <3>3 DEF TokenEntries
    <3> QED
      BY <3>2, <3>3
  <2> QED
    BY <2>1, <2>2, <2>3 DEF Registered
<1> QED
  BY <1>13, <1>14, <1>15

-----------------------------------------------------------------------------
(* Writing accounts *)

(* What update_account_registries does to a bank: the accounts written are *)
(* registered as they are now, if they were as they were, and mirrored.    *)
LEMMA Registers ==
  ASSUME has_db \in BOOLEAN, NEW b \in Banks, NEW D \in SUBSET Pubkeys,
         NEW before, NEW after, before \in [D -> Accounts \cup {None}],
         after \in [D -> Accounts \cup {None}], NEW c, c = UpdateRegistries(b, before, after)
  PROVE  /\ c \in Banks
         /\ c.live = b.live /\ c.unsettled = b.unsettled
         /\ c.db = IF has_db THEN Over(b.db, after) ELSE b.db
         /\ (\A q \in D : after[q] # None) => c.offline = b.offline
         /\ \A q \in Pubkeys \ D : SameIndexes(b, c, q)
         /\ \A q \in D : Registered(b, q, before[q]) => Registered(c, q, after[q])
<1> DEFINE m       == Mirrored(b, after)
           old     == Present(before)
           new     == Present(after)
           x       == RemoveFromIndexes(m, old)
           deleted == {p \in DOMAIN after : after[p] = None}
           marks   == [p \in deleted |-> "alone"]
           y       == [x EXCEPT !.offline = Over(x.offline, marks)]
           O       == {q \in D : before[q] # None}
           N       == {q \in D : after[q] # None}
<1>1. c = AddToIndexes(y, new)
  BY DEF UpdateRegistries
<1>2. /\ m \in Banks /\ m.live = b.live /\ m.offline = b.offline
      /\ m.unsettled = b.unsettled
      /\ m.db = IF has_db THEN Over(b.db, after) ELSE b.db
      /\ m.by_owner = b.by_owner /\ m.by_token = b.by_token
      /\ m.token_accounts = b.token_accounts
  <2>1. CASE has_db
    <3>1. Over(b.db, after) \in [Pubkeys -> Accounts \cup {None}]
      BY <2>1 DEF Banks, Over
    <3>2. m = [b EXCEPT !.db = Over(b.db, after)]
      BY <2>1 DEF Mirrored
    <3> QED
      BY <2>1, <3>1, <3>2 DEF Banks
  <2>2. CASE ~has_db
    BY <2>2 DEF Mirrored
  <2> QED
    BY <2>1, <2>2
<1>3. old \in [O -> Accounts] /\ \A q \in O : old[q] = before[q]
  BY DEF Present
<1>4. new \in [N -> Accounts] /\ \A q \in N : new[q] = after[q]
  BY DEF Present
<1>5. O \in SUBSET Pubkeys /\ N \in SUBSET Pubkeys
  OBVIOUS
<1> HIDE DEF m, old, new
<1>6. /\ x \in Banks
      /\ x.live = m.live /\ x.db = m.db /\ x.offline = m.offline
      /\ x.unsettled = m.unsettled
      /\ \A q \in Pubkeys \ O : SameIndexes(m, x, q)
      /\ \A q \in O : Registered(m, q, before[q]) => Registered(x, q, None)
  BY <1>2, <1>3, <1>5, Removes
<1> HIDE DEF x
<1>7. /\ y \in Banks
      /\ y.live = x.live /\ y.db = x.db /\ y.unsettled = x.unsettled
      /\ y.by_owner = x.by_owner /\ y.by_token = x.by_token
      /\ y.token_accounts = x.token_accounts
      /\ y.offline = Over(x.offline, marks)
  <2>1. Over(x.offline, marks) \in [Pubkeys -> Offline]
    BY <1>6 DEF Banks, Over, Offline
  <2> HIDE DEF marks
  <2> QED
    BY <1>6, <2>1 DEF Banks
<1>8. (\A q \in D : after[q] # None) => y.offline = x.offline
  <2>1. SUFFICES ASSUME deleted = {} PROVE Over(x.offline, marks) = x.offline
    BY <1>7
  <2>2. x.offline \in [Pubkeys -> Offline]
    BY <1>6 DEF Banks
  <2> QED
    BY <2>1, <2>2 DEF Over
<1> HIDE DEF y
<1>9. /\ c \in Banks
      /\ c.live = y.live /\ c.db = y.db /\ c.offline = y.offline
      /\ c.unsettled = y.unsettled
      /\ \A q \in Pubkeys \ N : SameIndexes(y, c, q)
      /\ \A q \in N : Registered(y, q, None) => Registered(c, q, after[q])
  <2> HIDE DEF N
  <2>1. /\ c \in Banks
        /\ c.live = y.live /\ c.db = y.db /\ c.offline = y.offline
        /\ c.unsettled = y.unsettled
        /\ \A q \in Pubkeys \ N : SameIndexes(y, c, q)
        /\ \A q \in N : Registered(y, q, None) => Registered(c, q, new[q])
    BY <1>1, <1>4, <1>5, <1>7, Adds
  <2> QED
    BY <1>4, <2>1
<1>10. \A q : SameIndexes(b, m, q) /\ SameIndexes(x, y, q)
  BY <1>2, <1>7 DEF SameIndexes, OwnerEntries, TokenEntries
<1>11. ASSUME NEW q \in Pubkeys \ D PROVE SameIndexes(b, c, q)
  <2>1. SameIndexes(m, x, q) /\ SameIndexes(y, c, q)
    BY <1>6, <1>9
  <2> QED
    BY <1>10, <2>1 DEF SameIndexes
<1>12. ASSUME NEW q \in D, Registered(b, q, before[q]) PROVE Registered(c, q, after[q])
  <2>1. Registered(m, q, before[q])
    BY <1>10, <1>12, SameRegistered
  <2>2. Registered(x, q, None)
    <3>1. CASE q \in O
      BY <1>6, <2>1, <3>1
    <3>2. CASE q \notin O
      <4>1. before[q] = None /\ q \in Pubkeys \ O
        BY <3>2
      <4> QED
        BY <1>6, <2>1, <4>1, SameRegistered
    <3> QED
      BY <3>1, <3>2
  <2>3. Registered(y, q, None)
    BY <1>10, <2>2, SameRegistered
  <2>4. CASE q \in N
    BY <1>9, <2>3, <2>4
  <2>5. CASE q \notin N
    <3>1. after[q] = None /\ q \in Pubkeys \ N
      BY <2>5
    <3> QED
      BY <1>9, <2>3, <3>1, SameRegistered
  <2> QED
    BY <2>4, <2>5
<1> QED
  BY <1>2, <1>6, <1>7, <1>8, <1>9, <1>11, <1>12
(* The indexes follow the account, and a database holds it too, unless it  *)
(* was set in a way that LiteSVM did not take.                             *)
Kept(b, q) ==
  q \notin b.unsettled =>
    /\ Registered(b, q, Visible(b, q))
    /\ has_db /\ b.live[q] # None => b.db[q] = b.live[q]

Same(b, c, q) ==
  /\ c.live[q] = b.live[q] /\ c.db[q] = b.db[q]
  /\ q \in b.unsettled => q \in c.unsettled

LEMMA BankTyped ==
  ASSUME NEW b \in Banks, NEW q \in Pubkeys
  PROVE  /\ b.live[q] \in Accounts \cup {None} /\ b.db[q] \in Accounts \cup {None}
         /\ Visible(b, q) \in Accounts \cup {None}
         /\ ~has_db => b.db[q] = None
         /\ b.live \in [Pubkeys -> Accounts \cup {None}]
         /\ b.db \in [Pubkeys -> Accounts \cup {None}]
BY DEF Banks, Visible

LEMMA SameKept ==
  ASSUME NEW b, NEW c, NEW q, Same(b, c, q), SameIndexes(b, c, q), Kept(b, q)
  PROVE  Kept(c, q)
<1>1. SUFFICES ASSUME q \notin c.unsettled PROVE Kept(c, q)
  BY DEF Kept
<1>2. Visible(c, q) = Visible(b, q) /\ q \notin b.unsettled
  BY <1>1 DEF Same, Visible
<1>3. Registered(c, q, Visible(b, q))
  BY <1>2, SameRegistered DEF Kept
<1> QED
  BY <1>2, <1>3 DEF Kept, Same

LEMMA Accepted ==
  ASSUME has_db \in BOOLEAN, NEW b \in Banks, NEW p \in Pubkeys, NEW a \in Accounts \cup {None},
         NEW c, c = SetAccepted(b, p, a)
  PROVE  /\ c \in Banks /\ c.live[p] = Held(a)
         /\ c.db[p] = IF has_db THEN a ELSE b.db[p]
         /\ p \in c.unsettled <=> p \in b.unsettled \/ (~has_db /\ Held(a) # a)
         /\ a # None => c.offline = b.offline
         /\ \A q \in Pubkeys \ {p} : Same(b, c, q) /\ SameIndexes(b, c, q)
         /\ \A q \in Pubkeys \ {p} : q \in c.unsettled <=> q \in b.unsettled
         /\ Registered(b, p, Visible(b, p)) => Registered(c, p, a)
<1> DEFINE now    == b.unsettled \cup (IF has_db \/ Held(a) = a THEN {} ELSE {p})
           w      == [b EXCEPT !.live[p] = Held(a), !.unsettled = now]
           before == One(p, Visible(b, p))
           after  == One(p, a)
<1>1. c = UpdateRegistries(w, before, after)
  BY DEF SetAccepted
<1>2. Held(a) \in Accounts \cup {None} /\ now \in SUBSET Pubkeys
  BY DEF Held, Banks
<1>3. /\ p \in now <=> p \in b.unsettled \/ (~has_db /\ Held(a) # a)
      /\ \A q \in Pubkeys \ {p} : q \in now <=> q \in b.unsettled
  OBVIOUS
<1> HIDE DEF now
<1>4. /\ w \in Banks /\ w.live = [b.live EXCEPT ![p] = Held(a)] /\ w.db = b.db
      /\ w.offline = b.offline /\ w.by_owner = b.by_owner /\ w.by_token = b.by_token
      /\ w.token_accounts = b.token_accounts /\ w.unsettled = now
  BY <1>2 DEF Banks
<1>5. /\ before \in [{p} -> Accounts \cup {None}] /\ before[p] = Visible(b, p)
      /\ after \in [{p} -> Accounts \cup {None}] /\ after[p] = a
  BY BankTyped DEF One
<1> HIDE DEF w, before, after
<1>6. /\ c \in Banks
      /\ c.live = w.live /\ c.unsettled = w.unsettled
      /\ c.db = IF has_db THEN Over(w.db, after) ELSE w.db
      /\ a # None => c.offline = w.offline
      /\ \A q \in Pubkeys \ {p} : SameIndexes(w, c, q)
      /\ Registered(w, p, before[p]) => Registered(c, p, after[p])
  <2> DEFINE D == {p}
  <2>1. D \in SUBSET Pubkeys
    OBVIOUS
  <2>2. before \in [D -> Accounts \cup {None}] /\ after \in [D -> Accounts \cup {None}]
    BY <1>5
  <2> HIDE DEF D
  <2>3. /\ c \in Banks
        /\ c.live = w.live /\ c.unsettled = w.unsettled
        /\ c.db = IF has_db THEN Over(w.db, after) ELSE w.db
        /\ (\A q \in D : after[q] # None) => c.offline = w.offline
        /\ \A q \in Pubkeys \ D : SameIndexes(w, c, q)
        /\ \A q \in D : Registered(w, q, before[q]) => Registered(c, q, after[q])
    BY <1>1, <1>4, <2>1, <2>2, Registers
  <2> QED
    BY <1>5, <2>3 DEF D
<1>7. \A q : SameIndexes(b, w, q)
  BY <1>4 DEF SameIndexes, OwnerEntries, TokenEntries
<1>8. \A q \in Pubkeys : c.live[q] = IF q = p THEN Held(a) ELSE b.live[q]
  BY <1>4, <1>6, BankTyped
<1>9. \A q \in Pubkeys : c.db[q] = IF has_db /\ q = p THEN a ELSE b.db[q]
  <2>1. b.db \in [Pubkeys -> Accounts \cup {None}]
    BY BankTyped
  <2> QED
    BY <1>4, <1>5, <1>6, <2>1 DEF Over
<1>10. ASSUME NEW q \in Pubkeys \ {p} PROVE Same(b, c, q) /\ SameIndexes(b, c, q)
  <2>1. SameIndexes(w, c, q) /\ SameIndexes(b, w, q)
    BY <1>6, <1>7
  <2> QED
    BY <1>3, <1>4, <1>6, <1>8, <1>9, <2>1 DEF Same, SameIndexes
<1>11. Registered(b, p, Visible(b, p)) => Registered(c, p, a)
  BY <1>5, <1>6, <1>7, SameRegistered
<1> QED
  BY <1>3, <1>4, <1>6, <1>8, <1>9, <1>10, <1>11

LEMMA Refused ==
  ASSUME has_db \in BOOLEAN, NEW b \in Banks, NEW p \in Pubkeys, NEW a \in Accounts \cup {None},
         NEW c, c = SetRefused(b, p, a)
  PROVE  /\ c \in Banks /\ c.live = b.live /\ c.offline = b.offline
         /\ c.db[p] = IF has_db THEN a ELSE b.db[p]
         /\ p \in c.unsettled <=> p \in b.unsettled \/ (has_db /\ b.db[p] # a)
         /\ \A q \in Pubkeys \ {p} : Same(b, c, q)
         /\ \A q : SameIndexes(b, c, q)
<1> DEFINE now   == b.unsettled \cup (IF has_db /\ b.db[p] # a THEN {p} ELSE {})
           after == One(p, a)
           m     == Mirrored(b, after)
<1>1. m.unsettled = b.unsettled
  BY DEF Mirrored, Banks
<1>2. c = [m EXCEPT !.unsettled = now]
  BY <1>1 DEF SetRefused
<1>3. now \in SUBSET Pubkeys
  BY DEF Banks
<1>4. /\ p \in now <=> p \in b.unsettled \/ (has_db /\ b.db[p] # a)
      /\ \A q \in Pubkeys \ {p} : q \in now <=> q \in b.unsettled
  OBVIOUS
<1>5. after \in [{p} -> Accounts \cup {None}] /\ after[p] = a
  BY DEF One
<1> HIDE DEF now, after
<1>6. /\ m \in Banks /\ m.live = b.live /\ m.offline = b.offline
      /\ m.db = IF has_db THEN Over(b.db, after) ELSE b.db
      /\ m.by_owner = b.by_owner /\ m.by_token = b.by_token
      /\ m.token_accounts = b.token_accounts
  <2>1. CASE has_db
    <3>1. Over(b.db, after) \in [Pubkeys -> Accounts \cup {None}]
      BY <1>5, <2>1 DEF Banks, Over
    <3>2. m = [b EXCEPT !.db = Over(b.db, after)]
      BY <2>1 DEF Mirrored
    <3> QED
      BY <2>1, <3>1, <3>2 DEF Banks
  <2>2. CASE ~has_db
    BY <2>2 DEF Mirrored
  <2> QED
    BY <2>1, <2>2
<1> HIDE DEF m
<1>7. /\ c \in Banks /\ c.live = m.live /\ c.offline = m.offline /\ c.db = m.db
      /\ c.by_owner = m.by_owner /\ c.by_token = m.by_token
      /\ c.token_accounts = m.token_accounts /\ c.unsettled = now
  BY <1>2, <1>3, <1>6 DEF Banks
<1>8. \A q \in Pubkeys : c.db[q] = IF has_db /\ q = p THEN a ELSE b.db[q]
  <2>1. b.db \in [Pubkeys -> Accounts \cup {None}]
    BY BankTyped
  <2> QED
    BY <1>5, <1>6, <1>7, <2>1 DEF Over
<1>9. \A q \in Pubkeys \ {p} : Same(b, c, q)
  BY <1>4, <1>6, <1>7, <1>8 DEF Same
<1>10. \A q : SameIndexes(b, c, q)
  BY <1>6, <1>7 DEF SameIndexes, OwnerEntries, TokenEntries
<1> QED
  BY <1>4, <1>6, <1>7, <1>8, <1>9, <1>10

LEMMA Sets ==
  ASSUME has_db \in BOOLEAN, NEW b \in Banks, NEW p \in Pubkeys, NEW a \in Accounts \cup {None}
  PROVE  LET c == SetAccount(b, p, a)
         IN  /\ c \in Banks
             /\ b.live[p] = None => Visible(c, p) = a \/ Same(b, c, p)
             /\ a # None => c.offline = b.offline
             /\ \A q \in Pubkeys \ {p} : Same(b, c, q)
             /\ \A q \in Pubkeys : Kept(b, q) => Kept(c, q)
<1> DEFINE c == SetAccount(b, p, a)
<1>1. a.lamports > 0 /\ a # None => Held(a) = a
  BY DEF Held
<1>2. Held(a) \in {a, None}
  BY DEF Held
<1>3. CASE Accepts(b, p, a)
  <2>1. c = SetAccepted(b, p, a)
    BY <1>3 DEF SetAccount
  <2> HIDE DEF c
  <2>2. /\ c \in Banks /\ c.live[p] = Held(a)
        /\ c.db[p] = IF has_db THEN a ELSE b.db[p]
        /\ p \in c.unsettled <=> p \in b.unsettled \/ (~has_db /\ Held(a) # a)
        /\ a # None => c.offline = b.offline
        /\ \A q \in Pubkeys \ {p} : Same(b, c, q) /\ SameIndexes(b, c, q)
        /\ \A q \in Pubkeys \ {p} : q \in c.unsettled <=> q \in b.unsettled
        /\ Registered(b, p, Visible(b, p)) => Registered(c, p, a)
    BY <2>1, Accepted
  <2>3. has_db \/ Held(a) = a => Visible(c, p) = a
    BY <1>2, <2>2, BankTyped DEF Visible
  <2>4. ~has_db /\ Held(a) # a /\ b.live[p] = None => Same(b, c, p)
    BY <1>2, <2>2 DEF Same
  <2>5. \A q \in Pubkeys \ {p} : Kept(b, q) => Kept(c, q)
    BY <2>2, SameKept
  <2>6. Kept(b, p) => Kept(c, p)
    <3>1. SUFFICES ASSUME Kept(b, p), p \notin c.unsettled PROVE Kept(c, p)
      BY DEF Kept
    <3>2. Visible(c, p) = a /\ Registered(c, p, a)
      BY <2>2, <2>3, <3>1 DEF Kept
    <3>3. has_db /\ c.live[p] # None => c.db[p] = c.live[p]
      BY <1>2, <2>2
    <3> QED
      BY <3>2, <3>3 DEF Kept
  <2> QED
    BY <2>2, <2>3, <2>4, <2>5, <2>6 DEF c
<1>4. CASE ~Accepts(b, p, a)
  <2>1. c = SetRefused(b, p, a)
    BY <1>4 DEF SetAccount
  <2> HIDE DEF c
  <2>2. /\ c \in Banks /\ c.live = b.live /\ c.offline = b.offline
        /\ c.db[p] = IF has_db THEN a ELSE b.db[p]
        /\ p \in c.unsettled <=> p \in b.unsettled \/ (has_db /\ b.db[p] # a)
        /\ \A q \in Pubkeys \ {p} : Same(b, c, q)
        /\ \A q : SameIndexes(b, c, q)
    BY <2>1, Refused
  <2>3. b.live[p] = None => Visible(c, p) = a \/ Same(b, c, p)
    BY <2>2 DEF Visible, Same
  <2>4. p \notin c.unsettled => Same(b, c, p)
    BY <2>2 DEF Same
  <2>5. \A q \in Pubkeys : Kept(b, q) => Kept(c, q)
    <3>1. \A q \in Pubkeys \ {p} : Kept(b, q) => Kept(c, q)
      BY <2>2, SameKept
    <3>2. CASE p \in c.unsettled
      BY <3>1, <3>2 DEF Kept
    <3>3. CASE p \notin c.unsettled
      BY <2>2, <2>4, <3>1, <3>3, SameKept
    <3> QED
      BY <3>2, <3>3
  <2> QED
    BY <2>2, <2>3, <2>5 DEF c
<1> QED
  BY <1>3, <1>4

-----------------------------------------------------------------------------
(* Filling in what was fetched *)

(* q is as it was, or it is there now: what it was, if anything. *)
Filled(b, c, q) ==
  \/ Same(b, c, q)
  \/ /\ b.live[q] = None /\ Visible(c, q) # None
     /\ Visible(b, q) # None => Visible(c, q) = Visible(b, q)

LEMMA FilledAgain ==
  ASSUME NEW b, NEW c, NEW d, NEW q, Filled(b, c, q), Filled(c, d, q)
  PROVE  Filled(b, d, q)
BY DEF Filled, Same, Visible

LEMMA FilledKeeps ==
  ASSUME NEW b, NEW c, NEW q, Filled(b, c, q), Visible(b, q) # None
  PROVE  Visible(c, q) = Visible(b, q)
BY DEF Filled, Same, Visible

LEMMA Fills ==
  ASSUME has_db \in BOOLEAN, NEW b \in Banks, NEW p \in Pubkeys, NEW a \in Accounts
  PROVE  LET c == Fill(b, p, a)
         IN  /\ c \in Banks /\ c.offline = b.offline
             /\ Visible(b, p) = None => Visible(c, p) \in {a, None}
             /\ Filled(b, c, p) /\ \A q \in Pubkeys \ {p} : Same(b, c, q)
             /\ \A q \in Pubkeys : Kept(b, q) => Kept(c, q)
<1> DEFINE c == Fill(b, p, a)
           x == IF b.db[p] # None THEN b.db[p] ELSE a
<1>1. CASE b.live[p] # None
  BY <1>1 DEF Fill, Visible, Filled, Same
<1>2. CASE b.live[p] = None
  <2>1. c = SetAccount(b, p, x)
    BY <1>2 DEF Fill
  <2>2. x \in Accounts /\ x # None
    BY NotNone, BankTyped
  <2>3. /\ Visible(b, p) # None => x = Visible(b, p)
        /\ Visible(b, p) = None => x = a
    BY <1>2 DEF Visible
  <2> HIDE DEF x, c
  <2>4. /\ c \in Banks /\ (Visible(c, p) = x \/ Same(b, c, p))
        /\ c.offline = b.offline
        /\ \A q \in Pubkeys \ {p} : Same(b, c, q)
        /\ \A q \in Pubkeys : Kept(b, q) => Kept(c, q)
    BY <1>2, <2>1, <2>2, Sets
  <2>5. Filled(b, c, p)
    BY <1>2, <2>2, <2>3, <2>4 DEF Filled
  <2>6. Visible(b, p) = None => Visible(c, p) \in {a, None}
    BY <2>3, <2>4 DEF Same, Visible
  <2> QED
    BY <2>4, <2>5, <2>6 DEF c
<1> QED
  BY <1>1, <1>2

LEMMA CoupledTyped ==
  ASSUME NEW p \in Pubkeys, NEW a \in Accounts
  PROVE  Coupled(p, a) \in Pubkeys \cup {NoKey}
BY AccountsAssumption DEF Coupled, Accounts

LEMMA Hydrates ==
  ASSUME has_db \in BOOLEAN, NEW b \in Banks, NEW p \in Pubkeys, NEW a \in Accounts,
         NEW with \in Accounts \cup {None}
  PROVE  LET c == Hydrate(b, p, a, with)
         IN  /\ c \in Banks /\ c.offline = b.offline
             /\ Visible(b, p) = None => Visible(c, p) \in {a, None} \/ Coupled(p, a) = p
             /\ \A q \in Pubkeys : Filled(b, c, q)
             /\ \A q \in Pubkeys \ {p, Coupled(p, a)} : Same(b, c, q)
             /\ \A q \in Pubkeys : Kept(b, q) => Kept(c, q)
<1> DEFINE dep == Dependency(a, with)
           key == Coupled(p, a)
           m   == IF key = NoKey \/ dep = None THEN b ELSE Fill(b, key, dep)
           c   == Hydrate(b, p, a, with)
<1>1. c = Fill(m, p, a)
  BY DEF Hydrate
<1>2. dep \in Accounts \cup {None}
  BY DEF Dependency, Accounts
<1>3. key \in Pubkeys \cup {NoKey}
  BY CoupledTyped
<1> HIDE DEF dep, key, c
<1>4. /\ m \in Banks /\ m.offline = b.offline
      /\ \A q \in Pubkeys : Filled(b, m, q)
      /\ \A q \in Pubkeys \ {key} : Same(b, m, q)
      /\ \A q \in Pubkeys : Kept(b, q) => Kept(m, q)
  <2>1. CASE key = NoKey \/ dep = None
    BY <2>1 DEF Filled, Same
  <2>2. CASE ~(key = NoKey \/ dep = None)
    <3>1. key \in Pubkeys /\ dep \in Accounts /\ m = Fill(b, key, dep)
      BY <1>2, <1>3, <2>2
    <3> HIDE DEF m
    <3>2. /\ m \in Banks /\ m.offline = b.offline
          /\ Filled(b, m, key) /\ \A q \in Pubkeys \ {key} : Same(b, m, q)
          /\ \A q \in Pubkeys : Kept(b, q) => Kept(m, q)
      BY <3>1, Fills
    <3>3. \A q \in Pubkeys : Filled(b, m, q)
      BY <3>2 DEF Filled
    <3> QED
      BY <3>2, <3>3
  <2> QED
    BY <2>1, <2>2
<1> HIDE DEF m
<1>5. /\ c \in Banks /\ c.offline = m.offline
      /\ Visible(m, p) = None => Visible(c, p) \in {a, None}
      /\ Filled(m, c, p) /\ \A q \in Pubkeys \ {p} : Same(m, c, q)
      /\ \A q \in Pubkeys : Kept(m, q) => Kept(c, q)
  BY <1>1, <1>4, Fills
<1>6. \A q \in Pubkeys : Filled(b, c, q)
  <2>1. \A q \in Pubkeys : Filled(m, c, q)
    BY <1>5 DEF Filled
  <2> QED
    BY <1>4, <2>1, FilledAgain
<1>7. Visible(b, p) = None => Visible(c, p) \in {a, None} \/ key = p
  <2>1. SUFFICES ASSUME Visible(b, p) = None, key # p PROVE Visible(m, p) = None
    BY <1>5
  <2>2. Same(b, m, p)
    BY <1>4, <2>1
  <2> QED
    BY <2>1, <2>2 DEF Same, Visible
<1>8. \A q \in Pubkeys \ {p, key} : Same(b, c, q)
  BY <1>4, <1>5 DEF Same
<1> QED
  BY <1>4, <1>5, <1>6, <1>7, <1>8 DEF c, key
(* The accounts that resolving p may go by. *)
Sources(b, p, answer) ==
  ({answer.account} \cup (IF FromDatabase(b, p) THEN {b.db[p]} ELSE {})) \ {None}

(* What resolving p lets into LiteSVM: p itself if it may be fetched, and  *)
(* the account coupled with it.                                            *)
LEMMA Resolves ==
  ASSUME has_db \in BOOLEAN, NEW b \in Banks, NEW p \in Pubkeys, NEW answer \in Answers,
         NEW c, c = Resolve(b, p, answer)
  PROVE  /\ c \in Banks /\ c.offline = b.offline
         /\ \A q \in Pubkeys : Kept(b, q) => Kept(c, q)
         /\ \A q \in Pubkeys : Filled(b, c, q)
         /\ \A q \in Pubkeys :
              Visible(b, q) = None /\ Visible(c, q) # None =>
                \/ b.offline[q] = "online" /\ ~OwnerOffline(b, Visible(c, q))
                \/ b.live[p] = None /\ \E a \in Sources(b, p, answer) : Coupled(p, a) = q
<1>1. CASE FromDatabase(b, p)
  <2> DEFINE a    == b.db[p]
             key  == Coupled(p, a)
             with == IF key = NoKey THEN None ELSE b.db[key]
  <2>1. /\ a \in Accounts /\ Visible(b, p) # None /\ a \in Sources(b, p, answer)
        /\ b.live[p] = None
    BY <1>1, BankTyped DEF FromDatabase, Visible, Sources
  <2>2. key \in Pubkeys \cup {NoKey}
    BY <2>1, CoupledTyped
  <2>3. with \in Accounts \cup {None}
    <3> HIDE DEF key
    <3> QED
      BY <2>2, BankTyped
  <2>4. c = Hydrate(b, p, a, with)
    BY <1>1 DEF Resolve
  <2> HIDE DEF a, with
  <2>5. /\ c \in Banks /\ c.offline = b.offline
        /\ \A q \in Pubkeys : Filled(b, c, q)
        /\ \A q \in Pubkeys \ {p, key} : Same(b, c, q)
        /\ \A q \in Pubkeys : Kept(b, q) => Kept(c, q)
    BY <2>1, <2>3, <2>4, Hydrates
  <2>6. ASSUME NEW q \in Pubkeys, Visible(b, q) = None, Visible(c, q) # None
        PROVE  key = q
    BY <2>1, <2>5, <2>6 DEF Same, Visible
  <2> QED
    BY <2>1, <2>5, <2>6
<1>2. CASE ~FromDatabase(b, p) /\
           (b.live[p] # None \/ b.offline[p] # "online" \/ answer.account = None
              \/ OwnerOffline(b, answer.account))
  <2>1. c = b
    BY <1>2 DEF Resolve
  <2> QED
    BY <2>1 DEF Filled, Same
<1>3. CASE ~FromDatabase(b, p) /\
           ~(b.live[p] # None \/ b.offline[p] # "online" \/ answer.account = None
              \/ OwnerOffline(b, answer.account))
  <2> DEFINE a == answer.account
             key == Coupled(p, a)
  <2>1. a \in Accounts /\ answer.with \in Accounts \cup {None} /\ a \in Sources(b, p, answer)
    BY <1>3 DEF Answers, Sources
  <2>2. c = Hydrate(b, p, a, answer.with)
    BY <1>3 DEF Resolve
  <2>3. b.offline[p] = "online" /\ ~OwnerOffline(b, a) /\ b.live[p] = None
    BY <1>3
  <2> HIDE DEF a
  <2>4. /\ c \in Banks /\ c.offline = b.offline
        /\ Visible(b, p) = None => Visible(c, p) \in {a, None} \/ key = p
        /\ \A q \in Pubkeys : Filled(b, c, q)
        /\ \A q \in Pubkeys \ {p, key} : Same(b, c, q)
        /\ \A q \in Pubkeys : Kept(b, q) => Kept(c, q)
    BY <2>1, <2>2, Hydrates
  <2>5. ASSUME NEW q \in Pubkeys, Visible(b, q) = None, Visible(c, q) # None
        PROVE  key = q \/ (q = p /\ Visible(c, p) = a)
    BY <2>4, <2>5 DEF Same, Visible
  <2> QED
    BY <2>1, <2>3, <2>4, <2>5
<1> QED
  BY <1>1, <1>2, <1>3

-----------------------------------------------------------------------------
(* One account after the other *)

(* Every non-empty set of natural numbers has a smallest element. *)
LEMMA SmallestOf ==
  ASSUME NEW T \in SUBSET Nat, T # {}
  PROVE  \E x \in T : \A y \in T : x <= y
<1> DEFINE Below == {p \in Nat \X Nat : p[1] < p[2]}
<1>1. IsWellFoundedOn(Below, Nat)
  BY NatLessThanWellFounded DEF OpToRel
<1>2. \A x, y \in Nat : y < x => <<y, x>> \in Below
  OBVIOUS
<1> HIDE DEF Below
<1>3. \E x \in T : \A y \in T : ~ (<<y, x>> \in Below)
  BY <1>1, WFMin
<1>4. ASSUME NEW x \in Nat, NEW y \in Nat, <<y, x>> \notin Below PROVE x <= y
  BY <1>2, <1>4
<1> QED
  BY <1>3, <1>4

(* Steps 0 to n, of which each gives the next, all happen. *)
LEMMA StepByStep ==
  ASSUME NEW n \in Nat, NEW T, 0 \in T, \A i \in 1..n : i - 1 \in T => i \in T
  PROVE  0..n \subseteq T
<1>1. SUFFICES ASSUME (0..n) \ T # {} PROVE FALSE
  OBVIOUS
<1>2. PICK x \in (0..n) \ T : \A y \in (0..n) \ T : x <= y
  <2>1. (0..n) \ T \in SUBSET Nat
    OBVIOUS
  <2> QED
    BY <1>1, <2>1, SmallestOf
<1>3. x \in 1..n /\ x - 1 \in 0..n /\ ~(x <= x - 1)
  BY <1>2
<1> QED
  BY <1>2, <1>3

GoesOn(g, n, base, F) == g = [i \in 0..n |-> IF i = 0 THEN base ELSE F[i][g[i - 1]]]

(* A function that goes on from one element of S to the next exists. *)
LEMMA Recursion ==
  ASSUME NEW n \in Nat, NEW S, NEW base \in S, NEW F \in [1..n -> [S -> S]]
  PROVE  \E g : GoesOn(g, n, base, F)
<1> DEFINE Upto(g, k) == /\ g[0] = base
                         /\ \A i \in 1..k : g[i] = F[i][g[i - 1]]
                         /\ \A i \in 0..k : g[i] \in S
           T == {k \in 0..n : \E g : Upto(g, k)}
<1>1. 0 \in T
  <2> DEFINE h == [i \in {0} |-> base]
  <2>1. Upto(h, 0)
    OBVIOUS
  <2> HIDE DEF h
  <2> QED
    BY <2>1
<1>2. ASSUME NEW k \in 1..n, k - 1 \in T PROVE k \in T
  <2>1. PICK g : Upto(g, k - 1)
    BY <1>2
  <2> DEFINE h == [i \in 0..k |-> IF i = k THEN F[k][g[k - 1]] ELSE g[i]]
  <2>2. g[k - 1] \in S /\ F[k] \in [S -> S]
    BY <2>1
  <2>3. h[0] = base /\ h[k] = F[k][g[k - 1]] /\ h[k] \in S
    BY <2>1, <2>2
  <2>4. \A i \in 0..(k - 1) : h[i] = g[i]
    OBVIOUS
  <2> HIDE DEF h
  <2>5. ASSUME NEW i \in 1..k PROVE h[i] = F[i][h[i - 1]]
    <3>1. CASE i = k
      <4>1. k - 1 \in 0..(k - 1) /\ h[k - 1] = g[k - 1]
        BY <1>2, <2>4
      <4> QED
        BY <2>3, <3>1, <4>1
    <3>2. CASE i # k
      <4>1. i \in 1..(k - 1) /\ i - 1 \in 0..(k - 1) /\ i \in 0..(k - 1)
        BY <3>2
      <4> QED
        BY <2>1, <2>4, <4>1
    <3> QED
      BY <3>1, <3>2
  <2>6. \A i \in 0..k : h[i] \in S
    BY <2>1, <2>3, <2>4
  <2> QED
    BY <2>3, <2>5, <2>6
<1>3. \E g : Upto(g, n)
  <2>1. 0..n \subseteq T
    <3> HIDE DEF T
    <3> QED
      BY <1>1, <1>2, StepByStep
  <2>2. n \in 0..n
    OBVIOUS
  <2> QED
    BY <2>1, <2>2
<1>4. PICK g : Upto(g, n)
  BY <1>3
<1> DEFINE h == [i \in 0..n |-> g[i]]
<1>5. \A i \in 0..n : h[i] = IF i = 0 THEN base ELSE F[i][h[i - 1]]
  BY <1>4
<1>6. h = [i \in 0..n |-> IF i = 0 THEN base ELSE F[i][h[i - 1]]]
  BY <1>5
<1> QED
  BY <1>6 DEF GoesOn
-----------------------------------------------------------------------------
(* A whole call lands *)

(* q may have been brought into c by the call. *)
MayComeWith(b, c, q, call) ==
  \/ b.offline[q] = "online" /\ ~OwnerOffline(b, Visible(c, q))
  \/ \E i \in DOMAIN call.keys :
       /\ b.live[call.keys[i]] = None
       /\ \E a \in {call.answers[i].account, Visible(c, call.keys[i])} \ {None} :
            Coupled(call.keys[i], a) = q

(* c is b with accounts filled in by the call. *)
Landing(b, c, call) ==
  /\ c.offline = b.offline
  /\ \A q \in Pubkeys : Kept(b, q) => Kept(c, q)
  /\ \A q \in Pubkeys : Filled(b, c, q)
  /\ \A q \in Pubkeys : Visible(b, q) = None /\ Visible(c, q) # None => MayComeWith(b, c, q, call)

LEMMA LandingGoesOn ==
  ASSUME has_db \in BOOLEAN, NEW b \in Banks, NEW call, FetchOK(call),
         NEW x \in Banks, Landing(b, x, call), NEW i \in DOMAIN call.keys,
         NEW y, y = Resolve(x, call.keys[i], call.answers[i])
  PROVE  y \in Banks /\ Landing(b, y, call)
<1> DEFINE p == call.keys[i]
           answer == call.answers[i]
<1>1. p \in Pubkeys /\ answer \in Answers
  BY DEF FetchOK
<1>2. /\ y \in Banks /\ y.offline = x.offline
      /\ \A q \in Pubkeys : Kept(x, q) => Kept(y, q)
      /\ \A q \in Pubkeys : Filled(x, y, q)
      /\ \A q \in Pubkeys :
           Visible(x, q) = None /\ Visible(y, q) # None =>
             \/ x.offline[q] = "online" /\ ~OwnerOffline(x, Visible(y, q))
             \/ x.live[p] = None /\ \E a \in Sources(x, p, answer) : Coupled(p, a) = q
  <2> HIDE DEF p, answer
  <2>1. y = Resolve(x, p, answer)
    BY DEF p, answer
  <2> QED
    BY <1>1, <2>1, Resolves
<1>3. x.offline = b.offline /\ \A q \in Pubkeys : Filled(b, x, q)
  BY DEF Landing
<1>4. \A q \in Pubkeys : Kept(b, q) => Kept(y, q)
  BY <1>2 DEF Landing
<1>5. \A q \in Pubkeys : Filled(b, y, q)
  BY <1>2, <1>3, FilledAgain
<1>6. /\ Sources(x, p, answer) \subseteq {answer.account, Visible(y, p)} \ {None}
      /\ x.live[p] = None => b.live[p] = None
  <2>1. Filled(b, x, p) /\ Filled(x, y, p)
    BY <1>1, <1>2, <1>3
  <2>2. FromDatabase(x, p) => Visible(y, p) = x.db[p]
    BY <2>1, FilledKeeps DEF FromDatabase, Visible
  <2>3. x.live[p] = None => b.live[p] = None
    BY <2>1 DEF Filled, Same
  <2> QED
    BY <2>2, <2>3 DEF Sources, FromDatabase
<1>7. ASSUME NEW q \in Pubkeys, Visible(b, q) = None, Visible(y, q) # None
      PROVE  MayComeWith(b, y, q, call)
  <2>1. CASE Visible(x, q) # None
    <3>1. Visible(y, q) = Visible(x, q)
      BY <1>2, <2>1, FilledKeeps
    <3>2. MayComeWith(b, x, q, call)
      BY <1>7, <2>1 DEF Landing
    <3>3. CASE b.offline[q] = "online" /\ ~OwnerOffline(b, Visible(x, q))
      BY <3>1, <3>3 DEF MayComeWith
    <3>4. ASSUME NEW k \in DOMAIN call.keys, b.live[call.keys[k]] = None,
                 NEW a \in {call.answers[k].account, Visible(x, call.keys[k])} \ {None},
                 Coupled(call.keys[k], a) = q
          PROVE  MayComeWith(b, y, q, call)
      <4>1. call.keys[k] \in Pubkeys
        BY DEF FetchOK
      <4>2. a \in {call.answers[k].account, Visible(y, call.keys[k])}
        BY <1>2, <3>4, <4>1, FilledKeeps
      <4> QED
        BY <3>4, <4>2 DEF MayComeWith
    <3> QED
      BY <3>2, <3>3, <3>4 DEF MayComeWith
  <2>2. CASE Visible(x, q) = None
    <3>1. CASE x.offline[q] = "online" /\ ~OwnerOffline(x, Visible(y, q))
      BY <1>3, <3>1 DEF MayComeWith, OwnerOffline
    <3>2. CASE x.live[p] = None /\ \E a \in Sources(x, p, answer) : Coupled(p, a) = q
      <4>1. /\ b.live[p] = None
            /\ \E a \in {answer.account, Visible(y, p)} \ {None} : Coupled(p, a) = q
        BY <1>6, <3>2
      <4> QED
        BY <4>1 DEF MayComeWith
    <3> QED
      BY <1>2, <1>7, <2>2, <3>1, <3>2
  <2> QED
    BY <2>1, <2>2
<1> QED
  BY <1>2, <1>3, <1>4, <1>5, <1>7 DEF Landing

LEMMA Lands ==
  ASSUME has_db \in BOOLEAN, NEW b \in Banks, NEW call, FetchOK(call)
  PROVE  Landed(b, call) \in Banks /\ Landing(b, Landed(b, call), call)
<1> DEFINE n == Len(call.keys)
           S == {x \in Banks : Landing(b, x, call)}
           F == [i \in 1..n |-> [x \in S |-> Resolve(x, call.keys[i], call.answers[i])]]
           Step(g) == [i \in 0..n |->
                         IF i = 0 THEN b ELSE Resolve(g[i - 1], call.keys[i], call.answers[i])]
           landed == CHOOSE g : g = Step(g)
           T == {i \in 0..n : landed[i] \in S}
<1>1. n \in Nat /\ DOMAIN call.keys = 1..n
  BY DEF FetchOK
<1>2. b \in S
  BY DEF Landing, Filled, Same
<1>3. \A i \in 1..n, x \in S : Resolve(x, call.keys[i], call.answers[i]) \in S
  BY <1>1, LandingGoesOn
<1> HIDE DEF n, S
<1>4. F \in [1..n -> [S -> S]]
  BY <1>3
<1>5. PICK g : g = [i \in 0..n |-> IF i = 0 THEN b ELSE F[i][g[i - 1]]]
  <2> HIDE DEF F
  <2>1. \E g : GoesOn(g, n, b, F)
    BY <1>1, <1>2, <1>4, Recursion
  <2> QED
    BY <2>1 DEF GoesOn
<1>6. g = Step(g)
  <2> DEFINE U == {i \in 0..n : g[i] \in S}
  <2>1. 0 \in U
    BY <1>1, <1>2, <1>5
  <2>2. ASSUME NEW i \in 1..n, i - 1 \in U PROVE i \in U
    <3>1. i \in 0..n /\ i # 0 /\ g[i - 1] \in S
      BY <1>1, <2>2
    <3>2. g[i] = F[i][g[i - 1]]
      <4> HIDE DEF F, U
      <4> QED
        BY <1>5, <3>1
    <3> HIDE DEF F
    <3> QED
      BY <1>4, <3>1, <3>2
  <2>3. 0..n \subseteq U
    <3> HIDE DEF U
    <3> QED
      BY <1>1, <2>1, <2>2, StepByStep
  <2>4. ASSUME NEW i \in 1..n
        PROVE  F[i][g[i - 1]] = Resolve(g[i - 1], call.keys[i], call.answers[i])
    <3>1. i - 1 \in 0..n
      BY <1>1
    <3>2. g[i - 1] \in S
      BY <2>3, <3>1
    <3> QED
      BY <3>2
  <2>5. \A i \in 0..n : g[i] = Step(g)[i]
    <3> HIDE DEF F, U
    <3> QED
      BY <1>1, <1>5, <2>4
  <2> QED
    <3> HIDE DEF F, U
    <3> QED
      BY <1>5, <2>5
<1>7. landed = Step(landed)
  <2> HIDE DEF Step
  <2> QED
    BY <1>6
<1>8. Landed(b, call) = landed[n]
  BY DEF Landed, LandedTo, n
<1> HIDE DEF landed
<1>9. 0 \in T
  BY <1>1, <1>2, <1>7
<1>10. ASSUME NEW i \in 1..n, i - 1 \in T PROVE i \in T
  <2>1. i \in 0..n /\ i # 0 /\ landed[i - 1] \in S
    BY <1>1, <1>10
  <2>2. landed[i] = Resolve(landed[i - 1], call.keys[i], call.answers[i])
    BY <1>7, <2>1
  <2> QED
    BY <1>3, <2>1, <2>2
<1>11. 0..n \subseteq T
  <2> HIDE DEF T
  <2> QED
    BY <1>1, <1>9, <1>10, StepByStep
<1>12. n \in 0..n
  BY <1>1
<1> QED
  BY <1>8, <1>11, <1>12 DEF S
-----------------------------------------------------------------------------
(* Resets *)

SameOrGone(b, c, q) == Same(b, c, q) \/ (c.live[q] = None /\ c.db[q] = None)

(* A reset takes accounts away, and their entries with them, but for those *)
(* it leaves behind.                                                       *)
LEMMA Resets ==
  ASSUME has_db \in BOOLEAN, NEW b \in Banks, NEW p \in Pubkeys, NEW owned \in BOOLEAN,
         NEW c, c = ResetAccount(b, p, owned)
  PROVE  /\ c \in Banks /\ c.by_owner \subseteq b.by_owner
         /\ \A q \in Pubkeys : SameOrGone(b, c, q)
         /\ \A q \in Pubkeys \ LeftBehind(b, p, owned) : Kept(b, q) => Kept(c, q)
<1>1. CASE Visible(b, p) = None
  BY <1>1 DEF ResetAccount, SameOrGone, Same
<1>2. CASE Visible(b, p) # None
  <2> DEFINE a    == Visible(b, p)
             ps   == PurgedWith(b, p, owned) \cup {p}
             old  == [q \in ps |-> a]
             none == [q \in ps |-> None]
             r    == RemoveFromIndexes(b, old)
  <2>1. a \in Accounts
    BY <1>2, BankTyped
  <2>2. ps \in SUBSET Pubkeys
    BY AccountsAssumption DEF PurgedWith, OwnedBy
  <2>3. c = [r EXCEPT !.live = Over(r.live, none), !.db = Over(r.db, none)]
    BY <1>2 DEF ResetAccount, Purge
  <2>4. \A q \in ps : (Visible(b, q) # None => Visible(b, q).owner = a.owner)
                         \/ q \in LeftBehind(b, p, owned)
    BY <1>2 DEF LeftBehind
  <2> HIDE DEF a, ps
  <2>5. old \in [ps -> Accounts] /\ none \in [ps -> {None}] /\ \A q \in ps : old[q] = a
    BY <2>1
  <2> HIDE DEF old, none
  <2>6. /\ r \in Banks
        /\ r.live = b.live /\ r.db = b.db /\ r.unsettled = b.unsettled
        /\ r.by_owner \subseteq b.by_owner
        /\ \A q \in Pubkeys \ ps : SameIndexes(b, r, q)
        /\ \A q \in ps : Registered(b, q, None) => Registered(r, q, None)
        /\ \A q \in ps, x \in Accounts :
             Registered(b, q, x) /\ x.owner = old[q].owner => Registered(r, q, None)
    BY <2>2, <2>5, Removes
  <2> HIDE DEF r
  <2>7. /\ c \in Banks
        /\ c.live = Over(b.live, none) /\ c.db = Over(b.db, none)
        /\ c.by_owner = r.by_owner /\ c.by_token = r.by_token
        /\ c.token_accounts = r.token_accounts /\ c.unsettled = r.unsettled
    <3>1. Over(b.live, none) \in [Pubkeys -> Accounts \cup {None}]
      BY <2>2, <2>5 DEF Banks, Over
    <3>2. Over(b.db, none) \in [Pubkeys -> IF has_db THEN Accounts \cup {None} ELSE {None}]
      BY <2>2, <2>5 DEF Banks, Over
    <3> QED
      BY <2>3, <2>6, <3>1, <3>2 DEF Banks
  <2>8. /\ \A q \in Pubkeys : c.live[q] = IF q \in ps THEN None ELSE b.live[q]
        /\ \A q \in Pubkeys : c.db[q] = IF q \in ps THEN None ELSE b.db[q]
    BY <2>2, <2>5, <2>7 DEF Banks, Over
  <2>9. \A q : SameIndexes(r, c, q)
    BY <2>7 DEF SameIndexes, OwnerEntries, TokenEntries
  <2>10. \A q \in Pubkeys : SameOrGone(b, c, q)
    BY <2>6, <2>7, <2>8 DEF SameOrGone, Same
  <2>11. ASSUME NEW q \in Pubkeys \ LeftBehind(b, p, owned), Kept(b, q), q \notin c.unsettled
         PROVE  Kept(c, q)
    <3>1. CASE q \notin ps
      <4>1. Same(b, c, q)
        BY <2>6, <2>7, <2>8, <3>1 DEF Same
      <4>2. SameIndexes(b, c, q)
        BY <2>6, <2>9, <3>1 DEF SameIndexes
      <4> QED
        BY <2>11, <4>1, <4>2, SameKept
    <3>2. CASE q \in ps
      <4>1. Registered(b, q, Visible(b, q))
        BY <2>6, <2>7, <2>11 DEF Kept
      <4>2. Registered(r, q, None)
        <5>1. CASE Visible(b, q) = None
          BY <2>6, <3>2, <4>1, <5>1
        <5>2. CASE Visible(b, q) # None
          <6>1. Visible(b, q) \in Accounts /\ Visible(b, q).owner = old[q].owner
            BY <2>4, <2>5, <3>2, <5>2, BankTyped
          <6> QED
            BY <2>6, <3>2, <4>1, <6>1
        <5> QED
          BY <5>1, <5>2
      <4>3. Registered(c, q, None)
        BY <2>9, <4>2, SameRegistered
      <4>4. c.live[q] = None /\ c.db[q] = None /\ Visible(c, q) = None
        BY <2>8, <3>2 DEF Visible
      <4> QED
        BY <4>3, <4>4 DEF Kept
    <3> QED
      BY <3>1, <3>2
  <2>12. \A q \in Pubkeys : q \in c.unsettled => Kept(c, q)
    BY DEF Kept
  <2> QED
    BY <2>6, <2>7, <2>10, <2>11, <2>12
<1> QED
  BY <1>1, <1>2

(* c is b after resets of streamed accounts. *)
Resetting(b, c) ==
  /\ c.by_owner \subseteq b.by_owner
  /\ \A q \in Pubkeys : SameOrGone(b, c, q)
  /\ \A q \in Pubkeys \ StreamedLeftBehind(b) : Kept(b, q) => Kept(c, q)

LEMMA ResettingGoesOn ==
  ASSUME has_db \in BOOLEAN, NEW b \in Banks, NEW x \in Banks, Resetting(b, x),
         NEW p \in Streamed, NEW y, y = ResetAccount(x, p, streamed[p] = "owned")
  PROVE  y \in Banks /\ Resetting(b, y)
<1> DEFINE owned == streamed[p] = "owned"
<1>1. p \in Pubkeys /\ owned \in BOOLEAN
  BY DEF Streamed
<1>2. /\ y \in Banks /\ y.by_owner \subseteq x.by_owner
      /\ \A q \in Pubkeys : SameOrGone(x, y, q)
      /\ \A q \in Pubkeys \ LeftBehind(x, p, owned) : Kept(x, q) => Kept(y, q)
  BY <1>1, Resets
<1>3. LeftBehind(x, p, owned) \subseteq LeftBehind(b, p, owned)
  <2>1. SUFFICES ASSUME NEW q \in LeftBehind(x, p, owned) PROVE q \in LeftBehind(b, p, owned)
    OBVIOUS
  <2>2. /\ Visible(x, p) # None /\ q \in PurgedWith(x, p, owned)
        /\ Visible(x, q) # None /\ Visible(x, q).owner # Visible(x, p).owner
    BY <2>1 DEF LeftBehind
  <2>3. \A o \in Pubkeys : Visible(x, o) # None => Visible(b, o) = Visible(x, o)
    BY DEF Resetting, SameOrGone, Same, Visible
  <2>4. q \in Pubkeys
    BY <1>1, <2>2, AccountsAssumption DEF PurgedWith, OwnedBy
  <2>5. Visible(b, p) = Visible(x, p) /\ Visible(b, q) = Visible(x, q)
    BY <1>1, <2>2, <2>3, <2>4
  <2>6. q \in PurgedWith(b, p, owned)
    BY <2>2, <2>3, <2>5 DEF PurgedWith, OwnedBy, Resetting
  <2> QED
    BY <2>2, <2>5, <2>6 DEF LeftBehind
<1>4. LeftBehind(b, p, owned) \subseteq StreamedLeftBehind(b)
  BY DEF StreamedLeftBehind
<1>5. \A q \in Pubkeys : SameOrGone(b, y, q)
  BY <1>2 DEF Resetting, SameOrGone, Same
<1> QED
  BY <1>2, <1>3, <1>4, <1>5 DEF Resetting

LEMMA ResetsAll ==
  ASSUME has_db \in BOOLEAN, NEW b \in Banks, NEW order \in SetToSeqs(Streamed)
  PROVE  ResetTo(b, order, Len(order)) \in Banks /\ Resetting(b, ResetTo(b, order, Len(order)))
<1> DEFINE n == Len(order)
           Reset(x, i) == ResetAccount(x, order[i], streamed[order[i]] = "owned")
           S == {x \in Banks : Resetting(b, x)}
           F == [i \in 1..n |-> [x \in S |-> Reset(x, i)]]
           Step(g) == [i \in 0..n |-> IF i = 0 THEN b ELSE Reset(g[i - 1], i)]
           reset == CHOOSE g : g = Step(g)
           T == {i \in 0..n : reset[i] \in S}
<1>1. n \in Nat /\ \A i \in 1..n : order[i] \in Streamed
  <2>1. IsFiniteSet(Streamed)
    BY AccountsAssumption, FS_Subset DEF Streamed
  <2>2. Cardinality(Streamed) \in Nat
    BY <2>1, FS_CardinalityType
  <2>3. order \in [1..Cardinality(Streamed) -> Streamed]
    BY DEF SetToSeqs
  <2> QED
    BY <2>2, <2>3
<1>2. b \in S
  BY DEF Resetting, SameOrGone, Same
<1>3. \A i \in 1..n, x \in S : Reset(x, i) \in S
  BY <1>1, ResettingGoesOn
<1> HIDE DEF n, S, Reset
<1>4. F \in [1..n -> [S -> S]]
  BY <1>3
<1>5. PICK g : g = [i \in 0..n |-> IF i = 0 THEN b ELSE F[i][g[i - 1]]]
  <2> HIDE DEF F
  <2>1. \E g : GoesOn(g, n, b, F)
    BY <1>1, <1>2, <1>4, Recursion
  <2> QED
    BY <2>1 DEF GoesOn
<1>6. g = Step(g)
  <2> DEFINE U == {i \in 0..n : g[i] \in S}
  <2>1. 0 \in U
    BY <1>1, <1>2, <1>5
  <2>2. ASSUME NEW i \in 1..n, i - 1 \in U PROVE i \in U
    <3>1. i \in 0..n /\ i # 0 /\ g[i - 1] \in S
      BY <1>1, <2>2
    <3>2. g[i] = F[i][g[i - 1]]
      <4> HIDE DEF F, U
      <4> QED
        BY <1>5, <3>1
    <3> HIDE DEF F
    <3> QED
      BY <1>4, <3>1, <3>2
  <2>3. 0..n \subseteq U
    <3> HIDE DEF U
    <3> QED
      BY <1>1, <2>1, <2>2, StepByStep
  <2>4. ASSUME NEW i \in 1..n PROVE F[i][g[i - 1]] = Reset(g[i - 1], i)
    <3>1. i - 1 \in 0..n
      BY <1>1
    <3>2. g[i - 1] \in S
      BY <2>3, <3>1
    <3> QED
      BY <3>2
  <2>5. \A i \in 0..n : g[i] = Step(g)[i]
    <3> HIDE DEF F, U
    <3> QED
      BY <1>1, <1>5, <2>4
  <2> QED
    <3> HIDE DEF F, U
    <3> QED
      BY <1>5, <2>5
<1>7. reset = Step(reset)
  <2> HIDE DEF Step
  <2> QED
    BY <1>6
<1>8. ResetTo(b, order, n) = reset[n]
  BY DEF ResetTo, Reset
<1> HIDE DEF reset
<1>9. 0 \in T
  BY <1>1, <1>2, <1>7
<1>10. ASSUME NEW i \in 1..n, i - 1 \in T PROVE i \in T
  <2>1. i \in 0..n /\ i # 0 /\ reset[i - 1] \in S
    BY <1>1, <1>10
  <2>2. reset[i] = Reset(reset[i - 1], i)
    BY <1>7, <2>1
  <2> QED
    BY <1>3, <2>1, <2>2
<1>11. 0..n \subseteq T
  <2> HIDE DEF T
  <2> QED
    BY <1>1, <1>9, <1>10, StepByStep
<1>12. n \in 0..n
  BY <1>1
<1> QED
  BY <1>8, <1>11, <1>12 DEF S, n
-----------------------------------------------------------------------------
(* The inductive invariant *)

AccountsInv == TypeOK /\ \A q \in Pubkeys \ blurred : Kept(bank, q)

(* What a step has to keep: the bank, and the rest.                        *)
BankStep ==
  /\ has_db' = has_db /\ bank' \in Banks
  /\ \A q \in Pubkeys \ blurred' : Kept(bank', q)

CallsOK(calls) ==
  /\ DOMAIN calls = Readers
  /\ \A r \in Readers :
       calls[r] # NoCall =>
         IF "answers" \in DOMAIN calls[r] THEN FetchOK(calls[r]) ELSE EditOK(calls[r])

RestOK ==
  /\ remote \in [Pubkeys -> Accounts \cup {None}]
  /\ streamed \in [Pubkeys -> {"no", "alone", "owned"}]
  /\ CallsOK(readers)
  /\ DOMAIN tx \subseteq Pubkeys /\ tx \in [DOMAIN tx -> Accounts \cup {None}]
  /\ resetting \in (Pubkeys \X BOOLEAN) \cup {NoReset}
  /\ blurred \subseteq Pubkeys

LEMMA InvSplit ==
  AccountsInv <=> /\ has_db \in BOOLEAN /\ bank \in Banks /\ RestOK
                  /\ \A q \in Pubkeys \ blurred : Kept(bank, q)
BY DEF AccountsInv, TypeOK, RestOK, CallsOK, InFetch

LEMMA InvStep ==
  ASSUME AccountsInv, BankStep, RestOK'
  PROVE  AccountsInv'
<1>1. Banks' = Banks /\ has_db' \in BOOLEAN
  BY InvSplit DEF BankStep, Banks, Accounts, Tokens, Keys
<1>2. \A q \in Pubkeys \ blurred' : Kept(bank, q)'
  BY DEF BankStep, Kept, Registered, OwnerEntries, TokenEntries, Indexed, Visible, Entries
<1>3. bank' \in Banks'
  BY <1>1 DEF BankStep
<1> QED
  BY <1>1, <1>2, <1>3 DEF AccountsInv, TypeOK, RestOK, CallsOK, InFetch

(* The bank of a step that leaves it alone. *)
LEMMA BankAlone ==
  ASSUME AccountsInv, UNCHANGED <<has_db, bank, blurred>>
  PROVE  BankStep
BY DEF AccountsInv, TypeOK, BankStep

(* A bank that differs from another in its offline marks only. *)
LEMMA MarksOnly ==
  ASSUME NEW b \in Banks, NEW offline \in [Pubkeys -> Offline],
         NEW c, c = [b EXCEPT !.offline = offline]
  PROVE  c \in Banks /\ \A q \in Pubkeys : Kept(b, q) => Kept(c, q)
<1>1. /\ c \in Banks /\ c.live = b.live /\ c.db = b.db /\ c.by_owner = b.by_owner
      /\ c.unsettled = b.unsettled /\ c.by_token = b.by_token /\ c.token_accounts = b.token_accounts
  BY DEF Banks
<1>2. \A q : Same(b, c, q) /\ SameIndexes(b, c, q)
  BY <1>1 DEF Same, SameIndexes, OwnerEntries, TokenEntries
<1> QED
  BY <1>1, <1>2, SameKept

(* Garbage collection shows what the database holds, which is the same.    *)
LEMMA Collects ==
  ASSUME has_db \in BOOLEAN, NEW b \in Banks, NEW c, c = Collected(b)
  PROVE  c \in Banks /\ \A q \in Pubkeys : Kept(b, q) => Kept(c, q)
<1>1. CASE ~has_db
  BY <1>1 DEF Collected
<1>2. CASE has_db
  <2> DEFINE gone == [p \in Pubkeys |-> None]
  <2>1. c = [b EXCEPT !.live = gone]
    BY <1>2 DEF Collected
  <2>2. gone \in [Pubkeys -> Accounts \cup {None}] /\ \A q \in Pubkeys : gone[q] = None
    OBVIOUS
  <2> HIDE DEF gone
  <2>3. /\ c \in Banks /\ c.live = gone /\ c.db = b.db /\ c.by_owner = b.by_owner
        /\ c.unsettled = b.unsettled
        /\ c.by_token = b.by_token /\ c.token_accounts = b.token_accounts
    BY <2>1, <2>2 DEF Banks
  <2>4. ASSUME NEW q \in Pubkeys, Kept(b, q), q \notin c.unsettled PROVE Kept(c, q)
    <3>1. Visible(c, q) = Visible(b, q) /\ c.live[q] = None
      BY <1>2, <2>2, <2>3, <2>4 DEF Kept, Visible
    <3>2. SameIndexes(b, c, q)
      BY <2>3 DEF SameIndexes, OwnerEntries, TokenEntries
    <3>3. Registered(c, q, Visible(b, q))
      BY <2>3, <2>4, <3>2, SameRegistered DEF Kept
    <3> QED
      BY <3>1, <3>3 DEF Kept
  <2>5. \A q \in Pubkeys : q \in c.unsettled => Kept(c, q)
    BY DEF Kept
  <2> QED
    BY <2>3, <2>4, <2>5
<1> QED
  BY <1>1, <1>2

LEMMA CallsStep ==
  ASSUME NEW calls, CallsOK(calls), NEW r \in Readers, NEW call,
         \/ call = NoCall
         \/ "answers" \in DOMAIN call /\ FetchOK(call)
         \/ "answers" \notin DOMAIN call /\ EditOK(call)
  PROVE  CallsOK([calls EXCEPT ![r] = call])
BY DEF CallsOK

LEMMA MayHold ==
  ASSUME NEW p \in Pubkeys, NEW a \in Values[p] \cup {None}
  PROVE  a \in Accounts \cup {None}
BY DEF Accounts
-----------------------------------------------------------------------------
(* The steps of RPC threads *)

LEMMA FetchStep ==
  ASSUME AccountsInv, NEW r \in Readers, NEW keys \in Seq(Pubkeys), NEW edits \in BOOLEAN,
         edits => Len(keys) = 1, Fetch(r, keys, edits)
  PROVE  AccountsInv'
<1> DEFINE answers == [i \in DOMAIN keys |->
                         IF Missing(keys[i]) THEN RemoteAnswer(keys[i]) ELSE NoAnswer]
           call == [keys |-> keys, edits |-> edits, answers |-> answers]
<1>1. BankStep
  BY BankAlone DEF Fetch
<1>2. ASSUME NEW p \in Pubkeys PROVE RemoteAnswer(p) \in Answers
  <2> DEFINE a   == remote[p]
             key == IF a = None THEN NoKey ELSE Coupled(p, a)
  <2>1. remote \in [Pubkeys -> Accounts \cup {None}]
    BY InvSplit DEF RestOK
  <2>2. a \in Accounts \cup {None}
    BY <2>1
  <2>3. key \in Pubkeys \cup {NoKey}
    <3> HIDE DEF a
    <3> QED
      BY <2>2, CoupledTyped
  <2>4. RemoteAnswer(p) = [account |-> a, with |-> IF key = NoKey THEN None ELSE remote[key]]
    BY DEF RemoteAnswer
  <2> HIDE DEF key, a
  <2> QED
    BY <2>1, <2>2, <2>3, <2>4 DEF Answers
<1>3. NoAnswer \in Answers
  BY DEF NoAnswer, Answers
<1>4. answers \in [DOMAIN keys -> Answers]
  <2>1. \A i \in DOMAIN keys : keys[i] \in Pubkeys
    OBVIOUS
  <2> QED
    BY <1>2, <1>3, <2>1
<1> HIDE DEF answers
<1>5. "answers" \in DOMAIN call /\ FetchOK(call)
  BY <1>4 DEF FetchOK
<1>6. readers' = [readers EXCEPT ![r] = call]
  BY DEF Fetch, answers
<1> HIDE DEF call
<1>7. CallsOK(readers')
  BY <1>5, <1>6, InvSplit, CallsStep DEF RestOK
<1>8. RestOK'
  BY <1>7, InvSplit DEF RestOK, CallsOK, FetchOK, EditOK, Answers, Accounts, Fetch
<1> QED
  BY <1>1, <1>8, InvStep

LEMMA EditOfOK ==
  ASSUME NEW p \in Pubkeys, NEW b \in Banks, NEW c \in Banks
  PROVE  "answers" \notin DOMAIN EditOf(p, b, c) /\ EditOK(EditOf(p, b, c))
<1> DEFINE key  == IF Visible(c, p) = None \/ b.live[p] # None THEN NoKey
                   ELSE Coupled(p, Visible(c, p))
           with == IF key = NoKey THEN None
                   ELSE IF FromDatabase(b, p) THEN b.db[key] ELSE Visible(c, key)
<1>1. key \in Pubkeys \cup {NoKey}
  BY BankTyped, CoupledTyped
<1>2. EditOf(p, b, c) = [keys |-> <<p>>, key |-> key, with |-> with]
  BY DEF EditOf
<1> HIDE DEF key
<1>3. with \in Accounts \cup {None} /\ (with # None => key \in Pubkeys)
  BY <1>1, BankTyped
<1> HIDE DEF with
<1> QED
  BY <1>2, <1>3 DEF EditOK

LEMMA LandStep ==
  ASSUME AccountsInv, NEW r \in Readers, Land(r)
  PROVE  /\ FetchOK(readers[r])
         /\ bank' \in Banks /\ Landing(bank, bank', readers[r])
         /\ AccountsInv'
<1> DEFINE call == readers[r]
<1>1. FetchOK(call) /\ has_db \in BOOLEAN /\ bank \in Banks
  BY DEF Land, AccountsInv, TypeOK, InFetch
<1>2. bank' \in Banks /\ Landing(bank, bank', call)
  <2> HIDE DEF call
  <2>1. bank' = Landed(bank, call)
    BY DEF Land, call
  <2> QED
    BY <1>1, <2>1, Lands
<1>3. BankStep
  BY <1>2 DEF BankStep, Landing, Land, AccountsInv
<1>4. CallsOK(readers')
  <2>1. CASE call.edits
    <3> DEFINE edit == EditOf(call.keys[1], bank, bank')
    <3>1. readers' = [readers EXCEPT ![r] = edit]
      BY <2>1 DEF Land
    <3>2. call.keys[1] \in Pubkeys
      BY <1>1, <2>1 DEF FetchOK
    <3>3. "answers" \notin DOMAIN edit /\ EditOK(edit)
      BY <1>1, <1>2, <3>2, EditOfOK
    <3> HIDE DEF edit
    <3> QED
      BY <3>1, <3>3, InvSplit, CallsStep DEF RestOK
  <2>2. CASE ~call.edits
    <3>1. readers' = [readers EXCEPT ![r] = NoCall]
      BY <2>2 DEF Land
    <3> QED
      BY <3>1, InvSplit, CallsStep DEF RestOK
  <2> QED
    BY <2>1, <2>2
<1>5. RestOK'
  BY <1>4, InvSplit DEF RestOK, CallsOK, FetchOK, EditOK, Answers, Accounts, Land
<1> QED
  BY <1>1, <1>2, <1>3, <1>5, InvStep

LEMMA FetchFailsStep ==
  ASSUME AccountsInv, NEW r \in Readers, FetchFails(r)
  PROVE  AccountsInv'
<1>1. BankStep
  BY BankAlone DEF FetchFails
<1>2. CallsOK(readers')
  BY InvSplit, CallsStep DEF RestOK, FetchFails
<1>3. RestOK'
  BY <1>2, InvSplit DEF RestOK, CallsOK, FetchOK, EditOK, Answers, Accounts, FetchFails
<1> QED
  BY <1>1, <1>3, InvStep

(* A program that is written gets its programdata first. *)
LEMMA WithProgramData ==
  ASSUME has_db \in BOOLEAN, NEW b \in Banks, NEW p \in Pubkeys, NEW a,
         NEW c, c = IF a # None /\ a.program THEN Fill(b, ProgramData[p], Synthetic) ELSE b
  PROVE  c \in Banks /\ \A q \in Pubkeys : Kept(b, q) => Kept(c, q)
<1>1. ProgramData[p] \in Pubkeys /\ Synthetic \in Accounts
  BY AccountsAssumption DEF Accounts
<1>2. CASE a # None /\ a.program
  BY <1>1, <1>2, Fills
<1>3. CASE ~(a # None /\ a.program)
  BY <1>3
<1> QED
  BY <1>2, <1>3

LEMMA ApplyEditStep ==
  ASSUME AccountsInv, NEW r \in Readers, NEW a, ApplyEdit(r, a)
  PROVE  AccountsInv'
<1> DEFINE call == readers[r]
           p    == call.keys[1]
           b    == IF call.with # None THEN SetAccount(bank, call.key, call.with)
                   ELSE IF a # None /\ a.program THEN Fill(bank, ProgramData[p], Synthetic) ELSE bank
<1>1. EditOK(call) /\ has_db \in BOOLEAN /\ bank \in Banks
  BY DEF ApplyEdit, AccountsInv, TypeOK
<1>2. p \in Pubkeys /\ a \in Accounts \cup {None}
  BY <1>1, MayHold DEF EditOK, ApplyEdit
<1>3. b \in Banks /\ \A q \in Pubkeys : Kept(bank, q) => Kept(b, q)
  <2>1. CASE call.with # None
    <3>1. call.key \in Pubkeys /\ call.with \in Accounts \cup {None}
      BY <1>1, <2>1 DEF EditOK
    <3> QED
      BY <1>1, <2>1, <3>1, Sets
  <2>2. CASE ~(call.with # None)
    <3>1. b = IF a # None /\ a.program THEN Fill(bank, ProgramData[p], Synthetic) ELSE bank
      BY <2>2
    <3> HIDE DEF p, b
    <3> QED
      BY <1>1, <1>2, <3>1, WithProgramData
  <2> QED
    BY <2>1, <2>2
<1>4. bank' = SetAccount(b, p, a)
  BY DEF ApplyEdit
<1> HIDE DEF b, p
<1>5. bank' \in Banks /\ \A q \in Pubkeys : Kept(b, q) => Kept(bank', q)
  BY <1>1, <1>2, <1>3, <1>4, Sets
<1>6. BankStep
  BY <1>3, <1>5 DEF BankStep, ApplyEdit, AccountsInv
<1>7. CallsOK(readers')
  BY InvSplit, CallsStep DEF RestOK, ApplyEdit
<1>8. RestOK'
  BY <1>7, InvSplit DEF RestOK, CallsOK, FetchOK, EditOK, Answers, Accounts, ApplyEdit
<1> QED
  BY <1>6, <1>8, InvStep

LEMMA WriteAccountStep ==
  ASSUME AccountsInv, NEW p \in Pubkeys, NEW a \in Values[p] \cup {None}, WriteAccount(p, a)
  PROVE  AccountsInv'
<1> DEFINE b == IF a # None /\ a.program THEN Fill(bank, ProgramData[p], Synthetic) ELSE bank
<1>1. has_db \in BOOLEAN /\ bank \in Banks /\ a \in Accounts \cup {None}
  BY MayHold DEF AccountsInv, TypeOK
<1>2. b \in Banks /\ \A q \in Pubkeys : Kept(bank, q) => Kept(b, q)
  BY <1>1, WithProgramData
<1>3. bank' = SetAccount(b, p, a)
  BY DEF WriteAccount
<1> HIDE DEF b
<1>4. bank' \in Banks /\ \A q \in Pubkeys : Kept(b, q) => Kept(bank', q)
  BY <1>1, <1>2, <1>3, Sets
<1>5. BankStep
  BY <1>2, <1>4 DEF BankStep, WriteAccount, AccountsInv
<1>6. RestOK'
  BY InvSplit DEF RestOK, CallsOK, FetchOK, EditOK, Answers, Accounts, WriteAccount
<1> QED
  BY <1>5, <1>6, InvStep
-----------------------------------------------------------------------------
(* Marks, resets and what is outside *)

LEMMA MarkStep ==
  ASSUME AccountsInv, NEW p \in Marked, NEW owned \in BOOLEAN,
         MarkOffline(p, owned) \/ BringOnline(p, owned)
  PROVE  AccountsInv'
<1>1. bank \in Banks /\ bank.offline \in [Pubkeys -> Offline] /\ p \in Pubkeys
  BY AccountsAssumption DEF AccountsInv, TypeOK, Banks
<1>2. PICK offline \in [Pubkeys -> Offline] : bank' = [bank EXCEPT !.offline = offline]
  <2>1. CASE MarkOffline(p, owned)
    <3> DEFINE offline == [bank.offline EXCEPT ![p] = IF owned THEN "owned" ELSE "alone"]
    <3>1. offline \in [Pubkeys -> Offline]
      BY <1>1 DEF Offline
    <3>2. bank' = [bank EXCEPT !.offline = offline]
      BY <2>1 DEF MarkOffline
    <3> QED
      BY <3>1, <3>2
  <2>2. CASE BringOnline(p, owned)
    <3> DEFINE offline == [q \in Pubkeys |->
                 IF q = p \/ (owned /\ <<p, q>> \in bank.by_owner) THEN "online"
                 ELSE bank.offline[q]]
    <3>1. offline \in [Pubkeys -> Offline]
      BY <1>1 DEF Offline
    <3>2. bank' = [bank EXCEPT !.offline = offline]
      BY <2>2 DEF BringOnline
    <3> QED
      BY <3>1, <3>2
  <2> QED
    BY <2>1, <2>2
<1>3. bank' \in Banks /\ \A q \in Pubkeys : Kept(bank, q) => Kept(bank', q)
  BY <1>1, <1>2, MarksOnly
<1>4. BankStep
  BY <1>3 DEF BankStep, MarkOffline, BringOnline, AccountsInv
<1>5. RestOK'
  BY <1>1, InvSplit DEF RestOK, CallsOK, FetchOK, EditOK, Answers, Accounts, MarkOffline, BringOnline
<1> QED
  BY <1>4, <1>5, InvStep

LEMMA OutsideStep ==
  ASSUME AccountsInv, NEW p \in Pubkeys,
         \/ \E owned \in BOOLEAN : StreamAccount(p, owned)
         \/ \E a \in Values[p] \cup {None} : RemoteWrite(p, a)
  PROVE  AccountsInv'
<1>1. BankStep
  BY BankAlone DEF StreamAccount, RemoteWrite
<1>2. RestOK'
  BY MayHold, InvSplit
     DEF RestOK, CallsOK, FetchOK, EditOK, Answers, Accounts, StreamAccount, RemoteWrite
<1> QED
  BY <1>1, <1>2, InvStep

LEMMA FinishResetStep ==
  ASSUME AccountsInv, FinishReset
  PROVE  AccountsInv'
<1> DEFINE p == resetting[1]
           owned == resetting[2]
<1>1. p \in Pubkeys /\ owned \in BOOLEAN
  BY InvSplit DEF FinishReset, RestOK
<1>2. has_db \in BOOLEAN /\ bank \in Banks
  BY InvSplit
<1> HIDE DEF p, owned
<1>3. bank' = ResetAccount(bank, p, owned) /\ blurred' = blurred \cup LeftBehind(bank, p, owned)
  BY DEF FinishReset, p, owned
<1>4. /\ bank' \in Banks
      /\ \A q \in Pubkeys \ LeftBehind(bank, p, owned) : Kept(bank, q) => Kept(bank', q)
  BY <1>1, <1>2, <1>3, Resets
<1>5. BankStep
  BY <1>3, <1>4 DEF BankStep, FinishReset, AccountsInv
<1>6. LeftBehind(bank, p, owned) \subseteq Pubkeys
  BY <1>1, AccountsAssumption DEF LeftBehind, PurgedWith, OwnedBy
<1>7. RestOK'
  BY <1>3, <1>6, InvSplit DEF RestOK, CallsOK, FetchOK, EditOK, Answers, Accounts, FinishReset
<1> QED
  BY <1>5, <1>7, InvStep

LEMMA EmptyBank ==
  ASSUME has_db \in BOOLEAN
  PROVE  InitialBank \in Banks /\ \A q \in Pubkeys : Kept(InitialBank, q)
<1>1. InitialBank \in Banks
  BY DEF InitialBank, Banks, Offline
<1>2. ASSUME NEW q \in Pubkeys PROVE Kept(InitialBank, q)
  BY DEF InitialBank, Kept, Registered, OwnerEntries, TokenEntries, Indexed, Visible
<1> QED
  BY <1>1, <1>2

LEMMA ResetNetworkStep ==
  ASSUME AccountsInv, ResetNetwork
  PROVE  AccountsInv'
<1>1. BankStep
  BY InvSplit, EmptyBank DEF BankStep, ResetNetwork
<1>2. RestOK'
  BY InvSplit DEF RestOK, CallsOK, FetchOK, EditOK, Answers, Accounts, ResetNetwork
<1> QED
  BY <1>1, <1>2, InvStep

LEMMA RestartStep ==
  ASSUME AccountsInv, Restart
  PROVE  AccountsInv'
<1>1. bank' \in Banks /\ \A q \in Pubkeys : Kept(bank, q) => Kept(bank', q)
  BY InvSplit, Collects DEF Restart
<1>2. BankStep
  BY <1>1 DEF BankStep, Restart, AccountsInv
<1>3. CallsOK(readers')
  BY DEF CallsOK, Restart
<1>4. RestOK'
  BY <1>3, InvSplit DEF RestOK, CallsOK, FetchOK, EditOK, Answers, Accounts, Restart, NoTx
<1> QED
  BY <1>2, <1>4, InvStep

-----------------------------------------------------------------------------
(* The steps of the runloop *)

LEMMA CaptureStep ==
  ASSUME AccountsInv, NEW keys \in TxKeys, CaptureAccounts(keys)
  PROVE  AccountsInv'
<1>1. BankStep
  BY BankAlone DEF CaptureAccounts
<1>2. keys \subseteq Pubkeys /\ tx' = [p \in keys |-> Visible(bank, p)]
  BY AccountsAssumption DEF CaptureAccounts
<1>3. \A p \in keys : Visible(bank, p) \in Accounts \cup {None}
  BY <1>2, InvSplit, BankTyped
<1>4. DOMAIN tx' = keys /\ tx' \in [keys -> Accounts \cup {None}]
  BY <1>2, <1>3
<1>5. RestOK'
  BY <1>2, <1>4, InvSplit DEF RestOK, CallsOK, FetchOK, EditOK, Answers, Accounts, CaptureAccounts
<1> QED
  BY <1>1, <1>5, InvStep

(* The registries follow a transaction: w is the bank as it left LiteSVM,  *)
(* and keys are the accounts it changed.                                   *)
LEMMA RegistersTransaction ==
  ASSUME AccountsInv, NEW w \in Banks, w.db = bank.db, w.unsettled = bank.unsettled,
         \A q : SameIndexes(bank, w, q),
         NEW keys \in SUBSET DOMAIN tx, NEW after, after \in [DOMAIN tx -> Accounts \cup {None}],
         NEW c, c = RegisterAll(w, keys, after)
  PROVE  /\ c \in Banks
         /\ \A q \in keys :
              /\ Kept(bank, q) /\ tx[q] = Visible(bank, q)
              /\ w.live[q] = after[q] \/ (w.live[q] = None /\ w.db[q] = after[q])
              => Kept(c, q)
         /\ \A q \in Pubkeys \ keys :
              Kept(bank, q) /\ w.live[q] \in {bank.live[q], Visible(bank, q)} => Kept(c, q)
<1> DEFINE before == [p \in keys |-> tx[p]]
           now    == [p \in keys |-> after[p]]
<1>1. has_db \in BOOLEAN /\ bank \in Banks /\ keys \in SUBSET Pubkeys
  BY InvSplit DEF RestOK
<1>2. /\ before \in [keys -> Accounts \cup {None}] /\ \A q \in keys : before[q] = tx[q]
      /\ now \in [keys -> Accounts \cup {None}] /\ \A q \in keys : now[q] = after[q]
  BY InvSplit DEF RestOK
<1>3. c = UpdateRegistries(w, before, now)
  BY DEF RegisterAll
<1> HIDE DEF before, now
<1>4. /\ c \in Banks
      /\ c.live = w.live /\ c.unsettled = bank.unsettled
      /\ c.db = IF has_db THEN Over(w.db, now) ELSE w.db
      /\ \A q \in Pubkeys \ keys : SameIndexes(w, c, q)
      /\ \A q \in keys : Registered(w, q, before[q]) => Registered(c, q, now[q])
  BY <1>1, <1>2, <1>3, Registers
<1>5. \A q \in Pubkeys : c.db[q] = IF has_db /\ q \in keys THEN after[q] ELSE bank.db[q]
  <2>1. bank.db \in [Pubkeys -> Accounts \cup {None}]
    BY <1>1 DEF Banks
  <2> QED
    BY <1>1, <1>2, <1>4, <2>1 DEF Over
<1>6. ASSUME NEW q \in keys, Kept(bank, q), tx[q] = Visible(bank, q),
             w.live[q] = after[q] \/ (w.live[q] = None /\ w.db[q] = after[q]),
             q \notin c.unsettled
      PROVE  Kept(c, q)
  <2>1. q \in Pubkeys /\ (~has_db => c.db[q] = None)
    BY <1>1, <1>4, BankTyped
  <2>2. Visible(c, q) = after[q] /\ (c.live[q] = None \/ c.live[q] = after[q])
    BY <1>1, <1>4, <1>5, <1>6, <2>1 DEF Visible
  <2>3. Registered(w, q, before[q])
    BY <1>2, <1>4, <1>6, SameRegistered DEF Kept
  <2>4. Registered(c, q, Visible(c, q))
    BY <1>2, <1>4, <2>2, <2>3
  <2>5. has_db /\ c.live[q] # None => c.db[q] = c.live[q]
    BY <1>5, <2>1, <2>2
  <2> QED
    BY <2>4, <2>5 DEF Kept
<1>7. ASSUME NEW q \in Pubkeys \ keys, Kept(bank, q),
             w.live[q] \in {bank.live[q], Visible(bank, q)}, q \notin c.unsettled
      PROVE  Kept(c, q)
  <2>1. c.live[q] = w.live[q] /\ c.db[q] = bank.db[q]
    BY <1>4, <1>5
  <2>2. Visible(c, q) = Visible(bank, q)
    BY <1>7, <2>1 DEF Visible
  <2>3. has_db /\ c.live[q] # None => c.db[q] = c.live[q]
    BY <1>4, <1>7, <2>1 DEF Kept, Visible
  <2>4. Registered(c, q, Visible(bank, q))
    <3>1. Registered(w, q, Visible(bank, q))
      BY <1>4, <1>7, SameRegistered DEF Kept
    <3> QED
      BY <1>4, <3>1, SameRegistered
  <2> QED
    BY <2>2, <2>3, <2>4 DEF Kept
<1>8. \A q \in Pubkeys : q \in c.unsettled => Kept(c, q)
  BY DEF Kept
<1> QED
  BY <1>1, <1>4, <1>6, <1>7, <1>8
LEMMA ExecuteStep ==
  ASSUME AccountsInv, NEW after \in [DOMAIN tx -> Accounts \cup {None}], ExecuteTransaction(after)
  PROVE  AccountsInv'
<1> DEFINE w    == [bank EXCEPT !.live = Over(bank.live, after)]
           keys == Changed(after)
<1>1. bank \in Banks /\ DOMAIN tx \subseteq Pubkeys /\ keys \in SUBSET DOMAIN tx
  BY InvSplit DEF RestOK, Changed
<1>2. Over(bank.live, after) \in [Pubkeys -> Accounts \cup {None}]
  BY <1>1 DEF Banks, Over
<1>3. \A q \in Pubkeys : Over(bank.live, after)[q] =
        IF q \in DOMAIN tx THEN after[q] ELSE bank.live[q]
  BY <1>1 DEF Banks, Over
<1>4. /\ w \in Banks /\ w.live = Over(bank.live, after) /\ w.db = bank.db
      /\ w.unsettled = bank.unsettled
      /\ \A q : SameIndexes(bank, w, q)
  BY <1>1, <1>2 DEF Banks, SameIndexes, OwnerEntries, TokenEntries
<1>5. bank' = RegisterAll(w, keys, after) /\ blurred' = blurred \cup MissedSince(DOMAIN tx)
  BY DEF ExecuteTransaction
<1> HIDE DEF w
<1>6. /\ bank' \in Banks
      /\ \A q \in keys :
           /\ Kept(bank, q) /\ tx[q] = Visible(bank, q)
           /\ w.live[q] = after[q] \/ (w.live[q] = None /\ w.db[q] = after[q])
           => Kept(bank', q)
      /\ \A q \in Pubkeys \ keys :
           Kept(bank, q) /\ w.live[q] \in {bank.live[q], Visible(bank, q)} => Kept(bank', q)
  <2> HIDE DEF keys
  <2> QED
    BY <1>1, <1>4, <1>5, RegistersTransaction
<1>7. ASSUME NEW q \in Pubkeys \ blurred' PROVE Kept(bank', q)
  <2>1. Kept(bank, q) /\ (q \in DOMAIN tx => tx[q] = Visible(bank, q))
    BY <1>5, <1>7 DEF AccountsInv, MissedSince
  <2>2. w.live[q] = IF q \in DOMAIN tx THEN after[q] ELSE bank.live[q]
    BY <1>3, <1>4
  <2>3. CASE q \in keys
    BY <1>1, <1>6, <2>1, <2>2, <2>3
  <2>4. CASE q \notin keys
    <3>1. q \in DOMAIN tx => after[q] = tx[q]
      BY <2>4 DEF Changed
    <3> QED
      BY <1>6, <2>1, <2>2, <2>4, <3>1
  <2> QED
    BY <2>3, <2>4
<1>8. BankStep
  BY <1>6, <1>7 DEF BankStep, ExecuteTransaction
<1>9. MissedSince(DOMAIN tx) \subseteq Pubkeys
  BY <1>1 DEF MissedSince
<1>10. RestOK'
  BY <1>5, <1>9, InvSplit
     DEF RestOK, CallsOK, FetchOK, EditOK, Answers, Accounts, ExecuteTransaction, NoTx
<1> QED
  BY <1>8, <1>10, InvStep

LEMMA FailStep ==
  ASSUME AccountsInv, NEW payer \in DOMAIN tx, NEW a \in Accounts \cup {None},
         FailTransaction(payer, a)
  PROVE  AccountsInv'
<1> DEFINE w     == [bank EXCEPT !.live[payer] = a]
           after == [p \in DOMAIN tx |-> Visible(w, p)]
           keys  == {p \in Changed(after) : after[p] # None}
<1>1. bank \in Banks /\ DOMAIN tx \subseteq Pubkeys /\ payer \in Pubkeys
  BY InvSplit DEF RestOK
<1>2. /\ w \in Banks /\ w.live = [bank.live EXCEPT ![payer] = a] /\ w.db = bank.db
      /\ w.unsettled = bank.unsettled
      /\ \A q : SameIndexes(bank, w, q)
  BY <1>1 DEF Banks, SameIndexes, OwnerEntries, TokenEntries
<1>3. \A q \in Pubkeys : w.live[q] = IF q = payer THEN a ELSE bank.live[q]
  BY <1>1, <1>2, BankTyped
<1>4. bank' = RegisterAll(w, keys, after)
  BY DEF FailTransaction
<1>5. blurred' = blurred \cup MissedSince(DOMAIN tx) \cup (IF a = None THEN {payer} ELSE {})
  BY DEF FailTransaction
<1> HIDE DEF w
<1>6. /\ after \in [DOMAIN tx -> Accounts \cup {None}]
      /\ \A q \in DOMAIN tx : after[q] = Visible(w, q)
  BY <1>1, <1>2, BankTyped
<1>7. /\ keys \in SUBSET DOMAIN tx
      /\ \A q \in DOMAIN tx : q \in keys <=> tx[q] # after[q] /\ after[q] # None
  BY DEF Changed
<1> HIDE DEF after, keys
<1>8. /\ bank' \in Banks
      /\ \A q \in keys :
           /\ Kept(bank, q) /\ tx[q] = Visible(bank, q)
           /\ w.live[q] = after[q] \/ (w.live[q] = None /\ w.db[q] = after[q])
           => Kept(bank', q)
      /\ \A q \in Pubkeys \ keys :
           Kept(bank, q) /\ w.live[q] \in {bank.live[q], Visible(bank, q)} => Kept(bank', q)
  <2>1. keys \in SUBSET DOMAIN tx /\ after \in [DOMAIN tx -> Accounts \cup {None}]
    BY <1>6, <1>7
  <2>2. /\ w \in Banks /\ w.db = bank.db /\ w.unsettled = bank.unsettled
        /\ \A q : SameIndexes(bank, w, q)
    BY <1>2
  <2> QED
    BY <1>4, <2>1, <2>2, RegistersTransaction
<1>9. ASSUME NEW q \in Pubkeys \ blurred' PROVE Kept(bank', q)
  <2>1. /\ Kept(bank, q) /\ (q \in DOMAIN tx => tx[q] = Visible(bank, q))
        /\ q = payer => a # None
    BY <1>5, <1>9 DEF AccountsInv, MissedSince
  <2>2. CASE q \in keys
    <3>1. after[q] = Visible(w, q)
      BY <1>6, <1>7, <2>2
    <3> QED
      BY <1>7, <1>8, <2>1, <2>2, <3>1 DEF Visible
  <2>3. CASE q \notin keys /\ q # payer
    BY <1>3, <1>8, <2>1, <2>3
  <2>4. CASE q \notin keys /\ q = payer
    <3>1. after[q] = a
      BY <1>3, <1>6, <2>1, <2>4 DEF Visible
    <3>2. w.live[q] = Visible(bank, q)
      BY <1>3, <1>7, <2>1, <2>4, <3>1
    <3> QED
      BY <1>8, <2>1, <2>4, <3>2
  <2> QED
    BY <2>2, <2>3, <2>4
<1>10. BankStep
  BY <1>8, <1>9 DEF BankStep, FailTransaction
<1>11. MissedSince(DOMAIN tx) \subseteq Pubkeys
  BY <1>1 DEF MissedSince
<1>12. RestOK'
  BY <1>1, <1>5, <1>11, InvSplit
     DEF RestOK, CallsOK, FetchOK, EditOK, Answers, Accounts, FailTransaction, NoTx
<1> QED
  BY <1>10, <1>12, InvStep

LEMMA CloseBlockStep ==
  ASSUME AccountsInv, NEW collects \in BOOLEAN, CloseBlock(collects)
  PROVE  AccountsInv'
<1> DEFINE b == IF collects THEN Collected(bank) ELSE bank
<1>1. has_db \in BOOLEAN /\ bank \in Banks
  BY InvSplit
<1>2. b \in Banks /\ \A q \in Pubkeys : Kept(bank, q) => Kept(b, q)
  BY <1>1, Collects
<1>3. PICK order \in SetToSeqs(Streamed) : bank' = ResetTo(b, order, Len(order))
  BY DEF CloseBlock
<1>4. blurred' = blurred \cup StreamedLeftBehind(b)
  BY DEF CloseBlock
<1> HIDE DEF b
<1>5. bank' \in Banks /\ Resetting(b, bank')
  BY <1>1, <1>2, <1>3, ResetsAll
<1>6. BankStep
  BY <1>2, <1>4, <1>5 DEF BankStep, CloseBlock, Resetting, AccountsInv
<1>7. StreamedLeftBehind(b) \subseteq Pubkeys
  <2>1. \A p \in Pubkeys, owned \in BOOLEAN : LeftBehind(b, p, owned) \subseteq Pubkeys
    BY AccountsAssumption DEF LeftBehind, PurgedWith, OwnedBy
  <2> QED
    BY <2>1 DEF StreamedLeftBehind, Streamed
<1>8. RestOK'
  BY <1>4, <1>7, InvSplit DEF RestOK, CallsOK, FetchOK, EditOK, Answers, Accounts, CloseBlock
<1> QED
  BY <1>6, <1>8, InvStep

-----------------------------------------------------------------------------
(* Theorems *)

LEMMA InvInit == Init => AccountsInv
<1> SUFFICES ASSUME Init PROVE AccountsInv
  OBVIOUS
<1>1. bank \in Banks /\ \A q \in Pubkeys : Kept(bank, q)
  BY EmptyBank DEF Init
<1>2. Remote \in [Pubkeys -> Accounts \cup {None}]
  BY AccountsAssumption DEF Accounts
<1>3. RestOK
  BY <1>2 DEF Init, RestOK, CallsOK, NoTx
<1> QED
  BY <1>1, <1>3, InvSplit DEF Init

LEMMA InvNext ==
  ASSUME AccountsInv, [Next]_vars
  PROVE  AccountsInv'
<1>1. CASE UNCHANGED vars
  BY <1>1 DEF vars, counters, AccountsInv, TypeOK, Banks, Answers, FetchOK, EditOK, InFetch,
     Accounts, Tokens, Keys, Kept, Registered, OwnerEntries, TokenEntries, Indexed, Visible, Entries
<1>2. ASSUME NEW r \in Readers, NEW keys \in Requests, Fetch(r, keys, FALSE) PROVE AccountsInv'
  BY <1>2, FetchStep, AccountsAssumption
<1>3. ASSUME NEW r \in Readers, NEW p \in Pubkeys, Fetch(r, <<p>>, TRUE) PROVE AccountsInv'
  <2>1. <<p>> \in Seq(Pubkeys) /\ Len(<<p>>) = 1
    OBVIOUS
  <2> QED
    BY <1>3, <2>1, FetchStep
<1>4. ASSUME NEW r \in Readers, Land(r) \/ FetchFails(r) PROVE AccountsInv'
  BY <1>4, LandStep, FetchFailsStep
<1>5. ASSUME NEW r \in Readers, NEW a, ApplyEdit(r, a) PROVE AccountsInv'
  BY <1>5, ApplyEditStep
<1>6. ASSUME NEW p \in Pubkeys, NEW a \in Values[p] \cup {None}, WriteAccount(p, a) \/ RemoteWrite(p, a)
      PROVE  AccountsInv'
  BY <1>6, WriteAccountStep, OutsideStep
<1>7. ASSUME NEW p \in Marked, NEW owned \in BOOLEAN,
             MarkOffline(p, owned) \/ StreamAccount(p, owned) \/ BringOnline(p, owned)
      PROVE  AccountsInv'
  BY <1>7, MarkStep, OutsideStep, AccountsAssumption
<1>8. CASE FinishReset \/ ResetNetwork \/ Restart
  BY <1>8, FinishResetStep, ResetNetworkStep, RestartStep
<1>9. ASSUME NEW keys \in TxKeys, CaptureAccounts(keys) PROVE AccountsInv'
  BY <1>9, CaptureStep
<1>10. ASSUME NEW after \in [DOMAIN tx -> (UNION {Values[p] : p \in DOMAIN tx}) \cup {None}],
              ExecuteTransaction(after)
       PROVE  AccountsInv'
  <2>1. after \in [DOMAIN tx -> Accounts \cup {None}]
    BY InvSplit DEF RestOK, Accounts
  <2> QED
    BY <1>10, <2>1, ExecuteStep
<1>11. ASSUME NEW payer \in DOMAIN tx, NEW a \in Values[payer] \cup {None}, FailTransaction(payer, a)
       PROVE  AccountsInv'
  <2>1. a \in Accounts \cup {None}
    BY MayHold, InvSplit DEF RestOK
  <2> QED
    BY <1>11, <2>1, FailStep
<1>12. ASSUME NEW collects \in BOOLEAN, CloseBlock(collects) PROVE AccountsInv'
  BY <1>12, CloseBlockStep
<1> QED
  BY <1>1, <1>2, <1>3, <1>4, <1>5, <1>6, <1>7, <1>8, <1>9, <1>10, <1>11, <1>12 DEF Next

(* In every state the indexes, the database and the accounts are in step,  *)
(* but for the accounts of which a caller did not hold the last version.   *)
THEOREM AccountsInvariant == Spec => []AccountsInv
<1> QED
  BY InvInit, InvNext, PTL DEF Spec

(* An account is listed under its owner, a token account under its holder, *)
(* mint and delegate, and nowhere else, whatever the accounts, the remote  *)
(* and the number of threads and commands.                                 *)
THEOREM IndexesMatch == Spec => []IndexesFollowAccounts
<1>1. AccountsInv => IndexesFollowAccounts
  BY DEF AccountsInv, IndexesFollowAccounts, RegistriesFollow, Kept, Registered, OwnerEntries,
     TokenEntries, Indexed
<1> QED
  BY <1>1, AccountsInvariant, PTL

(* What LiteSVM holds, the database holds too: neither garbage collection  *)
(* nor a restart loses an account or brings an older one back.             *)
THEOREM DatabaseHolds == Spec => []DatabaseHoldsAccounts
<1>1. AccountsInv => DatabaseHoldsAccounts
  BY DEF AccountsInv, DatabaseHoldsAccounts, Kept
<1> QED
  BY <1>1, AccountsInvariant, PTL

(* An account fetched without the lock never replaces one that is there    *)
(* when it lands, nor does one that was fetched along with it.             *)
THEOREM LandingKeeps == Spec => FetchKeepsLocal
<1>1. ASSUME AccountsInv, NEW r \in Readers, Land(r), NEW p \in Pubkeys, Visible(bank, p) # None
      PROVE  Visible(bank', p) = Visible(bank, p)
  <2>1. Filled(bank, bank', p)
    BY <1>1, LandStep DEF Landing
  <2> QED
    BY <1>1, <2>1, FilledKeeps
<1>2. AccountsInv /\ [Next]_vars =>
        [\A r \in Readers : Land(r) =>
           \A p \in Pubkeys : Visible(bank, p) # None => Visible(bank', p) = Visible(bank, p)]_vars
  BY <1>1
<1> QED
  BY <1>2, AccountsInvariant, PTL DEF Spec, FetchKeepsLocal

(* What lands is an account that is still online, of an owner whose        *)
(* accounts are not kept away, or it is coupled with one that lands.       *)
THEOREM MarkedStays == Spec => MarkedStaysAway
<1>1. ASSUME AccountsInv, NEW r \in Readers, Land(r), NEW p \in Pubkeys, Brought(p)
      PROVE  MayBeFetched(p) \/ BroughtAlong(p, readers[r])
  <2>1. MayComeWith(bank, bank', p, readers[r])
    BY <1>1, LandStep DEF Landing, Brought
  <2> QED
    BY <2>1 DEF MayComeWith, MayBeFetched, BroughtAlong
<1>2. AccountsInv /\ [Next]_vars =>
        [\A r \in Readers : Land(r) =>
           \A p \in Pubkeys :
             Brought(p) => MayBeFetched(p) \/ BroughtAlong(p, readers[r])]_vars
  BY <1>1
<1> QED
  BY <1>2, AccountsInvariant, PTL DEF Spec, MarkedStaysAway
=============================================================================
