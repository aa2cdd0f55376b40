------------------------------ MODULE CapUTXO ------------------------------
(***************************************************************************)
(* The capability module, internal/modules/caputxo/module.go.              *)
(*                                                                         *)
(* A capability is a record stored under cap/u/<id>.  Its holder may use   *)
(* it and, if it is delegatable, derive weaker capabilities from it; the   *)
(* index cap/d/<parent>/<child> records the derivations.  The issuer may   *)
(* revoke it, and the end of every block expires what is past its time.    *)
(* Both cascade along cap/d.                                               *)
(*                                                                         *)
(* A handler that returns an error before it writes is a step that changes *)
(* nothing.  The one error path that writes, the spend of an expired       *)
(* capability, is an action of its own: FinalizeBlock keeps its write.     *)
(***************************************************************************)
EXTENDS Integers

CONSTANTS
  RootIds,     \* ids utxoID can return (bounds how many are minted)
  ChildIds,    \* ids delegatedUTXOID can return (bounds the delegations)
  Actors,      \* public keys of senders and holders
  CapTypes,    \* values of cap_type
  ScopeNames,  \* scope strings
  Expiries,    \* values of expires_at in a payload; 0 means "never"
  UseLimits,   \* values of max_uses in a payload; 0 means "unlimited"
  Depths,      \* values of max_depth in a payload
  MaxTime,     \* bound: the last block time explored
  UseBound,    \* bound: used_count of an unlimited capability
  None         \* the empty parent_utxo of a minted capability

Ids == RootIds \cup ChildIds

ASSUME CapConstants ==
  /\ None \notin Ids
  /\ Expiries \subseteq Int
  /\ UseLimits \subseteq Nat
  /\ Depths \subseteq Nat
  /\ MaxTime \in Nat
  /\ UseBound \in Nat

VARIABLES
  utxo,      \* cap/u/: the stored capabilities, a partial function on Ids
  derive,    \* cap/d/: the set of <<parent, child>> derivations
  byHolder,  \* cap/h/: the set of <<holder, id>> entries
  byType,    \* cap/t/: the set of <<cap_type, id>> entries
  now        \* the time of the block being executed

vars == <<utxo, derive, byHolder, byType, now>>

Statuses == {"UTXO_UNSPENT", "UTXO_SPENT", "UTXO_EXPIRED", "UTXO_REVOKED"}

CapabilityUTXO ==
  [issuer : Actors, holder : Actors, capType : CapTypes,
   scopes : SUBSET ScopeNames, expiresAt : Int, maxUses : Nat,
   usedCount : Nat, delegatable : BOOLEAN, maxDepth : Nat, curDepth : Nat,
   parent : Ids \cup {None}, status : Statuses]

MintPayload ==
  [holder : Actors, capType : CapTypes, scopes : SUBSET ScopeNames,
   expiresAt : Expiries, maxUses : UseLimits, delegatable : BOOLEAN,
   maxDepth : Depths]

DelegatePayload ==
  [newHolder : Actors, scopes : SUBSET ScopeNames, expiresAt : Expiries,
   maxUses : UseLimits]

Stored == DOMAIN utxo

Live == {i \in Stored : utxo[i].status = "UTXO_UNSPENT"}

\* saveUTXO: the store with record r under id.
saveUTXO(id, r) == [i \in Stored \cup {id} |-> IF i = id THEN r ELSE utxo[i]]

\* The store with every member of S given status st.
WithStatus(S, st) ==
  [i \in Stored |-> IF i \in S THEN [utxo[i] EXCEPT !.status = st] ELSE utxo[i]]

\* An id that may already be in use, as if a nonce could be admitted twice.
AnyID(S) == S

(***************************************************************************)
(* An id is a hash over the sender's nonce.  FinalizeBlock admits a nonce  *)
(* once per sender, so the id of a successful mint or delegate is new.     *)
(***************************************************************************)
FreshID(S) == S \ Stored

(***************************************************************************)
(* Reach(roots, through): the least set that contains roots and, with any  *)
(* member, the children of it in cap/d that belong to through.             *)
(***************************************************************************)
ClosedSet(T, roots, through) ==
  /\ roots \subseteq T
  /\ \A e \in derive : e[1] \in T /\ e[2] \in through => e[2] \in T

Reach(roots, through) ==
  {i \in Stored : \A T \in SUBSET Stored : ClosedSet(T, roots, through) => i \in T}

\* A cascade that does not descend at all: only the roots change.
ShallowCascade(roots) == roots

\* cascade descends only through children that are still UNSPENT.
Cascade(roots) == Reach(roots, Live)

\* Expiry off by one: a capability due exactly now is left for the next block.
DueLate(t) ==
  {i \in Live : utxo[i].expiresAt # 0 /\ utxo[i].expiresAt < t}

\* The candidates expireAtTime acts on.
Due(t) ==
  {i \in Live : utxo[i].expiresAt # 0 /\ utxo[i].expiresAt <= t}

\* A sweep that writes a status no other handler knows.
ExpireMisspelt(t) == WithStatus(Cascade(Due(t)), "UTXO_TIMEOUT")

\* expireAtTime: every due capability, and what hangs below it, expires.
ExpireAtTime(t) == WithStatus(Cascade(Due(t)), "UTXO_EXPIRED")

-----------------------------------------------------------------------------
Init ==
  /\ utxo = [i \in {} |-> None]
  /\ derive = {}
  /\ byHolder = {}
  /\ byType = {}
  /\ now = 1

Mint(sender, p) ==
  /\ p.scopes # {}
  /\ p.delegatable => p.maxDepth > 0
  /\ \E id \in FreshID(RootIds) :
       /\ utxo' = saveUTXO(id,
            [issuer |-> sender, holder |-> p.holder, capType |-> p.capType,
             scopes |-> p.scopes, expiresAt |-> p.expiresAt,
             maxUses |-> p.maxUses, usedCount |-> 0,
             delegatable |-> p.delegatable, maxDepth |-> p.maxDepth,
             curDepth |-> 0, parent |-> None, status |-> "UTXO_UNSPENT"])
       /\ byHolder' = byHolder \cup {<<p.holder, id>>}
       /\ byType' = byType \cup {<<p.capType, id>>}
  /\ UNCHANGED <<derive, now>>

\* spend tests both its conditions on a live capability of the sender.
Expired(u) == u.expiresAt > 0 /\ now >= u.expiresAt

Exhausted(u, n) == u.maxUses > 0 /\ n >= u.maxUses

SpendUnexpiredUnchecked(sender, id) ==
  LET u == utxo[id] IN
  /\ u.holder = sender
  /\ u.status = "UTXO_UNSPENT"
  /\ u.maxUses = 0 => u.usedCount < UseBound
  /\ utxo' = saveUTXO(id,
       [u EXCEPT !.usedCount = @ + 1,
                 !.status = IF Exhausted(u, u.usedCount + 1)
                              THEN "UTXO_SPENT" ELSE @])
  /\ UNCHANGED <<derive, byHolder, byType, now>>

Spend(sender, id) ==
  LET u == utxo[id] IN
  /\ u.holder = sender
  /\ u.status = "UTXO_UNSPENT"
  /\ ~Expired(u)
  /\ u.maxUses = 0 => u.usedCount < UseBound
  /\ utxo' = saveUTXO(id,
       [u EXCEPT !.usedCount = @ + 1,
                 !.status = IF Exhausted(u, u.usedCount + 1)
                              THEN "UTXO_SPENT" ELSE @])
  /\ UNCHANGED <<derive, byHolder, byType, now>>

\* The error path of spend that writes: no cascade here.
SpendExpired(sender, id) ==
  LET u == utxo[id] IN
  /\ u.holder = sender
  /\ u.status = "UTXO_UNSPENT"
  /\ Expired(u)
  /\ utxo' = saveUTXO(id, [u EXCEPT !.status = "UTXO_EXPIRED"])
  /\ UNCHANGED <<derive, byHolder, byType, now>>

\* A delegation that takes a missing limit as "no limit".
NoInherit(v, inherited) == v

\* An explicit payload value, or the parent's when the payload says 0.
OrInherit(v, inherited) == IF v = 0 THEN inherited ELSE v

\* delegate's checks of the payload against the parent.
MayDelegate(sender, u, p) ==
  /\ u.holder = sender
  /\ u.delegatable
  /\ u.maxDepth > 0 => u.curDepth + 1 <= u.maxDepth
  /\ p.scopes # {} /\ p.scopes \subseteq u.scopes
  /\ u.expiresAt > 0 => p.expiresAt <= u.expiresAt
  /\ u.maxUses > 0 => p.maxUses <= u.maxUses

\* A delegation that forgets the entry in cap/d.
DelegateUnindexed(sender, parent, p) ==
  LET u == utxo[parent] IN
  /\ MayDelegate(sender, u, p)
  /\ \E id \in FreshID(ChildIds) :
       utxo' = saveUTXO(id,
         [u EXCEPT !.holder = p.newHolder, !.scopes = p.scopes,
                   !.expiresAt = OrInherit(p.expiresAt, u.expiresAt),
                   !.maxUses = OrInherit(p.maxUses, u.maxUses), !.usedCount = 0,
                   !.curDepth = @ + 1, !.parent = parent, !.status = "UTXO_UNSPENT"])
  /\ UNCHANGED <<derive, byHolder, byType, now>>

\* The parent's status is not among the checks.
Delegate(sender, parent, p) ==
  LET u == utxo[parent] IN
  /\ MayDelegate(sender, u, p)
  /\ \E id \in FreshID(ChildIds) :
       /\ utxo' = saveUTXO(id,
            [issuer |-> u.issuer, holder |-> p.newHolder, capType |-> u.capType,
             scopes |-> p.scopes,
             expiresAt |-> OrInherit(p.expiresAt, u.expiresAt),
             maxUses |-> OrInherit(p.maxUses, u.maxUses), usedCount |-> 0,
             delegatable |-> u.delegatable, maxDepth |-> u.maxDepth,
             curDepth |-> u.curDepth + 1, parent |-> parent,
             status |-> "UTXO_UNSPENT"])
       /\ derive' = derive \cup {<<parent, id>>}
  /\ UNCHANGED <<byHolder, byType, now>>

\* Any status may be revoked, by the issuer only.
Revoke(sender, id) ==
  /\ utxo[id].issuer = sender
  /\ utxo' = WithStatus(Cascade({id}), "UTXO_REVOKED")
  /\ UNCHANGED <<derive, byHolder, byType, now>>

BatchExpire ==
  /\ utxo' = ExpireAtTime(now)
  /\ UNCHANGED <<derive, byHolder, byType, now>>

\* EndBlock, and the start of a block whose time is not earlier.
EndBlock ==
  /\ utxo' = ExpireAtTime(now)
  /\ now' \in now..MaxTime
  /\ UNCHANGED <<derive, byHolder, byType>>

Next ==
  \/ \E s \in Actors, p \in MintPayload : Mint(s, p)
  \/ \E s \in Actors, i \in Stored : Spend(s, i)
  \/ \E s \in Actors, i \in Stored : SpendExpired(s, i)
  \/ \E s \in Actors, i \in Stored, p \in DelegatePayload : Delegate(s, i, p)
  \/ \E s \in Actors, i \in Stored : Revoke(s, i)
  \/ BatchExpire
  \/ EndBlock

Spec == Init /\ [][Next]_vars

-----------------------------------------------------------------------------
(***************************************************************************)
(* Types of the stored records and indexes.                                *)
(***************************************************************************)
TypeOK ==
  /\ Stored \subseteq Ids
  /\ \A i \in Stored : utxo[i] \in CapabilityUTXO
  /\ utxo = [i \in Stored |-> utxo[i]]
  /\ derive \subseteq Ids \X Ids
  /\ byHolder \subseteq Actors \X Ids
  /\ byType \subseteq CapTypes \X Ids
  /\ now \in Nat

(***************************************************************************)
(* cascade aborts the revocation, and with it EndBlock, if cap/d names a   *)
(* record it cannot load, and it misses a child that cap/d does not name.  *)
(* cap/d therefore agrees with the parent pointers of the stored records,  *)
(* and depth grows by one along it, so cap/d has no cycle.                 *)
(***************************************************************************)
DeriveIndexSound ==
  /\ derive = {<<utxo[i].parent, i>> : i \in {j \in Stored : utxo[j].parent # None}}
  /\ \A e \in derive : /\ e[1] \in Stored
                       /\ utxo[e[2]].curDepth = utxo[e[1]].curDepth + 1

(***************************************************************************)
(* However long a chain of delegations, a capability is no stronger than   *)
(* any of its ancestors: same issuer and type, a subset of the scopes, no  *)
(* larger use limit and no more uses made of it than any of them allows,   *)
(* and within the depth its root allows (delegate's and spend's checks).   *)
(***************************************************************************)
NoAmplification ==
  \A i \in Stored : \A j \in Reach({i}, Stored) :
    LET u == utxo[i]
        d == utxo[j] IN
    /\ d.issuer = u.issuer /\ d.capType = u.capType
    /\ d.scopes # {} /\ d.scopes \subseteq u.scopes
    /\ u.maxUses > 0 => d.maxUses \in 1..u.maxUses /\ d.usedCount <= u.maxUses
    /\ d.curDepth <= u.maxDepth

(***************************************************************************)
(* spend never uses a capability more often than max_uses, and a           *)
(* capability that is used up is no longer UNSPENT.                        *)
(***************************************************************************)
UsesWithinLimit ==
  \A i \in Stored : LET u == utxo[i] IN
    u.maxUses > 0 => /\ u.usedCount <= u.maxUses
                     /\ u.usedCount = u.maxUses => u.status # "UTXO_UNSPENT"

\* Capabilities below i whose expiry is negative.
Endless(i) == {k \in Reach({i}, Stored) : utxo[k].expiresAt < 0}

(***************************************************************************)
(* A use never happens at or after the expiry of any capability the used   *)
(* one derives from, although delegate accepts an expired parent and the   *)
(* cascade stops at a child that is not UNSPENT.  There is one way around, *)
(* and only one: delegate takes a negative expires_at under a parent that  *)
(* expires, and spend and delegate read it as "never", so whatever is such *)
(* a child or derives from one escapes the expiry of its ancestors above.  *)
(***************************************************************************)
NoUsePastAncestorExpiry ==
  [][\A j \in Stored : utxo'[j].usedCount # utxo[j].usedCount =>
       \A i \in {a \in Stored : utxo[a].expiresAt > 0 /\ j \in Reach({a}, Stored)} :
         \/ now < utxo[i].expiresAt
         \/ \E k \in Endless(i) : j \in Reach({k}, Stored)]_vars

(***************************************************************************)
(* No step takes a status back: only UNSPENT becomes SPENT or EXPIRED,     *)
(* anything may become REVOKED, REVOKED is final and no record disappears  *)
(* or has its terms rewritten (a fresh id never lands on a stored record). *)
(***************************************************************************)
StatusOnlyEnds ==
  [][\A i \in Stored :
       /\ i \in Stored'
       /\ utxo'[i].status # utxo[i].status =>
            \/ utxo'[i].status = "UTXO_REVOKED"
            \/ utxo[i].status = "UTXO_UNSPENT"
       /\ utxo'[i].scopes = utxo[i].scopes
       /\ utxo'[i].expiresAt = utxo[i].expiresAt
       /\ utxo'[i].maxUses = utxo[i].maxUses]_vars

(***************************************************************************)
(* The step that revokes a capability leaves none of its direct children   *)
(* usable, and the step that ends a block leaves no usable capability that *)
(* is due and no usable child below one it expired.                        *)
(***************************************************************************)
NoStrandedChild ==
  [][\A e \in derive :
       /\ utxo'[e[1]].status = "UTXO_REVOKED" /\ utxo[e[1]].status # "UTXO_REVOKED"
            => utxo'[e[2]].status # "UTXO_UNSPENT"
       /\ EndBlock /\ utxo'[e[1]].status # utxo[e[1]].status
            => utxo'[e[2]].status # "UTXO_UNSPENT"]_vars

(***************************************************************************)
(* The end of a block (expireAtTime) leaves no usable capability that is   *)
(* due at the block's time, whatever was minted or delegated in the block. *)
(***************************************************************************)
SweepIsComplete ==
  [][EndBlock => \A i \in Stored' :
       utxo'[i].status = "UTXO_UNSPENT" /\ utxo'[i].expiresAt # 0
         => utxo'[i].expiresAt > now]_vars

(***************************************************************************)
(* What the capability catalogue says of revoke_capability: it revokes the *)
(* capability and cascades to the capabilities below it.                   *)
(***************************************************************************)
RevokedTreeIsDead ==
  \A i \in Stored : utxo[i].status = "UTXO_REVOKED" =>
    \A j \in Reach({i}, Stored) : utxo[j].status # "UTXO_UNSPENT"
=============================================================================
