--------------------------- MODULE CapUTXOProofs ---------------------------
(***************************************************************************)
(* Proofs about CapUTXO, for every choice of its constants, and about the  *)
(* loops of CapCascade: that the recursion of cascade and the sweep of     *)
(* expireAtTime compute the sets CapUTXO writes in one step.               *)
(***************************************************************************)
EXTENDS CapCascade, TLAPS, FiniteSetTheorems, SequenceTheorems, WellFoundedInduction,
        NaturalsInduction

\* A record that may be stored under an id.
LEMMA SaveType ==
  ASSUME TypeOK, NEW id \in Ids, NEW r \in CapabilityUTXO,
         utxo' = saveUTXO(id, r)
  PROVE  /\ Stored' = Stored \cup {id}
         /\ utxo'[id] = r
         /\ \A i \in Stored : i # id => utxo'[i] = utxo[i]
         /\ Stored' \subseteq Ids
         /\ \A i \in Stored' : utxo'[i] \in CapabilityUTXO
         /\ utxo' = [i \in Stored' |-> utxo'[i]]
BY DEF TypeOK, saveUTXO, Stored

\* WithStatus changes nothing but the status of the members of S.
LEMMA WithStatusType ==
  ASSUME TypeOK, NEW S, NEW st \in Statuses, utxo' = WithStatus(S, st)
  PROVE  /\ Stored' = Stored
         /\ \A i \in Stored : utxo'[i] = IF i \in S THEN [utxo[i] EXCEPT !.status = st]
                                                   ELSE utxo[i]
         /\ \A i \in Stored' : utxo'[i] \in CapabilityUTXO
         /\ utxo' = [i \in Stored' |-> utxo'[i]]
<1>1. Stored' = Stored
  BY DEF WithStatus, Stored
<1>2. \A i \in Stored : utxo'[i] = IF i \in S THEN [utxo[i] EXCEPT !.status = st]
                                            ELSE utxo[i]
  BY DEF WithStatus, Stored
<1>3. \A i \in Stored : utxo'[i] \in CapabilityUTXO
  <2> SUFFICES ASSUME NEW i \in Stored PROVE utxo'[i] \in CapabilityUTXO
    OBVIOUS
  <2>1. utxo[i] \in CapabilityUTXO
    BY DEF TypeOK
  <2>2. [utxo[i] EXCEPT !.status = st] \in CapabilityUTXO
    BY <2>1 DEF CapabilityUTXO
  <2> QED BY <1>2, <2>1, <2>2
<1>4. utxo' = [i \in Stored' |-> utxo'[i]]
  BY <1>1 DEF WithStatus, Stored
<1> QED BY <1>1, <1>2, <1>3, <1>4

\* The record a mint stores, and where.
LEMMA MintRecord ==
  ASSUME NEW s \in Actors, NEW p \in MintPayload, TypeOK, Mint(s, p)
  PROVE  \E id \in RootIds \ Stored : \E r \in CapabilityUTXO :
           /\ utxo' = saveUTXO(id, r)
           /\ r.parent = None /\ r.scopes # {}
           /\ r.curDepth = 0 /\ r.usedCount = 0 /\ r.status = "UTXO_UNSPENT"
           /\ r.delegatable => r.maxDepth > 0
           /\ byHolder' = byHolder \cup {<<p.holder, id>>}
           /\ byType' = byType \cup {<<p.capType, id>>}
<1>1. PICK id \in RootIds \ Stored :
           /\ utxo' = saveUTXO(id,
            [issuer |-> s, holder |-> p.holder, capType |-> p.capType,
             scopes |-> p.scopes, expiresAt |-> p.expiresAt,
             maxUses |-> p.maxUses, usedCount |-> 0,
             delegatable |-> p.delegatable, maxDepth |-> p.maxDepth,
             curDepth |-> 0, parent |-> None, status |-> "UTXO_UNSPENT"])
           /\ byHolder' = byHolder \cup {<<p.holder, id>>}
           /\ byType' = byType \cup {<<p.capType, id>>}
  BY DEF Mint, FreshID
<1> DEFINE r == [issuer |-> s, holder |-> p.holder, capType |-> p.capType,
             scopes |-> p.scopes, expiresAt |-> p.expiresAt,
             maxUses |-> p.maxUses, usedCount |-> 0,
             delegatable |-> p.delegatable, maxDepth |-> p.maxDepth,
             curDepth |-> 0, parent |-> None, status |-> "UTXO_UNSPENT"]
<1>2. r \in CapabilityUTXO
  BY CapConstants DEF CapabilityUTXO, MintPayload, Statuses
<1>3. r.parent = None /\ r.scopes # {} /\ r.curDepth = 0 /\ r.usedCount = 0
      /\ r.status = "UTXO_UNSPENT" /\ (r.delegatable => r.maxDepth > 0)
  BY DEF Mint
<1> HIDE DEF r
<1> QED BY <1>1, <1>2, <1>3 DEF r

\* The record a delegation stores, its relation to the parent, and where.
DelegateFacts(parent, r) ==
  LET u == utxo[parent] IN
  /\ r.parent = parent /\ r.issuer = u.issuer /\ r.capType = u.capType
  /\ r.scopes # {} /\ r.scopes \subseteq u.scopes
  /\ u.maxUses > 0 => r.maxUses \in 1..u.maxUses
  /\ u.expiresAt > 0 => r.expiresAt # 0 /\ r.expiresAt <= u.expiresAt
  /\ u.delegatable /\ r.delegatable
  /\ r.maxDepth = u.maxDepth /\ r.curDepth = u.curDepth + 1
  /\ u.maxDepth > 0 => r.curDepth <= u.maxDepth
  /\ r.usedCount = 0 /\ r.status = "UTXO_UNSPENT"

\* delegate stores such a record under a fresh id and enters it in cap/d.
LEMMA DelegateRecord ==
  ASSUME NEW s \in Actors, NEW parent \in Stored, NEW p \in DelegatePayload,
         TypeOK, Delegate(s, parent, p)
  PROVE  \E id \in ChildIds \ Stored : \E r \in CapabilityUTXO :
           /\ utxo' = saveUTXO(id, r)
           /\ derive' = derive \cup {<<parent, id>>}
           /\ DelegateFacts(parent, r)
<1> DEFINE u == utxo[parent]
<1> DEFINE r ==
            [issuer |-> u.issuer, holder |-> p.newHolder, capType |-> u.capType,
             scopes |-> p.scopes,
             expiresAt |-> OrInherit(p.expiresAt, u.expiresAt),
             maxUses |-> OrInherit(p.maxUses, u.maxUses), usedCount |-> 0,
             delegatable |-> u.delegatable, maxDepth |-> u.maxDepth,
             curDepth |-> u.curDepth + 1, parent |-> parent,
             status |-> "UTXO_UNSPENT"]
<1>1. PICK id \in ChildIds \ Stored :
           /\ utxo' = saveUTXO(id, r)
           /\ derive' = derive \cup {<<parent, id>>}
  BY DEF Delegate, FreshID
<1>2. u \in CapabilityUTXO /\ parent \in Ids
  BY DEF TypeOK
<1>3. p.expiresAt \in Int /\ p.maxUses \in Nat
  BY CapConstants DEF DelegatePayload
<1>4. OrInherit(p.expiresAt, u.expiresAt) \in Int /\ OrInherit(p.maxUses, u.maxUses) \in Nat
  BY <1>2, <1>3 DEF OrInherit, CapabilityUTXO
<1>5. r \in CapabilityUTXO
  BY <1>2, <1>4 DEF CapabilityUTXO, DelegatePayload, Statuses
<1>6. MayDelegate(s, u, p)
  BY DEF Delegate
<1>7. DelegateFacts(parent, r)
  BY <1>2, <1>3, <1>6 DEF DelegateFacts, MayDelegate, OrInherit, CapabilityUTXO
<1> HIDE DEF r
<1> QED BY <1>1, <1>5, <1>7

\* The statuses a sweep or a revocation writes.
LEMMA StatusInStatuses ==
  "UTXO_EXPIRED" \in Statuses /\ "UTXO_REVOKED" \in Statuses
BY DEF Statuses

\* A use, or the expiry a use detects, rewrites one stored record.
LEMMA SpendRecord ==
  ASSUME NEW s \in Actors, NEW id \in Stored, TypeOK,
         Spend(s, id) \/ SpendExpired(s, id)
  PROVE  \E r \in CapabilityUTXO :
           /\ utxo' = saveUTXO(id, r)
           /\ \E n \in Nat, st \in Statuses :
                r = [utxo[id] EXCEPT !.usedCount = n, !.status = st]
<1>1. utxo[id] \in CapabilityUTXO
  BY DEF TypeOK
<1>2. CASE Spend(s, id)
  <2> DEFINE st == IF Exhausted(utxo[id], utxo[id].usedCount + 1)
                     THEN "UTXO_SPENT" ELSE utxo[id].status
             n == utxo[id].usedCount + 1
             r == [utxo[id] EXCEPT !.usedCount = n, !.status = st]
  <2>1. utxo' = saveUTXO(id, r)
    BY <1>2 DEF Spend
  <2>2. st \in Statuses /\ n \in Nat
    BY <1>1 DEF CapabilityUTXO, Statuses
  <2>3. r \in CapabilityUTXO
    BY <1>1, <2>2 DEF CapabilityUTXO
  <2> QED BY <2>1, <2>2, <2>3
<1>3. CASE SpendExpired(s, id)
  <2> DEFINE r == [utxo[id] EXCEPT !.usedCount = utxo[id].usedCount, !.status = "UTXO_EXPIRED"]
  <2>1. r = [utxo[id] EXCEPT !.status = "UTXO_EXPIRED"]
    BY <1>1 DEF CapabilityUTXO
  <2>2. utxo' = saveUTXO(id, r)
    BY <1>3, <2>1 DEF SpendExpired
  <2>3. r \in CapabilityUTXO
    BY <1>1 DEF CapabilityUTXO, Statuses
  <2> QED BY <1>1, <2>2, <2>3 DEF CapabilityUTXO, Statuses
<1> QED BY <1>2, <1>3

(***************************************************************************)
(* The store only ever holds well-typed records under known ids.           *)
(***************************************************************************)
THEOREM TypeCorrect == Spec => []TypeOK
<1>1. Init => TypeOK
  BY DEF Init, TypeOK, Stored
<1>2. TypeOK /\ [Next]_vars => TypeOK'
  <2> SUFFICES ASSUME TypeOK, [Next]_vars PROVE TypeOK'
    OBVIOUS
  <2>1. ASSUME NEW s \in Actors, NEW p \in MintPayload, Mint(s, p) PROVE TypeOK'
    BY <2>1, MintRecord, SaveType DEF Mint, TypeOK, Ids, MintPayload
  <2>2. ASSUME NEW s \in Actors, NEW i \in Stored, Spend(s, i) \/ SpendExpired(s, i)
        PROVE TypeOK'
    BY <2>2, SpendRecord, SaveType DEF Spend, SpendExpired, TypeOK
  <2>3. ASSUME NEW s \in Actors, NEW i \in Stored, NEW p \in DelegatePayload,
               Delegate(s, i, p)
        PROVE TypeOK'
    BY <2>3, DelegateRecord, SaveType DEF Delegate, TypeOK, Ids
  <2>4. ASSUME NEW s \in Actors, NEW i \in Stored, Revoke(s, i) PROVE TypeOK'
    BY <2>4, WithStatusType, StatusInStatuses DEF Revoke, TypeOK
  <2>5. ASSUME BatchExpire \/ EndBlock PROVE TypeOK'
    BY <2>5, WithStatusType, StatusInStatuses, CapConstants
    DEF BatchExpire, EndBlock, ExpireAtTime, TypeOK
  <2>6. CASE UNCHANGED vars
    BY <2>6 DEF vars, TypeOK, Stored
  <2> QED BY <2>1, <2>2, <2>3, <2>4, <2>5, <2>6 DEF Next
<1> QED BY <1>1, <1>2, PTL DEF Spec
-----------------------------------------------------------------------------
(* The terms of a capability, which no step rewrites.                      *)
SameTerms(r, u) ==
  /\ r.issuer = u.issuer /\ r.capType = u.capType /\ r.scopes = u.scopes
  /\ r.expiresAt = u.expiresAt /\ r.maxUses = u.maxUses
  /\ r.delegatable = u.delegatable /\ r.maxDepth = u.maxDepth
  /\ r.curDepth = u.curDepth /\ r.parent = u.parent

MintFacts(r) ==
  /\ r.parent = None /\ r.scopes # {} /\ r.curDepth = 0
  /\ r.delegatable => r.maxDepth > 0
  /\ r.usedCount = 0 /\ r.status = "UTXO_UNSPENT"

\* Every step keeps what is stored and its terms.
LEMMA StepKeeps ==
  ASSUME TypeOK, [Next]_vars
  PROVE  \A i \in Stored : i \in Stored' /\ SameTerms(utxo'[i], utxo[i])
<1>1. ASSUME NEW s \in Actors, NEW p \in MintPayload, Mint(s, p)
      PROVE  \A i \in Stored : i \in Stored' /\ SameTerms(utxo'[i], utxo[i])
  <2>1. PICK id \in RootIds \ Stored : \E r \in CapabilityUTXO : utxo' = saveUTXO(id, r)
    BY <1>1, MintRecord
  <2>2. id \in Ids
    BY DEF Ids
  <2> QED BY <2>1, <2>2, SaveType DEF SameTerms
<1>2. ASSUME NEW s \in Actors, NEW id \in Stored, Spend(s, id) \/ SpendExpired(s, id)
      PROVE  \A i \in Stored : i \in Stored' /\ SameTerms(utxo'[i], utxo[i])
  <2>1. PICK r \in CapabilityUTXO :
          /\ utxo' = saveUTXO(id, r)
          /\ \E n \in Nat, st \in Statuses :
                r = [utxo[id] EXCEPT !.usedCount = n, !.status = st]
    BY <1>2, SpendRecord
  <2>2. utxo[id] \in CapabilityUTXO /\ id \in Ids
    BY DEF TypeOK
  <2>3. SameTerms(r, utxo[id])
    BY <2>1, <2>2 DEF SameTerms, CapabilityUTXO
  <2>5. Stored' = Stored \cup {id} /\ utxo'[id] = r
        /\ \A i \in Stored : i # id => utxo'[i] = utxo[i]
    BY <2>1, <2>2, SaveType
  <2> QED BY <2>3, <2>5 DEF SameTerms
<1>3. ASSUME NEW s \in Actors, NEW parent \in Stored, NEW p \in DelegatePayload,
             Delegate(s, parent, p)
      PROVE  \A i \in Stored : i \in Stored' /\ SameTerms(utxo'[i], utxo[i])
  <2>1. PICK id \in ChildIds \ Stored : \E r \in CapabilityUTXO : utxo' = saveUTXO(id, r)
    BY <1>3, DelegateRecord
  <2>2. id \in Ids
    BY DEF Ids
  <2> QED BY <2>1, <2>2, SaveType DEF SameTerms
<1>4. ASSUME NEW S, NEW st \in Statuses, utxo' = WithStatus(S, st)
      PROVE  \A i \in Stored : i \in Stored' /\ SameTerms(utxo'[i], utxo[i])
  <2>1. ASSUME NEW i \in Stored
        PROVE  SameTerms([utxo[i] EXCEPT !.status = st], utxo[i])
    BY DEF SameTerms, TypeOK, CapabilityUTXO
  <2>2. Stored' = Stored
        /\ \A i \in Stored : utxo'[i] = IF i \in S THEN [utxo[i] EXCEPT !.status = st]
                                                  ELSE utxo[i]
    BY <1>4, WithStatusType
  <2>3. ASSUME NEW i \in Stored PROVE SameTerms(utxo'[i], utxo[i])
    <3>1. CASE i \in S
      BY <2>1, <2>2, <3>1
    <3>2. CASE i \notin S
      BY <2>2, <3>2 DEF SameTerms
    <3> QED BY <3>1, <3>2
  <2> QED BY <2>2, <2>3
<1>5. ASSUME NEW s \in Actors, NEW i \in Stored, Revoke(s, i)
      PROVE  \A j \in Stored : j \in Stored' /\ SameTerms(utxo'[j], utxo[j])
  BY <1>4, <1>5, StatusInStatuses DEF Revoke
<1>6. CASE BatchExpire \/ EndBlock
  BY <1>4, <1>6, StatusInStatuses DEF BatchExpire, EndBlock, ExpireAtTime
<1>7. CASE UNCHANGED vars
  BY <1>7 DEF vars, Stored, SameTerms
<1> QED BY <1>1, <1>2, <1>3, <1>5, <1>6, <1>7 DEF Next

\* What is new after a step was minted, or derives from a stored parent.
LEMMA StepAdds ==
  ASSUME TypeOK, [Next]_vars
  PROVE  \/ /\ UNCHANGED derive
            /\ \A i \in Stored' \ Stored : MintFacts(utxo'[i])
         \/ \E parent \in Stored, id \in Ids \ Stored :
              /\ derive' = derive \cup {<<parent, id>>}
              /\ Stored' = Stored \cup {id}
              /\ DelegateFacts(parent, utxo'[id])
<1>1. ASSUME NEW s \in Actors, NEW p \in MintPayload, Mint(s, p)
      PROVE  UNCHANGED derive /\ \A i \in Stored' \ Stored : MintFacts(utxo'[i])
  <2>1. PICK id \in RootIds \ Stored : \E r \in CapabilityUTXO :
                utxo' = saveUTXO(id, r) /\ MintFacts(r)
    BY <1>1, MintRecord DEF MintFacts
  <2>2. id \in Ids
    BY DEF Ids
  <2>3. PICK r \in CapabilityUTXO : utxo' = saveUTXO(id, r) /\ MintFacts(r)
    BY <2>1
  <2>4. Stored' = Stored \cup {id} /\ utxo'[id] = r
    BY <2>2, <2>3, SaveType
  <2>5. UNCHANGED derive
    BY <1>1 DEF Mint
  <2> QED BY <2>3, <2>4, <2>5
<1>2. ASSUME NEW s \in Actors, NEW id \in Stored, Spend(s, id) \/ SpendExpired(s, id)
      PROVE  UNCHANGED derive /\ Stored' = Stored
  <2>1. PICK r \in CapabilityUTXO : utxo' = saveUTXO(id, r)
    BY <1>2, SpendRecord
  <2>2. id \in Ids
    BY DEF TypeOK
  <2>3. Stored' = Stored \cup {id}
    BY <2>1, <2>2, SaveType
  <2> QED BY <1>2, <2>3 DEF Spend, SpendExpired
<1>3. ASSUME NEW s \in Actors, NEW parent \in Stored, NEW p \in DelegatePayload,
             Delegate(s, parent, p)
      PROVE  \E id \in Ids \ Stored :
              /\ derive' = derive \cup {<<parent, id>>}
              /\ Stored' = Stored \cup {id}
              /\ DelegateFacts(parent, utxo'[id])
  <2>1. PICK id \in ChildIds \ Stored : \E r \in CapabilityUTXO :
                /\ utxo' = saveUTXO(id, r)
                /\ derive' = derive \cup {<<parent, id>>}
                /\ DelegateFacts(parent, r)
    BY <1>3, DelegateRecord
  <2>2. id \in Ids \ Stored
    BY DEF Ids
  <2> QED BY <2>1, <2>2, SaveType
<1>4. ASSUME NEW s \in Actors, NEW i \in Stored, Revoke(s, i)
      PROVE  UNCHANGED derive /\ Stored' = Stored
  BY <1>4, WithStatusType, StatusInStatuses DEF Revoke
<1>5. ASSUME BatchExpire \/ EndBlock
      PROVE  UNCHANGED derive /\ Stored' = Stored
  BY <1>5, WithStatusType, StatusInStatuses DEF BatchExpire, EndBlock, ExpireAtTime
<1>6. ASSUME UNCHANGED vars PROVE UNCHANGED derive /\ Stored' = Stored
  BY <1>6 DEF vars, Stored
<1> QED BY <1>1, <1>2, <1>3, <1>4, <1>5, <1>6 DEF Next

-----------------------------------------------------------------------------
(* DeriveIndexSound says more than its set equality lets a prover use: the *)
(* same fact entry by entry.                                               *)
DeriveEntries ==
  /\ \A i \in Stored : utxo[i].parent # None => <<utxo[i].parent, i>> \in derive
  /\ \A e \in derive :
       /\ e[2] \in Stored /\ e = <<utxo[e[2]].parent, e[2]>>
       /\ e[1] \in Stored /\ e[1] # None
       /\ utxo[e[2]].curDepth = utxo[e[1]].curDepth + 1

\* The entries of cap/d, one by one, give the set equality of DeriveIndexSound.
LEMMA DeriveEntriesSuffice == TypeOK => (DeriveEntries => DeriveIndexSound)
BY CapConstants DEF TypeOK, DeriveEntries, DeriveIndexSound

\* Mint and delegate extend cap/u and cap/d together; nothing else touches cap/d.
LEMMA DeriveEntriesStep ==
  ASSUME TypeOK, TypeOK', DeriveEntries, [Next]_vars
  PROVE  DeriveEntries'
<1>1. \A i \in Stored : i \in Stored' /\ SameTerms(utxo'[i], utxo[i])
  BY StepKeeps
<1>2. CASE UNCHANGED derive /\ \A i \in Stored' \ Stored : MintFacts(utxo'[i])
  BY <1>1, <1>2 DEF DeriveEntries, SameTerms, MintFacts
<1>3. ASSUME NEW parent \in Stored, NEW id \in Ids \ Stored,
             derive' = derive \cup {<<parent, id>>},
             Stored' = Stored \cup {id},
             DelegateFacts(parent, utxo'[id])
      PROVE  DeriveEntries'
  <2>1. parent \in Ids /\ parent # None
    BY CapConstants DEF TypeOK
  <2>2. utxo'[id].parent = parent /\ utxo'[id].curDepth = utxo[parent].curDepth + 1
    BY <1>3 DEF DelegateFacts
  <2>3. \A i \in Stored' : utxo'[i].parent # None => <<utxo'[i].parent, i>> \in derive'
    BY <1>1, <1>3, <2>2 DEF DeriveEntries, SameTerms
  <2>4. ASSUME NEW e \in derive'
        PROVE  /\ e[2] \in Stored' /\ e = <<utxo'[e[2]].parent, e[2]>>
               /\ e[1] \in Stored' /\ e[1] # None
               /\ utxo'[e[2]].curDepth = utxo'[e[1]].curDepth + 1
    <3>1. CASE e \in derive
      BY <1>1, <3>1 DEF DeriveEntries, SameTerms
    <3>2. CASE e = <<parent, id>>
      BY <1>1, <1>3, <2>1, <2>2, <3>2 DEF SameTerms
    <3> QED BY <1>3, <3>1, <3>2
  <2> QED BY <2>3, <2>4 DEF DeriveEntries
<1> QED BY <1>2, <1>3, StepAdds

(***************************************************************************)
(* cap/d always mirrors the parent pointers, so no cascade can fail on a   *)
(* missing record or miss a child: EndBlock never aborts a block here.     *)
(***************************************************************************)
THEOREM DeriveIndexCorrect == Spec => []DeriveIndexSound
<1>1. Init => DeriveEntries
  BY DEF Init, DeriveEntries, Stored
<1>2. TypeOK /\ TypeOK' /\ DeriveEntries /\ [Next]_vars => DeriveEntries'
  BY DeriveEntriesStep
<1> QED BY <1>1, <1>2, TypeCorrect, DeriveEntriesSuffice, PTL DEF Spec
-----------------------------------------------------------------------------
\* Reach is contained in every closed set of stored ids.
LEMMA ReachLeast ==
  ASSUME NEW roots, NEW through, NEW T \in SUBSET Stored,
         ClosedSet(T, roots, through)
  PROVE  Reach(roots, through) \subseteq T
BY DEF Reach

\* Reach is itself closed.
LEMMA ReachClosed ==
  ASSUME DeriveEntries, NEW roots \in SUBSET Stored, NEW through
  PROVE  ClosedSet(Reach(roots, through), roots, through)
BY DEF Reach, ClosedSet, DeriveEntries

\* A cascade touches its roots and live capabilities only.
LEMMA CascadeLive ==
  ASSUME NEW roots \in SUBSET Stored
  PROVE  Cascade(roots) \subseteq roots \cup Live
<1>1. roots \cup Live \in SUBSET Stored
  BY DEF Live
<1>2. ClosedSet(roots \cup Live, roots, Live)
  BY DEF ClosedSet
<1> QED BY <1>1, <1>2, ReachLeast DEF Cascade

\* A sweep starts from live capabilities, so it ends live capabilities only.
LEMMA DueLive ==
  /\ Due(now) \in SUBSET Stored
  /\ Cascade(Due(now)) \subseteq Live
<1>1. Due(now) \subseteq Live
  BY DEF Due
<1>2. Due(now) \in SUBSET Stored
  BY <1>1 DEF Live
<1> QED BY <1>1, <1>2, CascadeLive

(* What a step may do to the use count and the status of a stored record.  *)
StatusStep(r, u) ==
  /\ r.usedCount = u.usedCount
  /\ \/ r.status = u.status
     \/ r.status = "UTXO_REVOKED"
     \/ u.status = "UTXO_UNSPENT" /\ r.status = "UTXO_EXPIRED"

UseStep(r, u) ==
  /\ u.status = "UTXO_UNSPENT" /\ ~Expired(u)
  /\ r.usedCount = u.usedCount + 1
  /\ r.status = IF Exhausted(u, u.usedCount + 1) THEN "UTXO_SPENT" ELSE u.status

\* Every step treats a stored record in one of these two ways.
LEMMA StepUses ==
  ASSUME TypeOK, [Next]_vars
  PROVE  \A i \in Stored : StatusStep(utxo'[i], utxo[i]) \/ UseStep(utxo'[i], utxo[i])
<1>1. ASSUME NEW s \in Actors, NEW p \in MintPayload, Mint(s, p)
      PROVE  \A i \in Stored : StatusStep(utxo'[i], utxo[i])
  <2>1. PICK id \in RootIds \ Stored : \E r \in CapabilityUTXO : utxo' = saveUTXO(id, r)
    BY <1>1, MintRecord
  <2>2. id \in Ids
    BY DEF Ids
  <2> QED BY <2>1, <2>2, SaveType DEF StatusStep
<1>2. ASSUME NEW s \in Actors, NEW id \in Stored, Spend(s, id)
      PROVE  \A i \in Stored : StatusStep(utxo'[i], utxo[i]) \/ UseStep(utxo'[i], utxo[i])
  <2> DEFINE u == utxo[id]
             st == IF Exhausted(u, u.usedCount + 1) THEN "UTXO_SPENT" ELSE u.status
             n == u.usedCount + 1
             r == [u EXCEPT !.usedCount = n, !.status = st]
  <2>1. u \in CapabilityUTXO /\ id \in Ids
    BY DEF TypeOK
  <2>2. u.status = "UTXO_UNSPENT" /\ ~Expired(u) /\ utxo' = saveUTXO(id, r)
    BY <1>2 DEF Spend
  <2>5. st \in Statuses
    BY <2>2 DEF Statuses
  <2>6. r.status = st /\ r.usedCount = u.usedCount + 1 /\ r \in CapabilityUTXO
    <3> HIDE DEF st
    <3>1. n \in Nat
      BY <2>1 DEF CapabilityUTXO
    <3> HIDE DEF n
    <3>2. r \in CapabilityUTXO
      BY <2>1, <2>5, <3>1 DEF CapabilityUTXO
    <3>3. r.status = st /\ r.usedCount = n
      BY <2>1 DEF CapabilityUTXO
    <3> QED BY <3>2, <3>3 DEF n
  <2>3. r \in CapabilityUTXO /\ UseStep(r, u)
    <3> HIDE DEF r
    <3> QED BY <2>2, <2>6 DEF UseStep
  <2> HIDE DEF r
  <2>4. utxo'[id] = r /\ \A i \in Stored : i # id => utxo'[i] = utxo[i]
    BY <2>1, <2>2, <2>3, SaveType
  <2> QED BY <2>3, <2>4 DEF StatusStep
<1>3. ASSUME NEW s \in Actors, NEW id \in Stored, SpendExpired(s, id)
      PROVE  \A i \in Stored : StatusStep(utxo'[i], utxo[i])
  <2> DEFINE r == [utxo[id] EXCEPT !.status = "UTXO_EXPIRED"]
  <2>1. utxo[id] \in CapabilityUTXO /\ id \in Ids
    BY DEF TypeOK
  <2>2. utxo[id].status = "UTXO_UNSPENT" /\ utxo' = saveUTXO(id, r)
    BY <1>3 DEF SpendExpired
  <2>3. r \in CapabilityUTXO /\ StatusStep(r, utxo[id])
    BY <2>1, <2>2 DEF CapabilityUTXO, StatusStep, Statuses
  <2> HIDE DEF r
  <2>4. utxo'[id] = r /\ \A i \in Stored : i # id => utxo'[i] = utxo[i]
    BY <2>1, <2>2, <2>3, SaveType
  <2> QED BY <2>3, <2>4 DEF StatusStep
<1>4. ASSUME NEW s \in Actors, NEW parent \in Stored, NEW p \in DelegatePayload,
             Delegate(s, parent, p)
      PROVE  \A i \in Stored : StatusStep(utxo'[i], utxo[i])
  <2>1. PICK id \in ChildIds \ Stored : \E r \in CapabilityUTXO : utxo' = saveUTXO(id, r)
    BY <1>4, DelegateRecord
  <2>2. id \in Ids
    BY DEF Ids
  <2> QED BY <2>1, <2>2, SaveType DEF StatusStep
<1>5. ASSUME NEW s \in Actors, NEW id \in Stored, Revoke(s, id)
      PROVE  \A i \in Stored : StatusStep(utxo'[i], utxo[i])
  <2>1. \A i \in Stored :
           utxo'[i] = IF i \in Cascade({id}) THEN [utxo[i] EXCEPT !.status = "UTXO_REVOKED"]
                                             ELSE utxo[i]
    BY <1>5, WithStatusType, StatusInStatuses DEF Revoke
  <2>2. ASSUME NEW i \in Stored
        PROVE  StatusStep([utxo[i] EXCEPT !.status = "UTXO_REVOKED"], utxo[i])
    BY DEF StatusStep, TypeOK, CapabilityUTXO
  <2> QED BY <2>1, <2>2 DEF StatusStep
<1>6. ASSUME BatchExpire \/ EndBlock
      PROVE  \A i \in Stored : StatusStep(utxo'[i], utxo[i])
  <2>1. \A i \in Stored :
           utxo'[i] = IF i \in Cascade(Due(now)) THEN [utxo[i] EXCEPT !.status = "UTXO_EXPIRED"]
                                                 ELSE utxo[i]
    BY <1>6, WithStatusType, StatusInStatuses DEF BatchExpire, EndBlock, ExpireAtTime
  <2>2. ASSUME NEW i \in Live
        PROVE  StatusStep([utxo[i] EXCEPT !.status = "UTXO_EXPIRED"], utxo[i])
    BY DEF StatusStep, TypeOK, CapabilityUTXO, Live
  <2> QED BY <2>1, <2>2, DueLive DEF StatusStep
<1>7. ASSUME UNCHANGED vars PROVE \A i \in Stored : StatusStep(utxo'[i], utxo[i])
  BY <1>7 DEF vars, StatusStep
<1> QED BY <1>1, <1>2, <1>3, <1>4, <1>5, <1>6, <1>7 DEF Next

(***************************************************************************)
(* Statuses only end and terms are never rewritten.                        *)
(***************************************************************************)
THEOREM StatusesOnlyEnd == Spec => StatusOnlyEnds
<1> DEFINE Step == \A i \in Stored :
       /\ i \in Stored'
       /\ utxo'[i].status # utxo[i].status =>
            \/ utxo'[i].status = "UTXO_REVOKED"
            \/ utxo[i].status = "UTXO_UNSPENT"
       /\ utxo'[i].scopes = utxo[i].scopes
       /\ utxo'[i].expiresAt = utxo[i].expiresAt
       /\ utxo'[i].maxUses = utxo[i].maxUses
<1>1. TypeOK /\ [Next]_vars => [Step]_vars
  BY StepKeeps, StepUses DEF SameTerms, StatusStep, UseStep
<1> QED BY <1>1, TypeCorrect, PTL DEF Spec, StatusOnlyEnds

(***************************************************************************)
(* No capability is used more often than it may be.                        *)
(***************************************************************************)
THEOREM UsesCorrect == Spec => []UsesWithinLimit
<1>1. Init => UsesWithinLimit
  BY DEF Init, UsesWithinLimit, Stored
<1>2. ASSUME TypeOK, TypeOK', UsesWithinLimit, [Next]_vars PROVE UsesWithinLimit'
  <2> SUFFICES ASSUME NEW i \in Stored', utxo'[i].maxUses > 0
               PROVE  /\ utxo'[i].usedCount <= utxo'[i].maxUses
                      /\ utxo'[i].usedCount = utxo'[i].maxUses
                           => utxo'[i].status # "UTXO_UNSPENT"
    BY DEF UsesWithinLimit
  <2>1. utxo'[i].usedCount \in Nat /\ utxo'[i].maxUses \in Nat
    BY <1>2 DEF TypeOK, CapabilityUTXO
  <2>2. CASE i \in Stored
    <3>1. utxo'[i].maxUses = utxo[i].maxUses
      BY <1>2, <2>2, StepKeeps DEF SameTerms
    <3>2. utxo[i].usedCount \in Nat /\ utxo[i].maxUses \in Nat
      BY <1>2, <2>2 DEF TypeOK, CapabilityUTXO
    <3>3. CASE StatusStep(utxo'[i], utxo[i])
      BY <1>2, <2>2, <3>1, <3>3 DEF StatusStep, UsesWithinLimit
    <3>4. CASE UseStep(utxo'[i], utxo[i])
      BY <1>2, <2>2, <3>1, <3>2, <3>4 DEF UseStep, UsesWithinLimit, Exhausted
    <3> QED BY <1>2, <2>2, <3>3, <3>4, StepUses
  <2>3. CASE i \notin Stored
    <3>1. utxo'[i].usedCount = 0
      BY <1>2, <2>3, StepAdds DEF MintFacts, DelegateFacts
    <3> QED BY <2>1, <3>1
  <2> QED BY <2>2, <2>3
<1> QED BY <1>1, <1>2, TypeCorrect, PTL DEF Spec
-----------------------------------------------------------------------------
(* The inductive invariant behind attenuation: every stored record is well *)
(* formed and every entry of cap/d leads to a record no stronger than the  *)
(* one it starts from.                                                     *)
WellFormed(u) ==
  /\ u.scopes # {}
  /\ u.delegatable => u.maxDepth > 0
  /\ u.curDepth <= u.maxDepth

Weaker(d, u) ==
  /\ d.issuer = u.issuer /\ d.capType = u.capType
  /\ d.scopes \subseteq u.scopes
  /\ u.maxUses > 0 => d.maxUses \in 1..u.maxUses
  /\ u.expiresAt > 0 => d.expiresAt # 0 /\ d.expiresAt <= u.expiresAt
  /\ d.maxDepth = u.maxDepth

Attenuation ==
  /\ \A i \in Stored : WellFormed(utxo[i])
  /\ \A e \in derive : Weaker(utxo[e[2]], utxo[e[1]])

\* A step stores only well-formed records, and weaker ones below a parent.
LEMMA AttenuationStep ==
  ASSUME TypeOK, TypeOK', DeriveEntries, Attenuation, [Next]_vars
  PROVE  Attenuation'
<1>1. \A i \in Stored : i \in Stored' /\ SameTerms(utxo'[i], utxo[i])
  BY StepKeeps
<1>2. \A i \in Stored : WellFormed(utxo'[i])
  BY <1>1 DEF SameTerms, WellFormed, Attenuation
<1>3. \A e \in derive : Weaker(utxo'[e[2]], utxo'[e[1]])
  <2> SUFFICES ASSUME NEW e \in derive PROVE Weaker(utxo'[e[2]], utxo'[e[1]])
    OBVIOUS
  <2>1. Weaker(utxo[e[2]], utxo[e[1]]) /\ e[1] \in Stored /\ e[2] \in Stored
    BY DEF Attenuation, DeriveEntries
  <2>2. SameTerms(utxo'[e[2]], utxo[e[2]]) /\ SameTerms(utxo'[e[1]], utxo[e[1]])
    BY <1>1, <2>1
  <2> QED BY <2>1, <2>2 DEF SameTerms, Weaker
<1>4. CASE UNCHANGED derive /\ \A i \in Stored' \ Stored : MintFacts(utxo'[i])
  <2>1. ASSUME NEW i \in Stored' \ Stored PROVE WellFormed(utxo'[i])
    BY <1>4 DEF MintFacts, WellFormed, TypeOK, CapabilityUTXO
  <2> QED BY <1>2, <1>3, <1>4, <2>1 DEF Attenuation
<1>5. ASSUME NEW parent \in Stored, NEW id \in Ids \ Stored,
             derive' = derive \cup {<<parent, id>>},
             Stored' = Stored \cup {id},
             DelegateFacts(parent, utxo'[id])
      PROVE  Attenuation'
  <2>1. SameTerms(utxo'[parent], utxo[parent])
    BY <1>1
  <2>2. WellFormed(utxo[parent])
    BY DEF Attenuation
  <2>3. WellFormed(utxo'[id])
    BY <1>5, <2>2 DEF DelegateFacts, WellFormed
  <2>4. Weaker(utxo'[id], utxo'[parent])
    BY <1>5, <2>1 DEF DelegateFacts, Weaker, SameTerms
  <2> QED BY <1>2, <1>3, <1>5, <2>3, <2>4 DEF Attenuation
<1> QED BY <1>4, <1>5, StepAdds

\* The inductive invariant holds: every entry of cap/d attenuates.
THEOREM AttenuationInvariant == Spec => [](TypeOK /\ DeriveEntries /\ Attenuation)
<1>1. Init => DeriveEntries /\ Attenuation
  BY DEF Init, DeriveEntries, Attenuation, Stored
<1>2. TypeOK /\ TypeOK' /\ DeriveEntries /\ Attenuation /\ [Next]_vars
        => DeriveEntries' /\ Attenuation'
  BY DeriveEntriesStep, AttenuationStep
<1> QED BY <1>1, <1>2, TypeCorrect, PTL DEF Spec

(***************************************************************************)
(* A capability is no stronger than any ancestor, however far up: what     *)
(* Attenuation says of one entry of cap/d carries over to Reach, because   *)
(* the records no stronger than i form a closed set.                       *)
(***************************************************************************)
THEOREM AttenuationCorrect == Spec => []NoAmplification
<1>1. ASSUME TypeOK, DeriveEntries, Attenuation, UsesWithinLimit PROVE NoAmplification
  <2> SUFFICES ASSUME NEW i \in Stored, NEW j \in Reach({i}, Stored)
               PROVE  /\ utxo[j].issuer = utxo[i].issuer /\ utxo[j].capType = utxo[i].capType
                      /\ utxo[j].scopes # {} /\ utxo[j].scopes \subseteq utxo[i].scopes
                      /\ utxo[i].maxUses > 0 => /\ utxo[j].maxUses \in 1..utxo[i].maxUses
                                                /\ utxo[j].usedCount <= utxo[i].maxUses
                      /\ utxo[j].curDepth <= utxo[i].maxDepth
    BY DEF NoAmplification
  <2> DEFINE Below(k) ==
               /\ utxo[k].issuer = utxo[i].issuer /\ utxo[k].capType = utxo[i].capType
               /\ utxo[k].scopes \subseteq utxo[i].scopes
               /\ utxo[i].maxUses > 0 => utxo[k].maxUses \in 1..utxo[i].maxUses
               /\ utxo[k].maxDepth = utxo[i].maxDepth
             T == {k \in Stored : Below(k)}
  <2>1. Below(i)
    BY <1>1 DEF TypeOK, CapabilityUTXO
  <2>2. ASSUME NEW e \in derive, Below(e[1]) PROVE Below(e[2]) /\ e[2] \in Stored
    <3>1. Weaker(utxo[e[2]], utxo[e[1]]) /\ e[2] \in Stored /\ e[1] \in Stored
      BY <1>1 DEF Attenuation, DeriveEntries
    <3>2. utxo[i].maxUses \in Nat /\ utxo[e[1]].maxUses \in Nat /\ utxo[e[2]].maxUses \in Nat
      BY <1>1, <3>1 DEF TypeOK, CapabilityUTXO
    <3> QED BY <2>2, <3>1, <3>2 DEF Weaker
  <2>3. ClosedSet(T, {i}, Stored)
    <3> HIDE DEF Below
    <3> QED BY <2>1, <2>2 DEF ClosedSet
  <2>4. Below(j) /\ j \in Stored
    <3> HIDE DEF Below
    <3>1. T \in SUBSET Stored
      OBVIOUS
    <3> HIDE DEF T
    <3>2. j \in T
      BY <2>3, <3>1, ReachLeast
    <3> QED BY <3>2 DEF T
  <2>5. WellFormed(utxo[j])
    BY <1>1, <2>4 DEF Attenuation
  <2>6. ASSUME utxo[i].maxUses > 0 PROVE utxo[j].usedCount <= utxo[i].maxUses
    <3>1. /\ utxo[i].maxUses \in Nat /\ utxo[j].usedCount \in Nat
          /\ utxo[j].maxUses \in 1..utxo[i].maxUses
      BY <1>1, <2>4, <2>6 DEF TypeOK, CapabilityUTXO
    <3>2. utxo[j].usedCount <= utxo[j].maxUses
      BY <1>1, <2>4, <3>1 DEF UsesWithinLimit
    <3> QED BY <3>1, <3>2
  <2> QED BY <2>4, <2>5, <2>6 DEF WellFormed
<1> QED BY <1>1, AttenuationInvariant, UsesCorrect, PTL

\* Below what is below.
LEMMA ReachStep ==
  ASSUME DeriveEntries, NEW i \in Stored
  PROVE  /\ i \in Reach({i}, Stored) /\ Reach({i}, Stored) \subseteq Stored
         /\ \A e \in derive : e[1] \in Reach({i}, Stored) => e[2] \in Reach({i}, Stored)
<1>1. ClosedSet(Reach({i}, Stored), {i}, Stored)
  BY ReachClosed
<1>2. Reach({i}, Stored) \subseteq Stored
  BY DEF Reach
<1> QED BY <1>1, <1>2 DEF ClosedSet, DeriveEntries

(***************************************************************************)
(* However capabilities are delegated, expired, swept and spent, no use    *)
(* happens at or after the expiry of a capability the used one derives     *)
(* from, unless the used one is, or derives from, a capability below that  *)
(* one whose expires_at is negative (spend, delegate).                     *)
(***************************************************************************)
THEOREM ExpiryRespected == Spec => NoUsePastAncestorExpiry
<1> DEFINE Step ==
      \A j \in Stored : utxo'[j].usedCount # utxo[j].usedCount =>
        \A i \in {a \in Stored : utxo[a].expiresAt > 0 /\ j \in Reach({a}, Stored)} :
          \/ now < utxo[i].expiresAt
          \/ \E k \in Endless(i) : j \in Reach({k}, Stored)
<1>1. ASSUME TypeOK, DeriveEntries, Attenuation, [Next]_vars PROVE Step
  <2> SUFFICES ASSUME NEW j \in Stored, utxo'[j].usedCount # utxo[j].usedCount,
                      NEW i \in Stored, utxo[i].expiresAt > 0, j \in Reach({i}, Stored)
               PROVE  \/ now < utxo[i].expiresAt
                      \/ \E k \in Endless(i) : j \in Reach({k}, Stored)
    OBVIOUS
  <2> DEFINE bound(k) == utxo[k].expiresAt > 0 /\ utxo[k].expiresAt <= utxo[i].expiresAt
             escaped(k) == \E m \in Endless(i) : k \in Reach({m}, Stored)
             T == {k \in Reach({i}, Stored) : bound(k) \/ escaped(k)}
  <2>1. \A k \in Stored : utxo[k].expiresAt \in Int
    BY <1>1 DEF TypeOK, CapabilityUTXO
  <2>2. /\ i \in Reach({i}, Stored) /\ Reach({i}, Stored) \subseteq Stored
        /\ \A e \in derive : e[1] \in Reach({i}, Stored) => e[2] \in Reach({i}, Stored)
    BY <1>1, ReachStep
  <2>3. ASSUME NEW e \in derive, e[1] \in T PROVE e[2] \in T
    <3>1. Weaker(utxo[e[2]], utxo[e[1]]) /\ e[2] \in Stored /\ e[1] \in Stored
      BY <1>1 DEF Attenuation, DeriveEntries
    <3>2. e[2] \in Reach({i}, Stored)
      BY <2>2, <2>3
    <3>3. CASE escaped(e[1])
      <4>1. PICK m \in Endless(i) : e[1] \in Reach({m}, Stored)
        BY <3>3
      <4>2. m \in Stored
        BY <2>2 DEF Endless
      <4>3. e[2] \in Reach({m}, Stored)
        BY <1>1, <4>1, <4>2, ReachStep
      <4> QED BY <3>2, <4>3
    <3>4. CASE bound(e[1]) /\ utxo[e[2]].expiresAt < 0
      <4>1. e[2] \in Endless(i) /\ e[2] \in Reach({e[2]}, Stored)
        BY <1>1, <3>1, <3>2, <3>4, ReachStep DEF Endless
      <4> QED BY <3>2, <4>1
    <3>5. CASE bound(e[1]) /\ ~(utxo[e[2]].expiresAt < 0)
      <4>1. bound(e[2])
        BY <2>1, <3>1, <3>5 DEF Weaker
      <4> QED BY <3>2, <4>1
    <3> QED BY <2>3, <3>3, <3>4, <3>5
  <2>4. ClosedSet(T, {i}, Stored)
    <3>1. bound(i)
      BY <2>1
    <3> QED BY <2>2, <2>3, <3>1 DEF ClosedSet
  <2>5. j \in T
    <3>1. T \in SUBSET Stored
      BY <2>2
    <3> HIDE DEF T
    <3> QED BY <2>4, <3>1, ReachLeast
  <2>6. CASE escaped(j)
    BY <2>6
  <2>7. CASE bound(j)
    <3>1. UseStep(utxo'[j], utxo[j])
      BY <1>1, StepUses DEF StatusStep
    <3>2. now < utxo[j].expiresAt
      BY <1>1, <2>1, <2>7, <3>1 DEF UseStep, Expired, TypeOK
    <3> QED BY <1>1, <2>1, <2>7, <3>2 DEF TypeOK
  <2> QED BY <2>5, <2>6, <2>7
<1>2. TypeOK /\ DeriveEntries /\ Attenuation /\ [Next]_vars => [Step]_vars
  BY <1>1
<1> QED BY <1>2, AttenuationInvariant, PTL DEF Spec, NoUsePastAncestorExpiry

(***************************************************************************)
(* The end of a block leaves nothing usable that is due.                   *)
(***************************************************************************)
THEOREM SweepCorrect == Spec => SweepIsComplete
<1> DEFINE Step == EndBlock => \A i \in Stored' :
       utxo'[i].status = "UTXO_UNSPENT" /\ utxo'[i].expiresAt # 0
         => utxo'[i].expiresAt > now
<1>1. ASSUME TypeOK, DeriveEntries, EndBlock, NEW i \in Stored',
             utxo'[i].status = "UTXO_UNSPENT", utxo'[i].expiresAt # 0
      PROVE  utxo'[i].expiresAt > now
  <2> DEFINE C == Cascade(Due(now))
  <2>1. /\ Stored' = Stored
        /\ \A k \in Stored : utxo'[k] = IF k \in C THEN [utxo[k] EXCEPT !.status = "UTXO_EXPIRED"]
                                                   ELSE utxo[k]
    BY <1>1, WithStatusType, StatusInStatuses DEF EndBlock, ExpireAtTime
  <2>2. utxo[i] \in CapabilityUTXO
    BY <1>1, <2>1 DEF TypeOK
  <2>3. i \notin C
    BY <1>1, <2>1, <2>2 DEF CapabilityUTXO
  <2>4. Due(now) \subseteq C
    BY <1>1, DueLive, ReachClosed DEF Cascade, ClosedSet
  <2>5. i \in Live /\ i \notin Due(now) /\ utxo'[i] = utxo[i]
    BY <1>1, <2>1, <2>3, <2>4 DEF Live
  <2> QED BY <1>1, <2>2, <2>5 DEF Due, TypeOK, CapabilityUTXO
<1>2. TypeOK /\ DeriveEntries /\ [Next]_vars => [Step]_vars
  BY <1>1
<1> QED BY <1>2, AttenuationInvariant, PTL DEF Spec, SweepIsComplete

\* After a cascade, a child of a capability in the cascade is not usable.
LEMMA CascadeCovers ==
  ASSUME TypeOK, DeriveEntries, NEW roots \in SUBSET Stored, NEW st \in Statuses,
         st # "UTXO_UNSPENT", utxo' = WithStatus(Cascade(roots), st),
         NEW e \in derive, utxo'[e[1]].status # utxo[e[1]].status
  PROVE  utxo'[e[2]].status # "UTXO_UNSPENT"
<1> DEFINE C == Cascade(roots)
<1>1. \A k \in Stored : utxo'[k] = IF k \in C THEN [utxo[k] EXCEPT !.status = st]
                                              ELSE utxo[k]
  BY WithStatusType
<1>2. e[1] \in Stored /\ e[2] \in Stored
  BY DEF DeriveEntries
<1>3. e[1] \in C
  BY <1>1, <1>2
<1>4. e[2] \in Live => e[2] \in C
  BY <1>3, ReachClosed DEF Cascade, ClosedSet
<1>5. utxo[e[2]] \in CapabilityUTXO
  BY <1>2 DEF TypeOK
<1>6. CASE e[2] \in C
  BY <1>1, <1>2, <1>5, <1>6 DEF CapabilityUTXO
<1>7. CASE e[2] \notin C
  BY <1>1, <1>2, <1>4, <1>7 DEF Live
<1> QED BY <1>6, <1>7

(***************************************************************************)
(* Revocation and expiry leave no usable direct child behind.              *)
(***************************************************************************)
THEOREM NoChildStranded == Spec => NoStrandedChild
<1> DEFINE Step == \A e \in derive :
       /\ utxo'[e[1]].status = "UTXO_REVOKED" /\ utxo[e[1]].status # "UTXO_REVOKED"
            => utxo'[e[2]].status # "UTXO_UNSPENT"
       /\ EndBlock /\ utxo'[e[1]].status # utxo[e[1]].status
            => utxo'[e[2]].status # "UTXO_UNSPENT"
<1>1. ASSUME TypeOK, DeriveEntries, EndBlock, NEW e \in derive,
             utxo'[e[1]].status # utxo[e[1]].status
      PROVE  utxo'[e[2]].status # "UTXO_UNSPENT"
  BY <1>1, CascadeCovers, DueLive, StatusInStatuses DEF EndBlock, ExpireAtTime
<1>2. ASSUME TypeOK, DeriveEntries, [Next]_vars, NEW e \in derive,
             utxo'[e[1]].status = "UTXO_REVOKED", utxo[e[1]].status # "UTXO_REVOKED"
      PROVE  utxo'[e[2]].status # "UTXO_UNSPENT"
  <2>1. e[1] \in Stored /\ e[2] \in Stored
    BY <1>2 DEF DeriveEntries
  <2>2. \/ \E s \in Actors, id \in Stored : Revoke(s, id)
        \/ BatchExpire \/ EndBlock
        \/ \E s \in Actors, p \in MintPayload : Mint(s, p)
        \/ \E s \in Actors, id \in Stored, p \in DelegatePayload : Delegate(s, id, p)
        \/ \E s \in Actors, id \in Stored : Spend(s, id) \/ SpendExpired(s, id)
    BY <1>2 DEF Next, vars
  <2>3. ASSUME NEW s \in Actors, NEW id \in Stored, Revoke(s, id)
        PROVE  utxo'[e[2]].status # "UTXO_UNSPENT"
    BY <1>2, <2>3, CascadeCovers, StatusInStatuses DEF Revoke
  <2>4. CASE BatchExpire \/ EndBlock
    BY <1>2, <2>4, CascadeCovers, DueLive, StatusInStatuses
    DEF BatchExpire, EndBlock, ExpireAtTime
  <2>5. ASSUME NEW s \in Actors, NEW p \in MintPayload, Mint(s, p) PROVE FALSE
    <3>1. PICK id \in RootIds \ Stored : \E r \in CapabilityUTXO : utxo' = saveUTXO(id, r)
      BY <1>2, <2>5, MintRecord
    <3> QED BY <1>2, <2>1, <3>1, SaveType DEF Ids
  <2>6. ASSUME NEW s \in Actors, NEW id \in Stored, NEW p \in DelegatePayload,
               Delegate(s, id, p)
        PROVE FALSE
    <3>1. PICK k \in ChildIds \ Stored : \E r \in CapabilityUTXO : utxo' = saveUTXO(k, r)
      BY <1>2, <2>6, DelegateRecord
    <3> QED BY <1>2, <2>1, <3>1, SaveType DEF Ids
  <2>7. ASSUME NEW s \in Actors, NEW id \in Stored, Spend(s, id) \/ SpendExpired(s, id)
        PROVE FALSE
    <3> DEFINE u == utxo[id]
               st == IF Exhausted(u, u.usedCount + 1) THEN "UTXO_SPENT" ELSE u.status
               n == u.usedCount + 1
               r1 == [u EXCEPT !.usedCount = n, !.status = st]
               r2 == [u EXCEPT !.status = "UTXO_EXPIRED"]
    <3>1. u \in CapabilityUTXO /\ id \in Ids
      BY <1>2 DEF TypeOK
    <3>2. u.status = "UTXO_UNSPENT" /\ (utxo' = saveUTXO(id, r1) \/ utxo' = saveUTXO(id, r2))
      BY <2>7 DEF Spend, SpendExpired
    <3>3. st # "UTXO_REVOKED" /\ st \in Statuses
      BY <3>2 DEF Statuses
    <3> HIDE DEF st
    <3>4. /\ r1.status # "UTXO_REVOKED" /\ r2.status # "UTXO_REVOKED"
          /\ r1 \in CapabilityUTXO /\ r2 \in CapabilityUTXO
      <4>1. n \in Nat /\ "UTXO_EXPIRED" \in Statuses
        BY <3>1 DEF CapabilityUTXO, Statuses
      <4> HIDE DEF n
      <4>2. r1 \in CapabilityUTXO
        BY <3>1, <3>3, <4>1 DEF CapabilityUTXO
      <4>4. r1.status = st
        BY <3>1 DEF CapabilityUTXO
      <4>3. r2 \in CapabilityUTXO /\ r2.status = "UTXO_EXPIRED"
        BY <3>1, <4>1 DEF CapabilityUTXO
      <4> QED BY <3>3, <4>2, <4>3, <4>4
    <3> HIDE DEF r1, r2, u
    <3>5. \/ utxo'[id] = r1 /\ \A i \in Stored : i # id => utxo'[i] = utxo[i]
          \/ utxo'[id] = r2 /\ \A i \in Stored : i # id => utxo'[i] = utxo[i]
      BY <1>2, <3>1, <3>2, <3>4, SaveType
    <3> QED BY <1>2, <2>1, <3>4, <3>5
  <2> QED BY <2>2, <2>3, <2>4, <2>5, <2>6, <2>7
<1>3. TypeOK /\ DeriveEntries /\ [Next]_vars => [Step]_vars
  BY <1>1, <1>2
<1> QED BY <1>3, AttenuationInvariant, PTL DEF Spec, NoStrandedChild

-----------------------------------------------------------------------------
(***************************************************************************)
(* CapCascade: the loops of cascade and expireAtTime, whatever the number  *)
(* of capabilities, the shape of cap/d and the order of the keys.          *)
(***************************************************************************)
\* A set of numbers that holds the successors of all it holds, and zero, is Nat:
\* otherwise there would be a smallest number outside.
LEMMA NatSetInduction ==
  ASSUME NEW T \in SUBSET Nat, 0 \in T, \A n \in T : n + 1 \in T
  PROVE  T = Nat
<1> DEFINE Out == Nat \ T
<1>1. SUFFICES ASSUME Out # {} PROVE FALSE
  OBVIOUS
<1>2. PICK n \in Out : \A m \in Out : <<m, n>> \notin OpToRel(<, Nat)
  <2>1. Out \subseteq Nat
    OBVIOUS
  <2> HIDE DEF Out
  <2> QED BY <1>1, <2>1, NatLessThanWellFounded, WFMin
<1>3. n \in Nat /\ n # 0 /\ n - 1 \in Nat
  OBVIOUS
<1>4. n - 1 \in T
  <2>1. <<n - 1, n>> \in OpToRel(<, Nat)
    BY <1>3 DEF OpToRel
  <2> QED BY <1>2, <1>3, <2>1
<1> QED BY <1>3, <1>4


\* g holds the stores the loop of one cascade call goes through.
WalkRun(g, below, status, st, p, order) ==
  g[0] = st /\ \A k \in 1..Len(order) : g[k] = Visit(below, status, p, g[k - 1], order[k])

\* g holds the calls nested at most n deep.
Deeper(below, status, order) ==
  [x \in Stores \X Stored |-> Walk(below, status, x[1], x[2], order)]

DescendRun(g, status, order) ==
  /\ g[0] = [x \in Stores \X Stored |-> x[1]]
  /\ \A n \in 1..Len(order) : g[n] = Deeper(g[n - 1], status, order)

\* g holds the stores the loop of expireAtTime goes through.
SweepRun(g, st, t, order) ==
  g[0] = st /\ \A k \in 1..Len(order) : g[k] = Sweep(st, t, g[k - 1], order[k], order)

\* The loop of a cascade call is well defined.
LEMMA WalkRuns ==
  ASSUME NEW below, NEW status, NEW st, NEW p, NEW order, Len(order) \in Nat
  PROVE  \E g : WalkRun(g, below, status, st, p, order) /\ Walk(below, status, st, p, order) = g[Len(order)]
<1> DEFINE F(g, m) == [k \in 0..m |-> IF k = 0 THEN st ELSE Visit(below, status, p, g[k - 1], order[k])]
           T == {m \in Nat : \E g : g = F(g, m)}
           run == CHOOSE g : g = F(g, Len(order))
<1>1. 0 \in T
  <2> DEFINE g == [k \in 0..0 |-> st]
  <2>1. g = F(g, 0)
    OBVIOUS
  <2> QED BY <2>1
<1>2. ASSUME NEW m \in T PROVE m + 1 \in T
  <2>1. PICK g : g = F(g, m)
    OBVIOUS
  <2> DEFINE h == [k \in 0..(m + 1) |-> IF k = m + 1 THEN Visit(below, status, p, g[m], order[k]) ELSE g[k]]
  <2>2. m \in Nat
    OBVIOUS
  <2>3. \A k \in 0..m : g[k] = IF k = 0 THEN st ELSE Visit(below, status, p, g[k - 1], order[k])
    BY <2>1
  <2> HIDE DEF T
  <2>4. ASSUME NEW k \in 0..(m + 1)
        PROVE  h[k] = IF k = 0 THEN st ELSE Visit(below, status, p, h[k - 1], order[k])
    <3>1. CASE k = m + 1
      <4>1. k # 0 /\ k - 1 = m /\ m \in 0..(m + 1) /\ m # m + 1
        BY <2>2, <3>1
      <4>2. h[k - 1] = g[m] /\ h[k] = Visit(below, status, p, g[m], order[k])
        BY <3>1, <4>1
      <4> HIDE DEF h
      <4> QED BY <4>1, <4>2
    <3>2. CASE k # m + 1
      <4>1. k \in 0..m /\ (k # 0 => k - 1 \in 0..m /\ k - 1 \in 0..(m + 1) /\ k - 1 # m + 1)
        BY <2>2, <3>2
      <4>2. h[k] = g[k] /\ (k # 0 => h[k - 1] = g[k - 1])
        BY <3>2, <4>1
      <4> HIDE DEF h
      <4> QED BY <2>3, <4>1, <4>2
    <3> QED BY <3>1, <3>2
  <2>5. h = F(h, m + 1)
    BY <2>4
  <2> HIDE DEF h, F
  <2> QED BY <2>2, <2>5 DEF T
<1>3. T = Nat
  <2>1. T \in SUBSET Nat
    OBVIOUS
  <2> HIDE DEF T
  <2> QED BY <1>1, <1>2, <2>1, NatSetInduction
<1>4. run = F(run, Len(order))
  <2>1. \E g : g = F(g, Len(order))
    BY <1>3
  <2> HIDE DEF F
  <2> QED BY <2>1
<1>5. Walk(below, status, st, p, order) = run[Len(order)]
  BY DEF Walk, run, F
<1> HIDE DEF run
<1>6. WalkRun(run, below, status, st, p, order)
  BY <1>4 DEF WalkRun
<1> QED BY <1>5, <1>6

\* So is the recursion.
LEMMA DescendRuns ==
  ASSUME NEW status, NEW order, Len(order) \in Nat
  PROVE  \E g : DescendRun(g, status, order) /\ Descend(status, order) = g
<1> DEFINE F(g, m) == [k \in 0..m |-> IF k = 0 THEN [x \in Stores \X Stored |-> x[1]] ELSE Deeper(g[k - 1], status, order)]
           T == {m \in Nat : \E g : g = F(g, m)}
           run == CHOOSE g : g = F(g, Len(order))
<1>1. 0 \in T
  <2> DEFINE g == [k \in 0..0 |-> [x \in Stores \X Stored |-> x[1]]]
  <2>1. g = F(g, 0)
    OBVIOUS
  <2> QED BY <2>1
<1>2. ASSUME NEW m \in T PROVE m + 1 \in T
  <2>1. PICK g : g = F(g, m)
    OBVIOUS
  <2> DEFINE h == [k \in 0..(m + 1) |-> IF k = m + 1 THEN Deeper(g[m], status, order) ELSE g[k]]
  <2>2. m \in Nat
    OBVIOUS
  <2>3. \A k \in 0..m : g[k] = IF k = 0 THEN [x \in Stores \X Stored |-> x[1]] ELSE Deeper(g[k - 1], status, order)
    BY <2>1
  <2> HIDE DEF T
  <2>4. ASSUME NEW k \in 0..(m + 1)
        PROVE  h[k] = IF k = 0 THEN [x \in Stores \X Stored |-> x[1]] ELSE Deeper(h[k - 1], status, order)
    <3>1. CASE k = m + 1
      <4>1. k # 0 /\ k - 1 = m /\ m \in 0..(m + 1) /\ m # m + 1
        BY <2>2, <3>1
      <4>2. h[k - 1] = g[m] /\ h[k] = Deeper(g[m], status, order)
        BY <3>1, <4>1
      <4> HIDE DEF h
      <4> QED BY <4>1, <4>2
    <3>2. CASE k # m + 1
      <4>1. k \in 0..m /\ (k # 0 => k - 1 \in 0..m /\ k - 1 \in 0..(m + 1) /\ k - 1 # m + 1)
        BY <2>2, <3>2
      <4>2. h[k] = g[k] /\ (k # 0 => h[k - 1] = g[k - 1])
        BY <3>2, <4>1
      <4> HIDE DEF h
      <4> QED BY <2>3, <4>1, <4>2
    <3> QED BY <3>1, <3>2
  <2>5. h = F(h, m + 1)
    BY <2>4
  <2> HIDE DEF h, F
  <2> QED BY <2>2, <2>5 DEF T
<1>3. T = Nat
  <2>1. T \in SUBSET Nat
    OBVIOUS
  <2> HIDE DEF T
  <2> QED BY <1>1, <1>2, <2>1, NatSetInduction
<1>4. run = F(run, Len(order))
  <2>1. \E g : g = F(g, Len(order))
    BY <1>3
  <2> HIDE DEF F
  <2> QED BY <2>1
<1>5. Descend(status, order) = run
  BY ZenonT(40) DEF Descend, Deeper, run, F
<1> HIDE DEF run
<1>6. DescendRun(run, status, order)
  BY <1>4 DEF DescendRun
<1> QED BY <1>5, <1>6

\* So is the loop of expireAtTime.
LEMMA SweepRuns ==
  ASSUME NEW st, NEW t, NEW order, Len(order) \in Nat
  PROVE  \E g : SweepRun(g, st, t, order) /\ expireAtTime(st, t, order) = g[Len(order)]
<1> DEFINE F(g, m) == [k \in 0..m |-> IF k = 0 THEN st ELSE Sweep(st, t, g[k - 1], order[k], order)]
           T == {m \in Nat : \E g : g = F(g, m)}
           run == CHOOSE g : g = F(g, Len(order))
<1>1. 0 \in T
  <2> DEFINE g == [k \in 0..0 |-> st]
  <2>1. g = F(g, 0)
    OBVIOUS
  <2> QED BY <2>1
<1>2. ASSUME NEW m \in T PROVE m + 1 \in T
  <2>1. PICK g : g = F(g, m)
    OBVIOUS
  <2> DEFINE h == [k \in 0..(m + 1) |-> IF k = m + 1 THEN Sweep(st, t, g[m], order[k], order) ELSE g[k]]
  <2>2. m \in Nat
    OBVIOUS
  <2>3. \A k \in 0..m : g[k] = IF k = 0 THEN st ELSE Sweep(st, t, g[k - 1], order[k], order)
    BY <2>1
  <2> HIDE DEF T
  <2>4. ASSUME NEW k \in 0..(m + 1)
        PROVE  h[k] = IF k = 0 THEN st ELSE Sweep(st, t, h[k - 1], order[k], order)
    <3>1. CASE k = m + 1
      <4>1. k # 0 /\ k - 1 = m /\ m \in 0..(m + 1) /\ m # m + 1
        BY <2>2, <3>1
      <4>2. h[k - 1] = g[m] /\ h[k] = Sweep(st, t, g[m], order[k], order)
        BY <3>1, <4>1
      <4> HIDE DEF h
      <4> QED BY <4>1, <4>2
    <3>2. CASE k # m + 1
      <4>1. k \in 0..m /\ (k # 0 => k - 1 \in 0..m /\ k - 1 \in 0..(m + 1) /\ k - 1 # m + 1)
        BY <2>2, <3>2
      <4>2. h[k] = g[k] /\ (k # 0 => h[k - 1] = g[k - 1])
        BY <3>2, <4>1
      <4> HIDE DEF h
      <4> QED BY <2>3, <4>1, <4>2
    <3> QED BY <3>1, <3>2
  <2>5. h = F(h, m + 1)
    BY <2>4
  <2> HIDE DEF h, F
  <2> QED BY <2>2, <2>5 DEF T
<1>3. T = Nat
  <2>1. T \in SUBSET Nat
    OBVIOUS
  <2> HIDE DEF T
  <2> QED BY <1>1, <1>2, <2>1, NatSetInduction
<1>4. run = F(run, Len(order))
  <2>1. \E g : g = F(g, Len(order))
    BY <1>3
  <2> HIDE DEF F
  <2> QED BY <2>1
<1>5. expireAtTime(st, t, order) = run[Len(order)]
  BY DEF expireAtTime, run, F
<1> HIDE DEF run
<1>6. SweepRun(run, st, t, order)
  BY <1>4 DEF SweepRun
<1> QED BY <1>5, <1>6

-----------------------------------------------------------------------------
\* The capabilities a store has as UNSPENT.
White(st) == {i \in Stored : st[i] = "UTXO_UNSPENT"}

\* s2 is st with some of its UNSPENT capabilities given the status.
Marks(st, s2, status) ==
  /\ s2 \in Stores
  /\ \A i \in Stored : s2[i] = st[i] \/ (st[i] = "UTXO_UNSPENT" /\ s2[i] = status)

\* What was marked between st and s2 has no UNSPENT child left.
Done(st, s2) ==
  \A i \in Stored : st[i] = "UTXO_UNSPENT" /\ s2[i] # "UTXO_UNSPENT" =>
    \A c \in Stored : <<i, c>> \in derive => s2[c] # "UTXO_UNSPENT"

\* Only what is below the roots was marked.
Within(st, s2, roots) ==
  \A T \in SUBSET Stored : ClosedSet(T, roots, White(st)) =>
    \A i \in Stored : s2[i] # st[i] => i \in T

\* A loop that started with st and has come to s.
Progress(st, s, roots, status) ==
  s \in Stores /\ Marks(st, s, status) /\ Done(st, s) /\ Within(st, s, roots)

\* What a cascade below p has done when it returns.
Post(st, s2, p, status) ==
  /\ Marks(st, s2, status) /\ Done(st, s2) /\ Within(st, s2, {p})
  /\ \A c \in Stored : <<p, c>> \in derive => s2[c] # "UTXO_UNSPENT"

\* An order of all keys.
Order(order) ==
  /\ IsFiniteSet(Stored) /\ Len(order) \in Nat /\ Cardinality(Stored) <= Len(order)
  /\ \A k \in 1..Len(order) : order[k] \in Stored
  /\ \A i \in Stored : \E k \in 1..Len(order) : order[k] = i

\* The statuses a cascade gives.
Ends(status) == status \in Statuses /\ status # "UTXO_UNSPENT"

\* Cascades with room for as many nested calls as st has UNSPENT capabilities.
Works(below, n, status) ==
  \A st \in Stores, p \in Stored :
    Cardinality(White(st)) <= n => Post(st, below[<<st, p>>], p, status)

\* c is below the roots.
Below(st, roots, c) ==
  \A T \in SUBSET Stored : ClosedSet(T, roots, White(st)) => c \in T

\* What is marked stays so.
StaysMarked(a, b) ==
  \A i \in Stored : a[i] # "UTXO_UNSPENT" => b[i] # "UTXO_UNSPENT"

\* A loop that has come from st to a gives c the status, and the cascade below c
\* leaves b.
Entered(status, st, a, b, roots, c) ==
  /\ Ends(status) /\ st \in Stores /\ c \in Stored
  /\ Progress(st, a, roots, status) /\ st[c] = "UTXO_UNSPENT" /\ Below(st, roots, c)
  /\ Post([a EXCEPT ![c] = status], b, c, status)

\* One more key visited.
LEMMA VisitKeeps ==
  \A status, st, a, b, roots, c : Entered(status, st, a, b, roots, c) =>
    Progress(st, b, roots, status) /\ b[c] = status /\ StaysMarked(a, b)
<1> SUFFICES ASSUME NEW status, NEW st, NEW a, NEW b, NEW roots, NEW c,
                    Entered(status, st, a, b, roots, c)
             PROVE  Progress(st, b, roots, status) /\ b[c] = status /\ StaysMarked(a, b)
  OBVIOUS
<1> DEFINE a1 == [a EXCEPT ![c] = status]
<1>0. /\ Ends(status) /\ st \in Stores /\ c \in Stored
      /\ Progress(st, a, roots, status) /\ st[c] = "UTXO_UNSPENT" /\ Below(st, roots, c)
      /\ Post(a1, b, c, status)
  BY DEF Entered
<1> USE <1>0
<1> USE DEF Progress
<1>1. a1 \in Stores /\ a1[c] = status /\ \A i \in Stored : i # c => a1[i] = a[i]
  BY DEF Stores, Ends
<1> HIDE DEF a1
<1>2. Marks(a1, b, status) /\ Done(a1, b) /\ Within(a1, b, {c})
      /\ \A d \in Stored : <<c, d>> \in derive => b[d] # "UTXO_UNSPENT"
  BY DEF Post
<1>3. b[c] = status
  BY <1>1, <1>2 DEF Marks, Ends
<1>4. Marks(st, b, status)
  BY <1>1, <1>2, <1>3 DEF Marks
<1>5. StaysMarked(a, b)
  BY <1>1, <1>2, <1>3 DEF Marks, Ends, StaysMarked
<1>6. Done(st, b)
  <2> SUFFICES ASSUME NEW i \in Stored, st[i] = "UTXO_UNSPENT", b[i] # "UTXO_UNSPENT",
                      NEW d \in Stored, <<i, d>> \in derive
               PROVE  b[d] # "UTXO_UNSPENT"
    BY DEF Done
  <2>1. CASE i = c
    BY <1>2, <2>1
  <2>2. CASE a[i] # "UTXO_UNSPENT"
    BY <1>5, <2>2 DEF Done, StaysMarked
  <2>3. CASE i # c /\ a[i] = "UTXO_UNSPENT"
    BY <1>1, <1>2, <2>3 DEF Done
  <2> QED BY <2>1, <2>2, <2>3
<1>7. Within(st, b, roots)
  <2> SUFFICES ASSUME NEW T \in SUBSET Stored, ClosedSet(T, roots, White(st)),
                      NEW i \in Stored, b[i] # st[i]
               PROVE  i \in T
    BY DEF Within
  <2>1. c \in T
    BY DEF Below
  <2>2. ClosedSet(T, {c}, White(a1))
    <3>1. White(a1) \subseteq White(st)
      BY <1>1 DEF White, Marks, Ends
    <3> QED BY <2>1, <3>1 DEF ClosedSet
  <2>3. CASE i = c
    BY <2>1, <2>3
  <2>4. CASE a[i] # st[i]
    BY <2>4 DEF Within
  <2>5. CASE i # c /\ a[i] = st[i]
    BY <1>1, <1>2, <2>2, <2>5 DEF Within
  <2> QED BY <2>3, <2>4, <2>5
<1> QED BY <1>2, <1>3, <1>4, <1>5, <1>6, <1>7 DEF Marks

\* The UNSPENT capabilities are finitely many, and fewer once c is marked.
LEMMA FewerWhite ==
  ASSUME IsFiniteSet(Stored), NEW status, Ends(status), NEW st \in Stores, NEW a \in Stores,
         Marks(st, a, status), NEW c \in Stored
  PROVE  LET a1 == [a EXCEPT ![c] = status] IN
         /\ a1 \in Stores
         /\ Cardinality(White(st)) \in Nat /\ Cardinality(White(a1)) \in Nat
         /\ Cardinality(White(st)) <= Cardinality(Stored)
         /\ Cardinality(White(a1)) <= Cardinality(White(st))
         /\ a[c] = "UTXO_UNSPENT" => Cardinality(White(a1)) < Cardinality(White(st))
<1> DEFINE a1 == [a EXCEPT ![c] = status]
<1>1. a1 \in Stores /\ a1[c] = status /\ \A i \in Stored : i # c => a1[i] = a[i]
  BY DEF Stores, Ends
<1> HIDE DEF a1
<1>2. White(a1) \subseteq White(st) /\ White(st) \subseteq Stored /\ c \notin White(a1)
  BY <1>1 DEF White, Marks, Ends
<1>3. IsFiniteSet(White(st)) /\ Cardinality(White(st)) <= Cardinality(Stored)
  BY <1>2, FS_Subset
<1>4. IsFiniteSet(White(a1)) /\ Cardinality(White(a1)) <= Cardinality(White(st))
  BY <1>2, <1>3, FS_Subset
<1>5. Cardinality(White(st)) \in Nat /\ Cardinality(White(a1)) \in Nat
  BY <1>3, <1>4, FS_CardinalityType
<1>6. ASSUME a[c] = "UTXO_UNSPENT" PROVE Cardinality(White(a1)) < Cardinality(White(st))
  <2>1. c \in White(st)
    BY <1>6 DEF White, Marks, Ends
  <2>2. Cardinality(White(a1)) # Cardinality(White(st))
    BY <1>2, <1>3, <2>1, FS_Subset
  <2> QED BY <1>4, <1>5, <2>2
<1> QED BY <1>1, <1>3, <1>4, <1>5, <1>6 DEF a1

\* A cascade works if the calls it makes do.
LEMMA WalkWorks ==
  ASSUME NEW order, Order(order), NEW status, Ends(status), NEW n \in Nat,
         NEW below, Works(below, n, status),
         NEW st \in Stores, NEW p \in Stored, Cardinality(White(st)) <= n + 1
  PROVE  Post(st, Walk(below, status, st, p, order), p, status)
<1>1. PICK g : /\ WalkRun(g, below, status, st, p, order)
               /\ Walk(below, status, st, p, order) = g[Len(order)]
  BY WalkRuns DEF Order
<1> DEFINE L == Len(order)
           Inv(k) == /\ Progress(st, g[k], {p}, status)
                     /\ \A j \in 1..k : <<p, order[j]>> \in derive =>
                                          g[k][order[j]] # "UTXO_UNSPENT"
           T == {k \in Nat : k <= L => Inv(k)}
<1>2. L \in Nat /\ IsFiniteSet(Stored)
  BY DEF Order
<1>3. g[0] = st /\ \A k \in 1..L : g[k] = Visit(below, status, p, g[k - 1], order[k])
  BY <1>1 DEF WalkRun
<1>4. 0 \in T
  BY <1>3 DEF Progress, Marks, Done, Within
<1>5. ASSUME NEW k \in T PROVE k + 1 \in T
  <2> SUFFICES ASSUME k + 1 <= L PROVE Inv(k + 1)
    OBVIOUS
  <2>1. k \in Nat
    OBVIOUS
  <2>2. k <= L /\ k + 1 \in 1..L /\ (k + 1) - 1 = k
    <3> HIDE DEF T, L
    <3> QED BY <1>2, <2>1
  <2>3. Inv(k)
    BY <2>2
  <2> HIDE DEF T
  <2> DEFINE a == g[k]
             b == g[k + 1]
             c == order[k + 1]
  <2>4. b = Visit(below, status, p, a, c) /\ c \in Stored
    BY <1>3, <2>2 DEF Order
  <2>5. \A j \in 1..(k + 1) : j \in 1..k \/ order[j] = c
    BY <2>1
  <2>6. Progress(st, a, {p}, status) /\ a \in Stores /\ Marks(st, a, status)
    BY <2>3 DEF Progress
  <2>7. \A j \in 1..k : order[j] \in Stored
    BY <1>2, <2>1, <2>2 DEF Order
  <2>8. \A j \in 1..k : <<p, order[j]>> \in derive => a[order[j]] # "UTXO_UNSPENT"
    BY <2>3
  <2> HIDE DEF a, b, c
  <2>9. CASE <<p, c>> \in derive /\ a[c] = "UTXO_UNSPENT"
    <3> DEFINE a1 == [a EXCEPT ![c] = status]
    <3>1. b = below[<<a1, c>>]
      BY <2>4, <2>9 DEF Visit
    <3>2. a1 \in Stores /\ Cardinality(White(a1)) < Cardinality(White(st))
          /\ Cardinality(White(a1)) \in Nat /\ Cardinality(White(st)) \in Nat
      BY <1>2, <2>4, <2>6, <2>9, FewerWhite
    <3> HIDE DEF a1
    <3>3. Cardinality(White(a1)) <= n
      BY <3>2
    <3>4. Post(a1, b, c, status)
      BY <2>4, <3>1, <3>2, <3>3 DEF Works
    <3>5. st[c] = "UTXO_UNSPENT"
      BY <2>4, <2>6, <2>9 DEF Marks, Ends
    <3>6. Below(st, {p}, c)
      <4> SUFFICES ASSUME NEW S \in SUBSET Stored, ClosedSet(S, {p}, White(st)) PROVE c \in S
        BY DEF Below
      <4>1. c \in White(st) /\ p \in S
        BY <2>4, <3>5 DEF White, ClosedSet
      <4> QED BY <2>9, <4>1 DEF ClosedSet
    <3>7. a1 = [a EXCEPT ![c] = status]
      BY DEF a1
    <3> DEFINE roots == {p}
    <3> HIDE DEF roots
    <3>8. Progress(st, b, roots, status) /\ b[c] = status /\ StaysMarked(a, b)
      <4>1. Progress(st, a, roots, status) /\ Below(st, roots, c)
        BY <2>6, <3>6 DEF roots
      <4>2. Entered(status, st, a, b, roots, c)
        BY <2>4, <3>4, <3>5, <3>7, <4>1 DEF Entered
      <4> QED BY <4>2, VisitKeeps
    <3>9. \A j \in 1..(k + 1) : <<p, order[j]>> \in derive => b[order[j]] # "UTXO_UNSPENT"
      BY <2>5, <2>7, <2>8, <3>8 DEF Ends, StaysMarked
    <3> QED BY <3>8, <3>9 DEF b, roots
  <2>10. CASE ~(<<p, c>> \in derive /\ a[c] = "UTXO_UNSPENT")
    <3>1. b = a
      BY <2>4, <2>10 DEF Visit
    <3>2. \A j \in 1..(k + 1) : <<p, order[j]>> \in derive => b[order[j]] # "UTXO_UNSPENT"
      BY <2>5, <2>8, <2>10, <3>1
    <3> QED BY <2>6, <3>1, <3>2 DEF b
  <2> QED BY <2>9, <2>10
<1>6. T = Nat
  <2>1. T \in SUBSET Nat
    OBVIOUS
  <2> HIDE DEF T
  <2> QED BY <1>4, <1>5, <2>1, NatSetInduction
<1>7. Inv(L)
  <2>1. L \in T
    BY <1>2, <1>6
  <2>2. T \subseteq {k \in Nat : k <= L => Inv(k)}
    OBVIOUS
  <2>3. L <= L
    BY <1>2
  <2> HIDE DEF T, Inv
  <2> QED BY <2>1, <2>2, <2>3
<1>8. \A c \in Stored : <<p, c>> \in derive => g[L][c] # "UTXO_UNSPENT"
  BY <1>7 DEF Order
<1> QED BY <1>1, <1>7, <1>8 DEF Post, Progress

(***************************************************************************)
(* Whatever the order of the keys, cascade marks exactly what it should.   *)
(***************************************************************************)
LEMMA CascadeWorks ==
  ASSUME NEW order, Order(order), NEW status, Ends(status), NEW st \in Stores, NEW p \in Stored
  PROVE  Post(st, cascade(st, p, status, order), p, status)
<1>1. PICK g : DescendRun(g, status, order) /\ Descend(status, order) = g
  BY DescendRuns DEF Order
<1> DEFINE L == Len(order)
           T == {n \in Nat : n <= L => Works(g[n], n, status)}
<1>2. L \in Nat /\ IsFiniteSet(Stored) /\ Cardinality(Stored) <= L
  BY DEF Order
<1>3. 0 \in T
  <2> SUFFICES ASSUME NEW s \in Stores, NEW q \in Stored, Cardinality(White(s)) <= 0
               PROVE  Post(s, g[0][<<s, q>>], q, status)
    BY DEF Works
  <2>1. g[0][<<s, q>>] = s
    BY <1>1 DEF DescendRun
  <2>2. White(s) = {}
    <3>1. IsFiniteSet(White(s))
      BY <1>2, FS_Subset DEF White
    <3>2. Cardinality(White(s)) \in Nat
      BY <3>1, FS_CardinalityType
    <3> QED BY <3>1, <3>2, FS_EmptySet
  <2>3. \A i \in Stored : s[i] # "UTXO_UNSPENT"
    BY <2>2 DEF White
  <2> QED BY <2>1, <2>3 DEF Post, Marks, Done, Within
<1>4. ASSUME NEW n \in T PROVE n + 1 \in T
  <2> SUFFICES ASSUME n + 1 <= L PROVE Works(g[n + 1], n + 1, status)
    OBVIOUS
  <2>1. n \in Nat
    OBVIOUS
  <2>2. n <= L /\ n + 1 \in 1..L /\ (n + 1) - 1 = n
    <3> HIDE DEF T, L
    <3> QED BY <1>2, <2>1
  <2>3. Works(g[n], n, status)
    BY <2>2
  <2>4. g[n + 1] = Deeper(g[n], status, order)
    BY <1>1, <2>2 DEF DescendRun
  <2> HIDE DEF T
  <2> SUFFICES ASSUME NEW s \in Stores, NEW q \in Stored, Cardinality(White(s)) <= n + 1
               PROVE  Post(s, g[n + 1][<<s, q>>], q, status)
    BY DEF Works
  <2>5. g[n + 1][<<s, q>>] = Walk(g[n], status, s, q, order)
    BY <2>4 DEF Deeper
  <2> QED BY <2>1, <2>3, <2>5, WalkWorks
<1>5. T = Nat
  <2>1. T \in SUBSET Nat
    OBVIOUS
  <2> HIDE DEF T
  <2> QED BY <1>3, <1>4, <2>1, NatSetInduction
<1>6. Works(g[L], L, status)
  BY <1>2, <1>5
<1>7. Cardinality(White(st)) <= L
  <2>1. White(st) \subseteq Stored
    BY DEF White
  <2>2. Cardinality(White(st)) <= Cardinality(Stored) /\ Cardinality(White(st)) \in Nat
        /\ Cardinality(Stored) \in Nat
    BY <1>2, <2>1, FS_Subset, FS_CardinalityType
  <2> QED BY <1>2, <2>2
<1> QED BY <1>1, <1>6, <1>7 DEF Works, cascade

-----------------------------------------------------------------------------
\* A step stores at most one new capability.
LEMMA StoredStaysFinite ==
  ASSUME TypeOK, [Next]_vars, IsFiniteSet(Stored)
  PROVE  IsFiniteSet(Stored)'
<1>1. \E id : Stored' \subseteq Stored \cup {id}
  <2>1. ASSUME NEW s \in Actors, NEW p \in MintPayload, Mint(s, p)
        PROVE  \E id : Stored' \subseteq Stored \cup {id}
    <3>1. PICK id \in RootIds \ Stored : \E r \in CapabilityUTXO : utxo' = saveUTXO(id, r)
      BY <2>1, MintRecord
    <3> QED BY <3>1, SaveType DEF Ids
  <2>2. ASSUME NEW s \in Actors, NEW i \in Stored, Spend(s, i) \/ SpendExpired(s, i)
        PROVE  \E id : Stored' \subseteq Stored \cup {id}
    <3>1. PICK r \in CapabilityUTXO : utxo' = saveUTXO(i, r)
      BY <2>2, SpendRecord
    <3>2. i \in Ids
      BY DEF TypeOK
    <3> QED BY <3>1, <3>2, SaveType
  <2>3. ASSUME NEW s \in Actors, NEW i \in Stored, NEW p \in DelegatePayload,
               Delegate(s, i, p)
        PROVE  \E id : Stored' \subseteq Stored \cup {id}
    <3>1. PICK id \in ChildIds \ Stored : \E r \in CapabilityUTXO : utxo' = saveUTXO(id, r)
      BY <2>3, DelegateRecord
    <3> QED BY <3>1, SaveType DEF Ids
  <2>4. ASSUME NEW s \in Actors, NEW i \in Stored, Revoke(s, i) PROVE Stored' = Stored
    BY <2>4, WithStatusType, StatusInStatuses DEF Revoke
  <2>5. ASSUME BatchExpire \/ EndBlock PROVE Stored' = Stored
    BY <2>5, WithStatusType, StatusInStatuses DEF BatchExpire, EndBlock, ExpireAtTime
  <2>6. ASSUME UNCHANGED vars PROVE Stored' = Stored
    BY <2>6 DEF vars, Stored
  <2> QED BY <2>1, <2>2, <2>3, <2>4, <2>5, <2>6 DEF Next
<1>2. PICK id : Stored' \subseteq Stored \cup {id}
  BY <1>1
<1>3. IsFiniteSet(Stored \cup {id})
  BY FS_AddElement
<1>4. IsFiniteSet(Stored')
  BY <1>2, <1>3, FS_Subset
<1> QED BY <1>4

\* The loops run over finitely many records.
LEMMA FinitelyMany == Spec => [](TypeOK /\ DeriveEntries /\ IsFiniteSet(Stored))
<1>1. Init => IsFiniteSet(Stored) /\ DeriveEntries
  <2> SUFFICES ASSUME Init PROVE IsFiniteSet(Stored) /\ DeriveEntries
    OBVIOUS
  <2>1. Stored = {} /\ derive = {}
    BY DEF Init, Stored
  <2> QED BY <2>1, FS_EmptySet DEF DeriveEntries
<1>2. TypeOK /\ IsFiniteSet(Stored) /\ [Next]_vars => IsFiniteSet(Stored)'
  BY StoredStaysFinite
<1>3. TypeOK /\ TypeOK' /\ DeriveEntries /\ [Next]_vars => DeriveEntries'
  BY DeriveEntriesStep
<1> QED BY <1>1, <1>2, <1>3, TypeCorrect, PTL DEF Spec

\* Each of the orders has every key once.
LEMMA KeysInOrder ==
  ASSUME IsFiniteSet(Stored), NEW order \in KeyOrders
  PROVE  Order(order)
<1> DEFINE n == Cardinality(Stored)
<1>1. n \in Nat
  BY FS_CardinalityType
<1>2. order \in [1..n -> Stored] /\ \A i, j \in 1..n : i # j => order[i] # order[j]
  <2>1. order \in {f \in [1..n -> Stored] : \A i, j \in 1..n : i # j => f[i] # f[j]}
    BY Zenon DEF KeyOrders, SetToSeqs
  <2> HIDE DEF n
  <2> QED BY <2>1
<1> HIDE DEF n
<1>3. Len(order) = n
  <2>1. order \in Seq(Stored)
    BY <1>1, <1>2, SeqDef
  <2>2. DOMAIN order = 1..Len(order) /\ Len(order) \in Nat
    BY <2>1, LenProperties
  <2> DEFINE L == Len(order)
  <2>3. 1..L = 1..n /\ L \in Nat
    BY <1>2, <2>2
  <2> HIDE DEF L
  <2>4. \A j \in Int : j \in 1..L <=> j \in 1..n
    BY <2>3
  <2>5. L = n
    BY <1>1, <2>3, <2>4
  <2> QED BY <2>5 DEF L
<1>4. order \in Surjection(1..n, Stored)
  <2>1. order \in Injection(1..n, Stored)
    BY <1>2 DEF Injection, IsInjective
  <2>2. Cardinality(1..n) = n
    BY <1>1, FS_Interval
  <2> QED BY <2>1, <2>2, FS_Injection DEF n
<1>5. \A i \in Stored : \E k \in 1..n : order[k] = i
  BY <1>4 DEF Surjection
<1> QED BY <1>1, <1>2, <1>3, <1>5 DEF Order, n

\* The stored statuses, and what CapUTXO's sets make of them.
LEMMA StatusFacts ==
  ASSUME TypeOK, NEW S, NEW status \in Statuses
  PROVE  /\ StatusOf \in Stores /\ \A i \in Stored : StatusOf[i] = utxo[i].status
         /\ White(StatusOf) = Live
         /\ [i \in Stored |-> WithStatus(S, status)[i].status] =
              [i \in Stored |-> IF i \in S THEN status ELSE StatusOf[i]]
<1>1. \A i \in Stored : utxo[i] \in CapabilityUTXO
  BY DEF TypeOK
<1>2. \A i \in Stored : utxo[i].status \in Statuses
  BY <1>1 DEF CapabilityUTXO
<1>3. StatusOf \in Stores /\ \A i \in Stored : StatusOf[i] = utxo[i].status
  BY <1>2 DEF StatusOf, Stores
<1>4. White(StatusOf) = Live
  BY <1>3 DEF White, Live
<1>5. ASSUME NEW i \in Stored
      PROVE  WithStatus(S, status)[i].status = IF i \in S THEN status ELSE StatusOf[i]
  <2>1. WithStatus(S, status)[i] = IF i \in S THEN [utxo[i] EXCEPT !.status = status]
                                              ELSE utxo[i]
    BY DEF WithStatus
  <2>2. [utxo[i] EXCEPT !.status = status].status = status
    BY <1>1 DEF CapabilityUTXO
  <2>3. CASE i \in S
    BY <2>1, <2>2, <2>3
  <2>4. CASE i \notin S
    BY <1>3, <2>1, <2>4
  <2> QED BY <2>3, <2>4
<1> QED BY <1>3, <1>4, <1>5

(***************************************************************************)
(* In every reachable state and for every order of the keys, the recursion *)
(* of cascade over cap/d revokes exactly the least closed set that Revoke  *)
(* writes in one step (revoke, cascade), however deep the derivations go.  *)
(***************************************************************************)
THEOREM RevocationComputed == Spec => []RevokeComputesCascade
<1>1. TypeOK /\ DeriveEntries /\ IsFiniteSet(Stored) => RevokeComputesCascade
  <2> SUFFICES ASSUME TypeOK, DeriveEntries, IsFiniteSet(Stored),
                      NEW order \in KeyOrders, NEW id \in Stored
               PROVE  revoke(StatusOf, id, order) =
                        [i \in Stored |-> WithStatus(Cascade({id}), "UTXO_REVOKED")[i].status]
    BY DEF RevokeComputesCascade
  <2> DEFINE status == "UTXO_REVOKED"
             s0 == StatusOf
             s1 == [s0 EXCEPT ![id] = status]
             s2 == revoke(s0, id, order)
             C == Cascade({id})
  <2>1. Ends(status)
    BY DEF Ends, Statuses
  <2>2. /\ s0 \in Stores /\ White(s0) = Live
        /\ [i \in Stored |-> WithStatus(C, status)[i].status] =
             [i \in Stored |-> IF i \in C THEN status ELSE s0[i]]
    <3> HIDE DEF C
    <3> QED BY <2>1, StatusFacts DEF Ends
  <2> HIDE DEF status, s0
  <2>3. s1 \in Stores /\ s1[id] = status /\ \A i \in Stored : i # id => s1[i] = s0[i]
    BY <2>1, <2>2 DEF Stores, Ends
  <2>4. s2 = cascade(s1, id, status, order)
    BY DEF revoke, status
  <2> HIDE DEF s1, s2, C
  <2>5. Post(s1, s2, id, status)
    BY <2>1, <2>3, <2>4, KeysInOrder, CascadeWorks
  <2>6. Marks(s1, s2, status) /\ Done(s1, s2) /\ Within(s1, s2, {id}) /\ s2 \in Stores
        /\ \A d \in Stored : <<id, d>> \in derive => s2[d] # "UTXO_UNSPENT"
    BY <2>5 DEF Post, Marks
  <2>7. s2[id] = status
    BY <2>1, <2>3, <2>6 DEF Marks, Ends
  <2> DEFINE M == {i \in Stored : i = id \/ s2[i] # s0[i]}
  <2>8. \A i \in Stored : s2[i] = IF i \in M THEN status ELSE s0[i]
    BY <2>3, <2>6, <2>7 DEF Marks
  <2>9. C \subseteq M
    <3>1. M \in SUBSET Stored /\ {id} \subseteq M
      OBVIOUS
    <3>2. ASSUME NEW e \in derive, e[1] \in M, e[2] \in Live PROVE e[2] \in M
      <4>1. e = <<e[1], e[2]>> /\ e[1] \in Stored /\ e[2] \in Stored
        BY DEF DeriveEntries
      <4>2. s0[e[2]] = "UTXO_UNSPENT"
        BY <2>2, <3>2 DEF White
      <4>3. s2[e[2]] # "UTXO_UNSPENT"
        <5>1. CASE e[1] = id
          BY <2>6, <4>1, <5>1
        <5>2. CASE e[1] # id
          <6>1. s1[e[1]] = "UTXO_UNSPENT" /\ s2[e[1]] # "UTXO_UNSPENT"
            BY <2>1, <2>3, <2>6, <3>2, <4>1, <5>2 DEF Marks, Ends
          <6> QED BY <2>6, <4>1, <6>1 DEF Done
        <5> QED BY <5>1, <5>2
      <4> QED BY <4>1, <4>2, <4>3
    <3>3. ClosedSet(M, {id}, Live)
      BY <3>1, <3>2 DEF ClosedSet
    <3> HIDE DEF M
    <3> QED BY <3>1, <3>3, ReachLeast DEF C, Cascade
  <2>10. M \subseteq C
    <3>1. C \in SUBSET Stored /\ {id} \in SUBSET Stored
      BY DEF C, Cascade, Reach
    <3>2. ClosedSet(C, {id}, Live)
      BY <3>1, ReachClosed DEF C, Cascade
    <3>3. White(s1) \subseteq Live
      BY <2>1, <2>2, <2>3 DEF White, Ends
    <3>4. ClosedSet(C, {id}, White(s1))
      BY <3>2, <3>3 DEF ClosedSet
    <3>5. \A i \in Stored : s2[i] # s1[i] => i \in C
      BY <2>6, <3>1, <3>4 DEF Within
    <3> QED BY <2>3, <3>2, <3>5 DEF ClosedSet
  <2>11. M = C
    BY <2>9, <2>10
  <2>12. s2 = [i \in Stored |-> IF i \in C THEN status ELSE s0[i]]
    <3>1. s2 = [i \in Stored |-> s2[i]]
      BY <2>6 DEF Stores
    <3> HIDE DEF M
    <3> QED BY <2>8, <2>11, <3>1
  <2> QED BY <2>2, <2>12 DEF s2, s0, status, C
<1> QED BY <1>1, FinitelyMany, PTL

\* The loop of expireAtTime after k keys.
Swept(st, s, t, order, k) ==
  /\ Progress(st, s, Due(t), "UTXO_EXPIRED")
  /\ \A j \in 1..k : order[j] \in Due(t) => s[order[j]] # "UTXO_UNSPENT"

\* One more key, whether or not an earlier cascade has already expired it.
LEMMA SweepKeeps ==
  ASSUME TypeOK, NEW order, Order(order), NEW t, NEW a, NEW k \in Nat, k + 1 \in 1..Len(order),
         Swept(StatusOf, a, t, order, k)
  PROVE  Swept(StatusOf, Sweep(StatusOf, t, a, order[k + 1], order), t, order, k + 1)
<1> DEFINE st == StatusOf
           c == order[k + 1]
           status == "UTXO_EXPIRED"
           roots == Due(t)
           b == Sweep(st, t, a, c, order)
           a1 == [a EXCEPT ![c] = status]
<1>1. Ends(status)
  BY DEF Ends, Statuses
<1>2. c \in Stored
  BY DEF Order
<1>3. st \in Stores /\ White(st) = Live /\ \A i \in Stored : st[i] = utxo[i].status
  BY <1>1, StatusFacts DEF Ends
<1>4. roots \subseteq Stored
  BY DEF Due, Live
<1>5. /\ c \in roots => b = cascade(a1, c, status, order)
      /\ c \notin roots => b = a
  BY <1>2, <1>3 DEF Sweep, Due, Live
<1>6. Progress(st, a, roots, status)
      /\ \A j \in 1..k : order[j] \in roots => a[order[j]] # "UTXO_UNSPENT"
  BY DEF Swept
<1>7. \A j \in 1..(k + 1) : j \in 1..k \/ order[j] = c
  OBVIOUS
<1>8. c \in roots => st[c] = "UTXO_UNSPENT"
  BY <1>2, <1>3 DEF Due, Live
<1> HIDE DEF st, c, status, roots, b
<1>9. CASE c \in roots
  <2>1. a1 \in Stores
    BY <1>1, <1>2, <1>6 DEF Progress, Stores, Ends
  <2>2. Post(a1, b, c, status)
    <3> HIDE DEF a1
    <3> QED BY <1>1, <1>2, <1>5, <1>9, <2>1, CascadeWorks
  <2>3. Below(st, roots, c)
    BY <1>9 DEF Below, ClosedSet
  <2>4. Entered(status, st, a, b, roots, c)
    BY <1>1, <1>2, <1>3, <1>6, <1>8, <1>9, <2>2, <2>3 DEF Entered
  <2>5. Progress(st, b, roots, status) /\ b[c] = status /\ StaysMarked(a, b)
    BY <2>4, VisitKeeps
  <2>6. \A j \in 1..(k + 1) : order[j] \in roots => b[order[j]] # "UTXO_UNSPENT"
    BY <1>1, <1>4, <1>6, <1>7, <2>5 DEF Ends, StaysMarked
  <2> QED BY <2>5, <2>6 DEF Swept, st, c, status, roots, b
<1>10. CASE c \notin roots
  <2>1. \A j \in 1..(k + 1) : order[j] \in roots => b[order[j]] # "UTXO_UNSPENT"
    BY <1>5, <1>6, <1>7, <1>10
  <2> QED BY <1>5, <1>6, <1>10, <2>1 DEF Swept, st, c, status, roots, b
<1> QED BY <1>9, <1>10

\* So the loop leaves what it should, whatever the order.
LEMMA SweepWorks ==
  ASSUME TypeOK, NEW order, Order(order), NEW t
  PROVE  /\ Progress(StatusOf, expireAtTime(StatusOf, t, order), Due(t), "UTXO_EXPIRED")
         /\ \A i \in Due(t) : expireAtTime(StatusOf, t, order)[i] # "UTXO_UNSPENT"
<1>1. PICK g : /\ SweepRun(g, StatusOf, t, order)
               /\ expireAtTime(StatusOf, t, order) = g[Len(order)]
  BY SweepRuns DEF Order
<1> DEFINE L == Len(order)
           T == {k \in Nat : k <= L => Swept(StatusOf, g[k], t, order, k)}
<1>2. L \in Nat
  BY DEF Order
<1>3. 0 \in T
  <2>1. g[0] = StatusOf /\ StatusOf \in Stores
    BY <1>1, StatusFacts, StatusInStatuses DEF SweepRun
  <2> QED BY <2>1 DEF Swept, Progress, Marks, Done, Within
<1>4. ASSUME NEW k \in T PROVE k + 1 \in T
  <2> SUFFICES ASSUME k + 1 <= L PROVE Swept(StatusOf, g[k + 1], t, order, k + 1)
    OBVIOUS
  <2>1. k \in Nat
    OBVIOUS
  <2>2. k <= L /\ k + 1 \in 1..L /\ (k + 1) - 1 = k
    <3> HIDE DEF T, L
    <3> QED BY <1>2, <2>1
  <2>3. Swept(StatusOf, g[k], t, order, k)
    BY <2>2
  <2> HIDE DEF T
  <2>4. g[k + 1] = Sweep(StatusOf, t, g[k], order[k + 1], order)
    BY <1>1, <2>2 DEF SweepRun
  <2> QED BY <2>1, <2>2, <2>3, <2>4, SweepKeeps
<1>5. T = Nat
  <2>1. T \in SUBSET Nat
    OBVIOUS
  <2> HIDE DEF T
  <2> QED BY <1>3, <1>4, <2>1, NatSetInduction
<1>6. Swept(StatusOf, g[L], t, order, L)
  BY <1>2, <1>5
<1>7. Due(t) \subseteq Stored
  BY DEF Due, Live
<1> QED BY <1>1, <1>6, <1>7 DEF Swept, Order

(***************************************************************************)
(* In every reachable state, at every block time, expireAtTime's loop over *)
(* its stale snapshot ends in the one state ExpireAtTime describes,        *)
(* whatever order the keys come in: validators cannot disagree.            *)
(***************************************************************************)
THEOREM SweepOrderCorrect == Spec => []SweepIsOrderIndependent
<1>1. TypeOK /\ DeriveEntries /\ IsFiniteSet(Stored) => SweepIsOrderIndependent
  <2> SUFFICES ASSUME TypeOK, DeriveEntries, IsFiniteSet(Stored),
                      NEW order \in KeyOrders, NEW t \in now..MaxTime
               PROVE  expireAtTime(StatusOf, t, order) =
                        [i \in Stored |-> ExpireAtTime(t)[i].status]
    BY DEF SweepIsOrderIndependent
  <2> DEFINE status == "UTXO_EXPIRED"
             s0 == StatusOf
             s2 == expireAtTime(s0, t, order)
             D == Due(t)
             C == Cascade(D)
  <2>1. Ends(status)
    BY DEF Ends, Statuses
  <2>2. /\ s0 \in Stores /\ White(s0) = Live
        /\ [i \in Stored |-> WithStatus(C, status)[i].status] =
             [i \in Stored |-> IF i \in C THEN status ELSE s0[i]]
    <3> HIDE DEF C
    <3> QED BY <2>1, StatusFacts DEF Ends
  <2>3. D \subseteq Live /\ D \in SUBSET Stored
    BY DEF Due, Live
  <2>4. Progress(s0, s2, D, status) /\ \A i \in D : s2[i] # "UTXO_UNSPENT"
    BY KeysInOrder, SweepWorks
  <2> HIDE DEF status, s0, s2, D, C
  <2>5. Marks(s0, s2, status) /\ Done(s0, s2) /\ Within(s0, s2, D) /\ s2 \in Stores
    BY <2>4 DEF Progress
  <2> DEFINE M == {i \in Stored : s2[i] # s0[i]}
  <2>6. \A i \in Stored : s2[i] = IF i \in M THEN status ELSE s0[i]
    BY <2>5 DEF Marks
  <2>7. C \subseteq M
    <3>1. M \in SUBSET Stored
      OBVIOUS
    <3>2. D \subseteq M
      BY <2>2, <2>3, <2>4 DEF White
    <3>3. ASSUME NEW e \in derive, e[1] \in M, e[2] \in Live PROVE e[2] \in M
      <4>1. e = <<e[1], e[2]>> /\ e[1] \in Stored /\ e[2] \in Stored
        BY DEF DeriveEntries
      <4>2. s0[e[2]] = "UTXO_UNSPENT"
        BY <2>2, <3>3 DEF White
      <4>3. s0[e[1]] = "UTXO_UNSPENT" /\ s2[e[1]] # "UTXO_UNSPENT"
        BY <2>1, <2>5, <3>3, <4>1 DEF Marks, Ends
      <4>4. s2[e[2]] # "UTXO_UNSPENT"
        BY <2>5, <4>1, <4>3 DEF Done
      <4> QED BY <4>1, <4>2, <4>4
    <3>4. ClosedSet(M, D, Live)
      BY <3>2, <3>3 DEF ClosedSet
    <3> HIDE DEF M
    <3> QED BY <3>1, <3>4, ReachLeast DEF C, Cascade
  <2>8. M \subseteq C
    <3>1. C \in SUBSET Stored
      BY DEF C, Cascade, Reach
    <3>2. ClosedSet(C, D, White(s0))
      BY <2>2, <2>3, ReachClosed DEF C, Cascade
    <3> QED BY <2>5, <3>1, <3>2 DEF Within
  <2>9. M = C
    BY <2>7, <2>8
  <2>10. s2 = [i \in Stored |-> IF i \in C THEN status ELSE s0[i]]
    <3>1. s2 = [i \in Stored |-> s2[i]]
      BY <2>5 DEF Stores
    <3> HIDE DEF M
    <3> QED BY <2>6, <2>9, <3>1
  <2> QED BY <2>2, <2>10 DEF s2, s0, status, C, D, ExpireAtTime
<1> QED BY <1>1, FinitelyMany, PTL
=============================================================================
