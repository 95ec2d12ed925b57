--------------------------- MODULE ApiKeysProofs ----------------------------
(* What ApiKeys guarantees for any number of keys and concurrent requests. *)
EXTENDS ApiKeys, TLAPS

\* The locals of revokeApiKey: what it has collected for deletion is the entry
\* of the key it was asked to revoke, and nothing else.
Own(r) ==
    /\ req[r].toDelete \subseteq {req[r].key}
    /\ req[r].toDelete # {} => req[r].key \in asked
    /\ req[r].pc \in {"scan", "delete"} => req[r].key \in asked
DeletesOwn == \A r \in Requests : Own(r)

KeyInv == TypeOK /\ DeletesOwn /\ ReturnedKeysWork

\* Idle is a well-typed request that has nothing to delete.
LEMMA IdleType == Idle \in Request /\ Idle.toDelete = {} /\ Idle.pc = "idle"
  <1>1. (CHOOSE k \in Keys : TRUE) \in Keys
    BY KeyAssumption
  <1> QED
    BY <1>1 DEF Idle, At, Request, Pc

\* No key exists at the start.
LEMMA KeyInvInit == Init => KeyInv
  <1> SUFFICES ASSUME Init PROVE KeyInv
    OBVIOUS
  <1> USE IdleType DEF Init
  <1>1. TypeOK
    BY DEF TypeOK
  <1>2. DeletesOwn
    BY DEF DeletesOwn, Own
  <1>3. ReturnedKeysWork
    BY DEF ReturnedKeysWork
  <1> QED
    BY <1>1, <1>2, <1>3 DEF KeyInv

\* Every command of createApiKey and revokeApiKey, a failure and an expiry
\* keep the state well typed.
LEMMA TypeStep == TypeOK /\ [Next]_vars => TypeOK'
  <1> SUFFICES ASSUME TypeOK, [Next]_vars PROVE TypeOK'
    OBVIOUS
  <1> USE IdleType DEF TypeOK
  <1>1. ASSUME NEW r \in Requests, NEW k \in Keys, CreateDraw(r, k) PROVE TypeOK'
    BY <1>1 DEF CreateDraw, At, Request, Pc
  <1>2. ASSUME NEW r \in Requests, CreateSave(r) PROVE TypeOK'
    BY <1>2 DEF CreateSave, Goto, At, Request, Pc
  <1>3. ASSUME NEW r \in Requests, CreateSet(r) PROVE TypeOK'
    BY <1>3 DEF CreateSet, Done, Request
  <1>4. ASSUME NEW r \in Requests, NEW k \in Keys, RevokeFind(r, k) PROVE TypeOK'
    BY <1>4 DEF RevokeFind, At, Request, Pc
  <1>5. ASSUME NEW r \in Requests, NEW batch \in SUBSET lookup, ScanData(r, batch)
        PROVE TypeOK'
    BY <1>5 DEF ScanData, At, Request, Pc
  <1>6. ASSUME NEW r \in Requests, NEW k \in Keys, ScanGet(r, k) PROVE TypeOK'
    BY <1>6 DEF ScanGet, At, Request, Pc
  <1>7. ASSUME NEW r \in Requests, ScanEnd(r) PROVE TypeOK'
    BY <1>7 DEF ScanEnd, At, Request, Pc
  <1>8. ASSUME NEW r \in Requests, RevokeDelete(r) PROVE TypeOK'
    BY <1>8 DEF RevokeDelete, At, Request, Pc
  <1>9. ASSUME NEW r \in Requests, RevokeRemove(r) PROVE TypeOK'
    BY <1>9 DEF RevokeRemove, Done, Request
  <1>10. ASSUME NEW r \in Requests, Fail(r) PROVE TypeOK'
    BY <1>10 DEF Fail, Done
  <1>11. ASSUME NEW k \in Keys, Expire(k) PROVE TypeOK'
    BY <1>11 DEF Expire
  <1>12. CASE UNCHANGED vars
    BY <1>12 DEF vars
  <1> QED
    BY <1>1, <1>2, <1>3, <1>4, <1>5, <1>6, <1>7, <1>8, <1>9, <1>10, <1>11, <1>12
       DEF Next

\* A revocation only ever collects and deletes the entry of its own key, and
\* that key has been asked for.
LEMMA DeletesOwnStep == KeyInv /\ [Next]_vars => DeletesOwn'
  <1> SUFFICES ASSUME KeyInv, [Next]_vars, NEW q \in Requests
               PROVE  Own(q)'
    BY DEF DeletesOwn
  <1> USE IdleType DEF KeyInv, TypeOK, DeletesOwn, Own
  <1>1. ASSUME NEW r \in Requests, NEW k \in Keys, CreateDraw(r, k) \/ RevokeFind(r, k)
        PROVE  Own(q)'
    BY <1>1 DEF CreateDraw, RevokeFind, At
  <1>2. ASSUME NEW r \in Requests, CreateSave(r)
        PROVE  Own(q)'
    BY <1>2 DEF CreateSave, Goto, At
  <1>3. ASSUME NEW r \in Requests, CreateSet(r) \/ RevokeRemove(r) \/ Fail(r)
        PROVE  Own(q)'
    BY <1>3 DEF CreateSet, RevokeRemove, Fail, Done
  <1>4. ASSUME NEW r \in Requests, NEW batch \in SUBSET lookup, ScanData(r, batch)
        PROVE  Own(q)'
    BY <1>4 DEF ScanData, At
  <1>5. ASSUME NEW r \in Requests, NEW k \in Keys, ScanGet(r, k)
        PROVE  Own(q)'
    BY <1>5 DEF ScanGet, Matches, At
  <1>6. ASSUME NEW r \in Requests, ScanEnd(r) \/ RevokeDelete(r)
        PROVE  Own(q)'
    BY <1>6 DEF ScanEnd, RevokeDelete, At
  <1>7. CASE (\E k \in Keys : Expire(k)) \/ UNCHANGED vars
    BY <1>7 DEF Expire, vars
  <1> QED
    BY <1>1, <1>2, <1>3, <1>4, <1>5, <1>6, <1>7 DEF Next

\* Only a DEL of its own revocation and its expiry take a key's entry away.
LEMMA WorksStep == KeyInv /\ [Next]_vars => ReturnedKeysWork'
  <1> SUFFICES ASSUME KeyInv, [Next]_vars PROVE ReturnedKeysWork'
    OBVIOUS
  <1> USE DEF KeyInv, ReturnedKeysWork, Accepts
  <1>1. ASSUME NEW r \in Requests, RevokeDelete(r) PROVE ReturnedKeysWork'
    <2>1. req[r].toDelete \subseteq asked
      BY DEF DeletesOwn, Own
    <2> QED
      BY <1>1, <2>1 DEF RevokeDelete
  <1>2. ASSUME NEW r \in Requests, CreateSet(r) PROVE ReturnedKeysWork'
    BY <1>2 DEF CreateSet
  <1>3. ASSUME NEW r \in Requests, NEW k \in Keys,
               CreateDraw(r, k) \/ RevokeFind(r, k) \/ ScanGet(r, k)
        PROVE  ReturnedKeysWork'
    BY <1>3 DEF CreateDraw, RevokeFind, ScanGet
  <1>4. ASSUME NEW r \in Requests, NEW batch \in SUBSET lookup, ScanData(r, batch)
        PROVE  ReturnedKeysWork'
    BY <1>4 DEF ScanData
  <1>5. ASSUME NEW r \in Requests,
               CreateSave(r) \/ ScanEnd(r) \/ RevokeRemove(r) \/ Fail(r)
        PROVE  ReturnedKeysWork'
    BY <1>5 DEF CreateSave, ScanEnd, RevokeRemove, Fail
  <1>6. ASSUME NEW k \in Keys, Expire(k) PROVE ReturnedKeysWork'
    BY <1>6 DEF Expire
  <1>7. CASE UNCHANGED vars
    BY <1>7 DEF vars
  <1> QED
    BY <1>1, <1>2, <1>3, <1>4, <1>5, <1>6, <1>7 DEF Next

\* Every variable keeps its type: a key's row, its lookup entry and what a
\* request remembers between two commands of createApiKey or revokeApiKey.
THEOREM TypeCorrect == Spec => []TypeOK
  <1>1. Init => TypeOK
    BY KeyInvInit DEF KeyInv
  <1> QED
    BY <1>1, TypeStep, PTL DEF Spec

\* For any number of keys and of requests side by side: a key handed to its
\* owner is accepted by validateApiKey until its lookup entry expires or a
\* revocation of that key begins, whatever createApiKey and revokeApiKey calls
\* run, fail half-way or overlap.
THEOREM ReturnedKeysWorkCorrect == Spec => [](TypeOK /\ ReturnedKeysWork)
  <1>1. KeyInv /\ [Next]_vars => KeyInv'
    BY TypeStep, DeletesOwnStep, WorksStep DEF KeyInv
  <1>2. KeyInv => TypeOK /\ ReturnedKeysWork
    BY DEF KeyInv
  <1> QED
    BY KeyInvInit, <1>1, <1>2, PTL DEF Spec
=============================================================================
