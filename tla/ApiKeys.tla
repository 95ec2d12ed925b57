------------------------------ MODULE ApiKeys -------------------------------
(***************************************************************************)
(* API keys of the auth service (apps/auth-service/src/auth/               *)
(* auth.service.ts, createApiKey, revokeApiKey, validateApiKey).           *)
(*                                                                         *)
(* A key lives twice: as a row of api_keys, which the dashboard lists, and *)
(* as the Redis entry apikey:lookup:{sha256}, which alone decides whether  *)
(* the gateway accepts it.  Each awaited command is one action.            *)
(***************************************************************************)
EXTENDS FiniteSets

CONSTANTS
    Keys,       \* API keys; a raw key, its sha256 and its row id are one value
    Requests    \* the requests that may be in flight together

ASSUME KeyAssumption == Keys # {}

VARIABLES
    rows,       \* ids of the rows of api_keys
    lookup,     \* keys with an entry apikey:lookup:{sha256}
    drawn,      \* keys generated so far
    returned,   \* keys whose createApiKey returned the raw key to its owner
    asked,      \* keys for which a revokeApiKey has found the row
    revoked,    \* keys whose revokeApiKey returned 204
    expired,    \* keys whose lookup entry outlived its 365 days
    req         \* the requests in flight

vars == <<rows, lookup, drawn, returned, asked, revoked, expired, req>>

\* reading: entries handed to a data handler whose GET has no reply yet;
\* toDelete: as in the code.
Pc == {"idle", "createSave", "createSet", "scan", "delete", "remove"}
Request == [pc : Pc, key : Keys, reading : SUBSET Keys, toDelete : SUBSET Keys]
At(pc, k, reading, toDelete) ==
    [pc |-> pc, key |-> k, reading |-> reading, toDelete |-> toDelete]
Idle == At("idle", CHOOSE k \in Keys : TRUE, {}, {})

TypeOK ==
    /\ rows \in SUBSET Keys /\ lookup \in SUBSET Keys /\ drawn \in SUBSET Keys
    /\ returned \in SUBSET Keys /\ asked \in SUBSET Keys
    /\ revoked \in SUBSET Keys /\ expired \in SUBSET Keys
    /\ req \in [Requests -> Request]

Init ==
    /\ rows = {} /\ lookup = {} /\ drawn = {}
    /\ returned = {} /\ asked = {} /\ revoked = {} /\ expired = {}
    /\ req = [r \in Requests |-> Idle]

Goto(r, pc) ==
    req' = [req EXCEPT ![r] = At(pc, req[r].key, req[r].reading, req[r].toDelete)]
Done(r) == req' = [req EXCEPT ![r] = Idle]
-----------------------------------------------------------------------------
(* createApiKey: draw and hash the key, save the row, SET the lookup entry. *)

CreateDraw(r, k) ==
    /\ req[r].pc = "idle"
    /\ k \notin drawn
    /\ drawn' = drawn \cup {k}
    /\ req' = [req EXCEPT ![r] = At("createSave", k, {}, {})]
    /\ UNCHANGED <<rows, lookup, returned, asked, revoked, expired>>

CreateSave(r) ==
    /\ req[r].pc = "createSave"
    /\ rows' = rows \cup {req[r].key}
    /\ Goto(r, "createSet")
    /\ UNCHANGED <<lookup, drawn, returned, asked, revoked, expired>>

\* Mutant: the entry is written under the hash of an undefined key.
CreateSetUndefined(r) ==
    /\ req[r].pc = "createSet"
    /\ lookup' = lookup \cup {"undefined"}
    /\ returned' = returned \cup {req[r].key}
    /\ Done(r)
    /\ UNCHANGED <<rows, drawn, asked, revoked, expired>>

CreateSet(r) ==
    /\ req[r].pc = "createSet"
    /\ lookup' = lookup \cup {req[r].key}
    /\ returned' = returned \cup {req[r].key}
    /\ Done(r)
    /\ UNCHANGED <<rows, drawn, asked, revoked, expired>>
-----------------------------------------------------------------------------
(* revokeApiKey: the row, a scan stream over the lookup entries, DEL of the *)
(* entries found, and the removal of the row.                               *)

RevokeFind(r, k) ==
    /\ req[r].pc = "idle"
    /\ k \in rows
    /\ asked' = asked \cup {k}
    /\ req' = [req EXCEPT ![r] = At("scan", k, {}, {})]
    /\ UNCHANGED <<rows, lookup, drawn, returned, revoked, expired>>

\* A `data' event that is not the last, with some of the entries there are (a
\* SCAN may repeat one): its async handler sends its GETs.
ScanData(r, batch) ==
    /\ req[r].pc = "scan"
    /\ batch # {}
    /\ req' = [req EXCEPT
            ![r] = At("scan", req[r].key, req[r].reading \cup batch, req[r].toDelete)]
    /\ UNCHANGED <<rows, lookup, drawn, returned, asked, revoked, expired>>

\* Mutant: the handler does not compare the keyId of the entry it read.
MatchesAny(r, k) == TRUE

\* parsed.keyId === keyId
Matches(r, k) == k = req[r].key

\* The reply to one of those GETs.
ScanGet(r, k) ==
    /\ req[r].pc = "scan"
    /\ k \in req[r].reading
    /\ req' = [req EXCEPT
            ![r] = At("scan", req[r].key, req[r].reading \ {k}, req[r].toDelete \cup
                      (IF k \in lookup /\ Matches(r, k) THEN {k} ELSE {}))]
    /\ UNCHANGED <<rows, lookup, drawn, returned, asked, revoked, expired>>

\* The last reply of the SCAN: `end' follows its `data' event within the same
\* turn of the event loop, so the promise resolves before any outstanding GET,
\* and what the handlers push later is never deleted.
ScanEnd(r) ==
    /\ req[r].pc = "scan"
    /\ req' = [req EXCEPT
            ![r] = At(IF req[r].toDelete = {} THEN "remove" ELSE "delete",
                      req[r].key, {}, req[r].toDelete)]
    /\ UNCHANGED <<rows, lookup, drawn, returned, asked, revoked, expired>>

RevokeDelete(r) ==
    /\ req[r].pc = "delete"
    /\ lookup' = lookup \ req[r].toDelete
    /\ req' = [req EXCEPT ![r] = At("remove", req[r].key, {}, {})]
    /\ UNCHANGED <<rows, drawn, returned, asked, revoked, expired>>

RevokeRemove(r) ==
    /\ req[r].pc = "remove"
    /\ rows' = rows \ {req[r].key}
    /\ revoked' = revoked \cup {req[r].key}
    /\ Done(r)
    /\ UNCHANGED <<lookup, drawn, returned, asked, expired>>

\* A command rejects, or the process restarts, between two awaits.
Fail(r) ==
    /\ req[r].pc # "idle"
    /\ Done(r)
    /\ UNCHANGED <<rows, lookup, drawn, returned, asked, revoked, expired>>

\* External: the EX of the lookup entry runs out.
Expire(k) ==
    /\ k \in lookup
    /\ lookup' = lookup \ {k}
    /\ expired' = expired \cup {k}
    /\ UNCHANGED <<rows, drawn, returned, asked, revoked, req>>

Next ==
    \/ \E r \in Requests :
        \/ \E k \in Keys : CreateDraw(r, k) \/ RevokeFind(r, k) \/ ScanGet(r, k)
        \/ CreateSave(r) \/ CreateSet(r)
        \/ \E batch \in SUBSET lookup : ScanData(r, batch)
        \/ ScanEnd(r) \/ RevokeDelete(r) \/ RevokeRemove(r) \/ Fail(r)
    \/ \E k \in Keys : Expire(k)

Spec == Init /\ [][Next]_vars
-----------------------------------------------------------------------------
\* validateApiKey of an active owner's key: the lookup entry is all it asks for.
Accepts(k) == k \in lookup

\* A key handed to its owner keeps working until its entry expires or somebody
\* asks to revoke that very key: no creation, revocation or half-done
\* revocation of other keys takes it away.
ReturnedKeysWork == \A k \in returned \ (expired \cup asked) : Accepts(k)

\* Once revokeApiKey has returned, the key is not accepted any more.
RevokedKeysRejected == \A k \in revoked : ~Accepts(k)
=============================================================================
