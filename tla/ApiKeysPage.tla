---------------------------- MODULE ApiKeysPage -----------------------------
(***************************************************************************)
(* The dashboard's API keys page: the list, the dialog that makes a key    *)
(* and shows its secret, and the dialog that revokes one.  The auth        *)
(* service is external here; keys are numbered as they are made.           *)
(***************************************************************************)
EXTENDS Integers, Swr

CONSTANTS
    KeyCalls,    \* handlers that may be waiting
    MaxKeys, MaxRevokes \* bounds: keys made, revocations asked for

ASSUME KeysAssumption == {MaxKeys, MaxRevokes} \subseteq Nat /\ "poll" \notin KeyCalls

VARIABLES
    active,      \* keys that work
    made,        \* keys made so far
    keysData,    \* SWR's key KEYS_PATH
    showCreate, newKeyResult, keyToRevoke, \* the page; 0 is null
    keyWork,     \* handlers that are waiting
    asked,       \* revocations asked for so far
    seenSecrets, \* keys whose secret has been on the screen
    announced    \* keys said to be revoked, after the list was fetched for it

keyVars == <<active, made, keysData, showCreate, newKeyResult, keyToRevoke, keyWork, asked, seenSecrets, announced>>

KeyNumbers == 1..MaxKeys
NoKeyWork == [kind |-> "none", key |-> 0, pc |-> "idle", listed |-> FALSE]

KeysPageTypeOK ==
    /\ active \subseteq KeyNumbers /\ made \in 0..MaxKeys /\ asked \in 0..MaxRevokes
    /\ keysData \in SwrKeys(SUBSET KeyNumbers, KeyCalls)
    /\ showCreate \in BOOLEAN /\ {newKeyResult, keyToRevoke} \subseteq 0..MaxKeys
    /\ keyWork \in [KeyCalls -> [kind : {"none", "create", "revoke"}, key : 0..MaxKeys,
                                 pc : {"idle", "sent", "failed", "done", "refetch"}, listed : BOOLEAN]]
    \* one key is being made at most: its button is disabled meanwhile
    /\ \A c, d \in KeyCalls : keyWork[c].kind = "create" /\ keyWork[d].kind = "create" => c = d
    /\ seenSecrets \subseteq KeyNumbers /\ announced \subseteq KeyNumbers

KeysPageInit ==
    /\ active = {} /\ made = 0 /\ keysData = SwrKey({})
    /\ showCreate = FALSE /\ newKeyResult = 0 /\ keyToRevoke = 0
    /\ keyWork = [c \in KeyCalls |-> NoKeyWork] /\ asked = 0
    /\ seenSecrets = {} /\ announced = {}

\* The secret on the screen, if any.
Visible == IF showCreate THEN newKeyResult ELSE 0
\* A dialog is modal.
NothingOpen == ~showCreate /\ keyToRevoke = 0

Handler(c, kind, key) ==
    /\ keyWork[c].pc = "idle"
    /\ keyWork' = [keyWork EXCEPT ![c] = [NoKeyWork EXCEPT !.kind = kind, !.key = key, !.pc = "sent"]]
Doing(c, kind, pc) == keyWork[c].kind = kind /\ keyWork[c].pc = pc
GoTo(c, pc) == keyWork' = [keyWork EXCEPT ![c].pc = pc]
-----------------------------------------------------------------------------
(* The dialogs.                                                             *)

\* Mutant: the last secret stays where it was.
NewAPIKeyKeeps ==
    /\ NothingOpen
    /\ showCreate' = TRUE
    /\ seenSecrets' = seenSecrets \cup ({newKeyResult} \ {0})
    /\ UNCHANGED <<active, made, keysData, newKeyResult, keyToRevoke, keyWork, asked, announced>>

NewAPIKey ==
    /\ NothingOpen
    /\ showCreate' = TRUE /\ newKeyResult' = 0
    /\ UNCHANGED <<active, made, keysData, keyToRevoke, keyWork, asked, seenSecrets, announced>>

\* Cancel, Done or Escape, with a creation under way or not.
CloseCreate ==
    /\ showCreate
    /\ showCreate' = FALSE
    /\ UNCHANGED <<active, made, keysData, newKeyResult, keyToRevoke, keyWork, asked, seenSecrets, announced>>

AskRevoke(k) ==
    /\ NothingOpen /\ k \in keysData.rows
    /\ keyToRevoke' = k
    /\ UNCHANGED <<active, made, keysData, showCreate, newKeyResult, keyWork, asked, seenSecrets, announced>>

CancelRevoke ==
    /\ keyToRevoke # 0
    /\ keyToRevoke' = 0
    /\ UNCHANGED <<active, made, keysData, showCreate, newKeyResult, keyWork, asked, seenSecrets, announced>>
-----------------------------------------------------------------------------
(* handleCreate and confirmRevoke.                                          *)

\* The button is disabled while a key is being made.
handleCreate(c) ==
    /\ showCreate /\ newKeyResult = 0
    /\ \A d \in KeyCalls : keyWork[d].kind # "create"
    /\ Handler(c, "create", 0)
    /\ UNCHANGED <<active, made, keysData, showCreate, newKeyResult, keyToRevoke, asked, seenSecrets, announced>>

\* The answer is shown, if the dialog is open by now; SWR asks again.
KeyAnswered(c) ==
    LET k == keyWork[c].key IN
    /\ Doing(c, "create", "done")
    /\ newKeyResult' = k
    /\ seenSecrets' = IF showCreate THEN seenSecrets \cup {k} ELSE seenSecrets
    /\ keysData' = Revalidate(keysData, c)
    /\ GoTo(c, "refetch")
    /\ UNCHANGED <<active, made, showCreate, keyToRevoke, asked, announced>>

confirmRevoke(c) ==
    /\ keyToRevoke # 0 /\ asked < MaxRevokes
    /\ Handler(c, "revoke", keyToRevoke)
    /\ keyToRevoke' = 0 /\ asked' = asked + 1
    /\ UNCHANGED <<active, made, keysData, showCreate, newKeyResult, seenSecrets, announced>>

RevokeAnswered(c) ==
    /\ Doing(c, "revoke", "done")
    /\ keysData' = Revalidate(keysData, c)
    /\ GoTo(c, "refetch")
    /\ UNCHANGED <<active, made, showCreate, newKeyResult, keyToRevoke, asked, seenSecrets, announced>>

\* The end of either; finally closes the revoke dialog, which may be about
\* another key by now.
KeyWorkEnds(c) ==
    LET w == keyWork[c] IN
    /\ w.pc = "failed" \/ (w.pc = "refetch" /\ keysData.by # c)
    /\ keyToRevoke' = IF w.kind = "revoke" THEN 0 ELSE keyToRevoke
    /\ announced' = IF w.kind = "revoke" /\ w.listed THEN announced \cup {w.key} ELSE announced
    /\ keyWork' = [keyWork EXCEPT ![c] = NoKeyWork]
    /\ UNCHANGED <<active, made, keysData, showCreate, newKeyResult, asked, seenSecrets>>
-----------------------------------------------------------------------------
(* External: the auth service, and SWR's GETs of its list.                  *)

KeyMade(c) ==
    /\ Doing(c, "create", "sent") /\ made < MaxKeys
    /\ made' = made + 1 /\ active' = active \cup {made'}
    /\ keyWork' = [keyWork EXCEPT ![c].key = made', ![c].pc = "done"]
    /\ UNCHANGED <<keysData, showCreate, newKeyResult, keyToRevoke, asked, seenSecrets, announced>>

KeyRevoked(c) ==
    /\ Doing(c, "revoke", "sent") /\ keyWork[c].key \in active
    /\ active' = active \ {keyWork[c].key}
    /\ GoTo(c, "done")
    /\ UNCHANGED <<made, keysData, showCreate, newKeyResult, keyToRevoke, asked, seenSecrets, announced>>

\* Refused, or the answer is lost.
KeyCallFails(c) ==
    /\ keyWork[c].pc \in {"sent", "done"}
    /\ GoTo(c, "failed")
    /\ UNCHANGED <<active, made, keysData, showCreate, newKeyResult, keyToRevoke, asked, seenSecrets, announced>>

PollKeys ==
    /\ keysData.get = "none"
    /\ keysData' = Revalidate(keysData, "poll")
    /\ UNCHANGED <<active, made, showCreate, newKeyResult, keyToRevoke, keyWork, asked, seenSecrets, announced>>

ReadKeys ==
    /\ keysData.get = "asked"
    /\ keysData' = Answered(keysData, active)
    /\ UNCHANGED <<active, made, showCreate, newKeyResult, keyToRevoke, keyWork, asked, seenSecrets, announced>>

KeysArrive ==
    /\ keysData.get = "answered"
    /\ keysData' = Arrived(keysData)
    /\ keyWork' = IF keysData.by = "poll" THEN keyWork
                  ELSE [keyWork EXCEPT ![keysData.by].listed = TRUE]
    /\ UNCHANGED <<active, made, showCreate, newKeyResult, keyToRevoke, asked, seenSecrets, announced>>

KeysLost ==
    /\ keysData.get # "none"
    /\ keysData' = Forgotten(keysData)
    /\ UNCHANGED <<active, made, showCreate, newKeyResult, keyToRevoke, keyWork, asked, seenSecrets, announced>>

KeysPageNext ==
    \/ NewAPIKey \/ CloseCreate \/ CancelRevoke \/ \E k \in KeyNumbers : AskRevoke(k)
    \/ \E c \in KeyCalls :
        \/ handleCreate(c) \/ KeyMade(c) \/ KeyAnswered(c)
        \/ confirmRevoke(c) \/ KeyRevoked(c) \/ RevokeAnswered(c)
        \/ KeyCallFails(c) \/ KeyWorkEnds(c)
    \/ PollKeys \/ ReadKeys \/ KeysArrive \/ KeysLost

KeysPageSpec == KeysPageInit /\ [][KeysPageNext]_keyVars
-----------------------------------------------------------------------------
\* "You won't be able to see it again": a secret that has been on the screen
\* and left it does not come back, however dialogs and answers interleave.
ShownOnce ==
    [][Visible' # Visible => Visible' \notin seenSecrets]_keyVars

\* A key said to be revoked is not listed again by a GET that was under way.
RevokedStayOff ==
    announced \cap keysData.rows = {}
=============================================================================
