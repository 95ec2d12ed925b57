--------------------------- MODULE PlatformConfig ---------------------------
(***************************************************************************)
(* The platform configuration: the Redis hash the gateway's /config writes *)
(* and every service reads, and the form of the dashboard's settings page, *)
(* which SWR refreshes while an admin types in it.                         *)
(***************************************************************************)
EXTENDS Integers

CONSTANTS
    Fields,       \* cacheTtlSeconds, maxFileSizeMb, rateLimitPerIp
    Default,      \* their default
    Top,          \* the most a field may be; 1 is the least
    Texts         \* strings an API client sends where a number is meant

\* 0 stands for all that is less than 1, and Top + 1 for all that is more than Top.
Numbers == 0..Top + 1
InRange == 1..Top
NotANumber == -1  \* NaN, and what JSON makes of it

ASSUME ConfigAssumption ==
    /\ Top \in Nat \ {0} /\ Default \in 1..Top
    /\ Texts \subseteq [compared : Numbers \cup {NotANumber}, read : Numbers \cup {NotANumber}]

VARIABLES
    hash,     \* the hash in Redis
    seen,     \* SWR's data of the page
    revalidation, \* the answer to the GET under way, if any
    form,     \* configForm
    typed,    \* fields typed since the form was last set
    saving,   \* handleSaveConfig: what it awaits
    body      \* and the form it sends

configVars == <<hash, seen, revalidation, form, typed, saving, body>>

\* What somebody sends, and the hash holds as a string: what it is in a
\* comparison (Number), and what parseInt(..., 10) makes of it.  "0x10" is 16 in
\* the one and 0 in the other, "0s" NaN and 0.
Setting(compared, read) == [compared |-> compared, read |-> read]
Numeral(n) == Setting(n, n)
NullSent == Setting(0, NotANumber)
Settings == {Numeral(n) : n \in Numbers} \cup {NullSent} \cup Texts

Forms == [Fields -> Numbers \cup {NotANumber}]
Nothing == [f \in {} |-> NotANumber]

ConfigTypeOK ==
    /\ hash \in [Fields -> Settings]
    /\ seen \in Forms \cup {Nothing} /\ revalidation \in Forms \cup {Nothing}
    /\ form \in Forms \cup {Nothing}
    /\ typed \subseteq Fields
    /\ saving \in {"no", "patch", "mutate"}
    /\ body \in IF saving = "patch" THEN Forms ELSE {Nothing}

\* The hash has no field, which is read like one that holds the default.
ConfigInit ==
    /\ hash = [f \in Fields |-> Numeral(Default)]
    /\ seen = Nothing /\ revalidation = Nothing
    /\ form = Nothing /\ typed = {}
    /\ saving = "no" /\ body = Nothing
-----------------------------------------------------------------------------
(* PlatformConfigController and PlatformConfigService.                      *)

\* parseInt, as every service reads a field.
Read(v) == v.read
GetConfig == [f \in Fields |-> Read(hash[f])]

\* Mutant: the check skips what is falsy.
AcceptsFalsy(v) == v \in {Numeral(0), NullSent} \/ v.compared \in {NotANumber} \cup InRange

\* The range check of the controller: every comparison with NaN is false, and
\* null counts as 0.
Accepts(v) == v.compared = NotANumber \/ v.compared \in InRange

\* HSET of the fields given.
Put(updates) ==
    hash' = [f \in Fields |-> IF f \in DOMAIN updates THEN updates[f] ELSE hash[f]]

\* PATCH /config by a client other than the page, with any fields and values.
ApiPatch(role, updates) ==
    /\ role = "admin"
    /\ \A f \in DOMAIN updates : Accepts(updates[f])
    /\ Put(updates)
    /\ UNCHANGED <<seen, revalidation, form, typed, saving, body>>
-----------------------------------------------------------------------------
(* The settings page.                                                       *)

\* The GET of a poll, or of mutate; SWR has one under way at a time.
PollConfig ==
    /\ revalidation = Nothing
    /\ revalidation' = GetConfig
    /\ UNCHANGED <<hash, seen, form, typed, saving, body>>

Revalidated ==
    /\ revalidation # Nothing
    /\ revalidation' = Nothing
    /\ saving' = IF saving = "mutate" THEN "no" ELSE saving

\* Mutant: every answer fills the form.
RefreshAlways ==
    /\ Revalidated
    /\ seen' = revalidation
    /\ form' = revalidation /\ typed' = {}
    /\ UNCHANGED <<hash, body>>

\* Its answer: SWR keeps the data it has if it is equal, and else the effect
\* fills the form.
Refresh ==
    /\ Revalidated
    /\ seen' = revalidation
    /\ IF seen' # seen THEN form' = seen' /\ typed' = {} ELSE UNCHANGED <<form, typed>>
    /\ UNCHANGED <<hash, body>>

RefreshFails ==
    /\ Revalidated
    /\ UNCHANGED <<hash, seen, form, typed, body>>

\* Number(e.target.value) of an input of type number: the empty input is 0.
Type(f, v) ==
    /\ form # Nothing
    /\ form' = [form EXCEPT ![f] = v]
    /\ typed' = typed \cup {f}
    /\ UNCHANGED <<hash, seen, revalidation, saving, body>>

\* Apply, disabled while saving or without a form.
SaveConfig ==
    /\ saving = "no" /\ form # Nothing
    /\ saving' = "patch" /\ body' = form
    /\ UNCHANGED <<hash, seen, revalidation, form, typed>>

\* The PATCH sends every field; what is not a number goes as null.
Sent == [f \in Fields |-> IF body[f] = NotANumber THEN NullSent ELSE Numeral(body[f])]

\* If it succeeds, mutate makes SWR forget the
\* GET under way and start one of its own.
SavePatch ==
    /\ saving = "patch"
    /\ IF \A f \in Fields : Accepts(Sent[f])
       THEN Put(Sent) /\ saving' = "mutate" /\ revalidation' = Nothing
       ELSE saving' = "no" /\ UNCHANGED <<hash, revalidation>>
    /\ body' = Nothing
    /\ UNCHANGED <<seen, form, typed>>

\* It fails on its way there, or back.
SaveFails ==
    /\ saving = "patch"
    /\ \/ UNCHANGED hash
       \/ (\A f \in Fields : Accepts(Sent[f])) /\ Put(Sent)
    /\ saving' = "no" /\ body' = Nothing
    /\ UNCHANGED <<seen, revalidation, form, typed>>

ConfigNext ==
    \/ \E role \in {"admin", "user"}, fs \in SUBSET Fields :
        \E updates \in [fs -> Settings] : ApiPatch(role, updates)
    \/ PollConfig \/ Refresh \/ RefreshFails
    \/ \E f \in Fields, v \in Numbers : Type(f, v)
    \/ SaveConfig \/ SavePatch \/ SaveFails

ConfigSpec == ConfigInit /\ [][ConfigNext]_configVars
-----------------------------------------------------------------------------
\* A text that counts as one thing in the controller's comparisons and as
\* another when it is read.
Misread(v) == v.compared = NotANumber \/ v.compared # v.read

\* However the writers interleave, and whatever stays behind in a form, a
\* service reads a value in range, as long as no API client has sent a text
\* that is misread.  Such a text does get in: the comparisons let "0s", "0x10"
\* and "99999999s" pass, which are read as 0, 0 and 99999999.  A field nobody
\* has typed in is sent as it was last seen: the page never invents a value.
ConfigInRange ==
    /\ \A f \in Fields : Misread(hash[f]) \/ Read(hash[f]) \in InRange
    /\ form # Nothing => \A f \in Fields \ typed : form[f] = seen[f]

\* What an admin has typed leaves the form only when the configuration the
\* page sees has changed: the polls that find nothing new do not undo it,
\* also while a save is under way.
EditsSurvivePolls == [][\A f \in typed : f \notin typed' => seen' # seen]_configVars
=============================================================================
