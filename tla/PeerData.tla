------------------------------ MODULE PeerData ------------------------------
(***************************************************************************)
(* What SQLStore keeps per chat or user: privacy tokens, message secrets,  *)
(* the retry buffer, chat settings, and the NCT salt.  A user has a JID as *)
(* a phone number and one as a LID; lid_map says which belong together,    *)
(* and most lookups try both.                                              *)
(***************************************************************************)
EXTENDS DeviceRow, FiniteSetsExt, SequencesExt

CONSTANTS
    PeerLids, PeerPns,
    TokenBatches,   \* arguments of PutPrivacyTokens: sequences of [user, ts]
    Texts,          \* secrets, plaintexts and salts
    NoText,
    OutgoingKeep    \* how long outgoing events are kept (7 days)

ASSUME KeepAssumption == OutgoingKeep \in Nat

Jids == PeerLids \cup PeerPns

(* PrivacyToken: a user and a Unix time.                                   *)
Tokens == [user : Jids, ts : 0..MaxNow]

ASSUME TokenAssumption == TokenBatches \subseteq Seq(Tokens)

VARIABLES
    lidMap,         \* the table lid_map: pairs <<lid, pn>>
    tokens,         \* privacy_tokens: a timestamp per JID, 0 without a row
    newest,         \* history: the newest timestamp put that has not expired
    secrets,        \* message_secrets of one message per chat
    firstSecret,    \* history: the first secret put
    outgoing,       \* retry_buffer: records [chat, text, ts] of one message
    lastSent,       \* history: what was added last, and when
    setting,        \* the row of one chat in chat_settings
    lastSet,        \* history: what the columns were set to
    salt            \* nct_salt

tokenVars    == <<tokens, newest>>
secretVars   == <<secrets, firstSecret>>
outgoingVars == <<outgoing, lastSent>>
settingVars  == <<setting, lastSet, salt>>
peerVars     == <<lidMap, tokenVars, secretVars, outgoingVars, settingVars>>

NotSent  == [text |-> NoText, ts |-> 0]
Defaults == [muted |-> 0, pinned |-> FALSE, archived |-> FALSE]
NothingSet == [muted |-> "zero", pinned |-> FALSE, archived |-> FALSE]

PeerInit ==
    /\ lidMap = {}
    /\ tokens = [u \in Jids |-> 0] /\ newest = tokens
    /\ secrets = [u \in Jids |-> NoText] /\ firstSecret = secrets
    /\ outgoing = {} /\ lastSent = [u \in Jids |-> NotSent]
    /\ setting = Defaults /\ lastSet = NothingSet /\ salt = NoText

(* The JID of the same user with the other server, as the subselects find  *)
(* it and Device.GetAltJID asks the LID store for it.                      *)
Alt(u) == {r[2] : r \in {r \in lidMap : r[1] = u}} \cup {r[1] : r \in {r \in lidMap : r[2] = u}}

\* Mutant: the JID is looked for as it is given.
OwnForm(u) == {u}

Forms(u) == {u} \cup Alt(u)

(* The LID store takes a mapping (LidTable).                               *)
LearnMapping(l, p) ==
    /\ lidMap' = {r \in lidMap : r[1] # l /\ r[2] # p} \cup {<<l, p>>}
    /\ UNCHANGED <<tokenVars, secretVars, outgoingVars, settingVars>>

-----------------------------------------------------------------------------
(* Privacy tokens: no foreign key.                                         *)

\* Mutant: the upsert has no WHERE.
LaterToken(T, token) == [T EXCEPT ![token.user] = token.ts]

NewerToken(T, token) ==
    [T EXCEPT ![token.user] = IF token.ts >= @ THEN token.ts ELSE @]

PutPrivacyTokens(b) ==
    /\ Callable
    /\ tokens' = FoldLeft(NewerToken, tokens, b)
    /\ newest' = [u \in Jids |->
          Max({newest[u]} \cup {b[i].ts : i \in {i \in DOMAIN b : b[i].user = u}})]
    /\ UNCHANGED <<lidMap, secretVars, outgoingVars, settingVars>>

(* The newest of the rows of both forms.                                   *)
GetPrivacyToken(u) == Max({tokens[v] : v \in Forms(u)})

DeleteExpiredPrivacyTokens(cutoff) ==
    /\ Callable
    /\ tokens' = [u \in Jids |-> IF tokens[u] < cutoff THEN 0 ELSE tokens[u]]
    /\ newest' = [u \in Jids |-> IF newest[u] < cutoff THEN 0 ELSE newest[u]]
    /\ UNCHANGED <<lidMap, secretVars, outgoingVars, settingVars>>

-----------------------------------------------------------------------------
(* ON CONFLICT DO NOTHING.                                                 *)
PutMessageSecret(u, x) ==
    /\ Insertable
    /\ secrets' = [secrets EXCEPT ![u] = IF @ = NoText THEN x ELSE @]
    /\ firstSecret' = [firstSecret EXCEPT ![u] = IF @ = NoText THEN x ELSE @]
    /\ UNCHANGED <<lidMap, tokenVars, outgoingVars, settingVars>>

(* PutMessageSecrets is one transaction: all of them or none.              *)
PutMessageSecrets(f) ==
    /\ Insertable
    /\ secrets' = [u \in Jids |-> IF secrets[u] = NoText THEN f[u] ELSE secrets[u]]
    /\ firstSecret' = [u \in Jids |-> IF firstSecret[u] = NoText THEN f[u] ELSE firstSecret[u]]
    /\ UNCHANGED <<lidMap, tokenVars, outgoingVars, settingVars>>

(* What QueryRow may return: any row of the two forms.                     *)
GetMessageSecret(u) == {secrets[v] : v \in {v \in Forms(u) : secrets[v] # NoText}}

-----------------------------------------------------------------------------
\* Mutant: an event that is added again keeps its row.
KeepEvent(R, u, x, ts) ==
    R \cup {[chat |-> v, text |-> x, ts |-> ts] : v \in {u} \ {r.chat : r \in R}}

PutEvent(R, u, x, ts) ==
    {r \in R : r.chat # u} \cup {[chat |-> u, text |-> x, ts |-> ts]}

(* (With the Noop store it reports success and stores nothing.)            *)
AddOutgoingEvent(u, x) ==
    /\ Insertable
    /\ outgoing' = PutEvent(outgoing, u, x, now)
    /\ lastSent' = [lastSent EXCEPT ![u] = [text |-> x, ts |-> now]]
    /\ UNCHANGED <<lidMap, tokenVars, secretVars, settingVars>>

(* The caller gives the chat and its alternative; again any of the rows.   *)
GetOutgoingEvent(u) == {r.text : r \in {r \in outgoing : r.chat \in Forms(u)}}

DeleteOldOutgoingEvents ==
    /\ outgoing' = {r \in outgoing : ~(r.ts + OutgoingKeep < now)}
    /\ UNCHANGED <<lidMap, tokenVars, secretVars, lastSent, settingVars>>

-----------------------------------------------------------------------------
(* PutMutedUntil: "epoch" is the time with the Unix timestamp 0.           *)
MuteTimes == {"zero", "forever", "epoch", "later"}

StoredMute(t) == CASE t = "forever" -> 0 - 1 [] t = "later" -> 1 [] OTHER -> 0

ReadMute(n) == IF n < 0 THEN "forever" ELSE IF n > 0 THEN "later" ELSE "zero"

(* One upsert per column, the others keep their value or their default.    *)
SetColumn(c, stored, v) ==
    /\ Insertable
    /\ setting' = [setting EXCEPT ![c] = stored]
    /\ lastSet' = [lastSet EXCEPT ![c] = v]
    /\ UNCHANGED <<lidMap, tokenVars, secretVars, outgoingVars, salt>>

PutMutedUntil(t) == SetColumn("muted", StoredMute(t), t)
PutPinned(v)     == SetColumn("pinned", v, v)
PutArchived(v)   == SetColumn("archived", v, v)

GetChatSettings == [setting EXCEPT !.muted = ReadMute(@)]

PutNCTSalt(x)  == Insertable /\ salt' = x
                  /\ UNCHANGED <<lidMap, tokenVars, secretVars, outgoingVars, setting, lastSet>>
DeleteNCTSalt  == Callable /\ salt' = NoText
                  /\ UNCHANGED <<lidMap, tokenVars, secretVars, outgoingVars, setting, lastSet>>

-----------------------------------------------------------------------------
(* All but tokens and lid_map refer to the device.                         *)
PeerCascade ==
    /\ secrets' = [u \in Jids |-> NoText] /\ firstSecret' = secrets'
    /\ outgoing' = {} /\ lastSent' = [u \in Jids |-> NotSent]
    /\ setting' = Defaults /\ lastSet' = NothingSet /\ salt' = NoText
    /\ UNCHANGED <<lidMap, tokenVars>>

MapNext     == \E l \in PeerLids, p \in PeerPns : LearnMapping(l, p)
TokenNext   == \/ \E b \in TokenBatches : PutPrivacyTokens(b)
               \/ \E c \in 1..MaxNow : DeleteExpiredPrivacyTokens(c)
SecretNext  == \/ \E u \in Jids, x \in Texts : PutMessageSecret(u, x)
               \/ \E f \in [Jids -> Texts \cup {NoText}] : PutMessageSecrets(f)
SentNext    == (\E u \in Jids, x \in Texts : AddOutgoingEvent(u, x)) \/ DeleteOldOutgoingEvents
SettingNext == \/ \E t \in MuteTimes : PutMutedUntil(t)
               \/ \E v \in BOOLEAN : PutPinned(v) \/ PutArchived(v)
               \/ \E x \in Texts : PutNCTSalt(x)
               \/ DeleteNCTSalt

PeerTypeOK ==
    /\ lidMap \subseteq PeerLids \X PeerPns
    /\ tokens \in [Jids -> 0..MaxNow] /\ newest \in [Jids -> 0..MaxNow]
    /\ secrets \in [Jids -> Texts \cup {NoText}]
    /\ outgoing \subseteq [chat : Jids, text : Texts, ts : 0..MaxNow]
    /\ setting \in [muted : {0 - 1, 0, 1}, pinned : BOOLEAN, archived : BOOLEAN]
    /\ salt \in Texts \cup {NoText}

-----------------------------------------------------------------------------
(* What lid_map has for one user.                                          *)
SameUser(u) == {v \in Jids : v = u \/ {<<u, v>>, <<v, u>>} \cap lidMap # {}}

(* Whichever JID a token is asked for under, and in whatever order tokens  *)
(* arrive, the answer is the newest put under either JID and not expired.  *)
NewestTokenIsReturned ==
    \A u \in Jids : GetPrivacyToken(u) = Max({newest[v] : v \in SameUser(u)})

(* What was stored under one JID of a user is found under the other as     *)
(* soon as lid_map has the pair: a secret is the first that was stored, an *)
(* outgoing event the last, for as long as it is kept.  A chat has the     *)
(* settings it was given last (a mute until the epoch reads as none).      *)
StoredIsReadBack ==
    \A u \in Jids :
        LET fresh == {v \in SameUser(u) : lastSent[v] # NotSent
                                       /\ lastSent[v].ts + OutgoingKeep >= now}
        IN  /\ GetMessageSecret(u) = {firstSecret[v] : v \in SameUser(u)} \ {NoText}
            /\ {lastSent[v].text : v \in fresh} \subseteq GetOutgoingEvent(u)
            /\ GetOutgoingEvent(u) \subseteq {lastSent[v].text : v \in SameUser(u)}
            /\ GetChatSettings.muted = IF lastSet.muted = "epoch" THEN "zero" ELSE lastSet.muted
            /\ GetChatSettings.pinned = lastSet.pinned
            /\ GetChatSettings.archived = lastSet.archived
=============================================================================
