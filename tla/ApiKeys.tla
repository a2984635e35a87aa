------------------------------- MODULE ApiKeys -------------------------------
(***************************************************************************)
(* The API key: where it comes from, when it is stored and when it is      *)
(* thrown away (commands.ts, cli.ts, credentials.ts, OpenRouterService).   *)
(*                                                                         *)
(* All instances of a user share one entry of the system's keychain.  Each *)
(* takes its key from there or from the environment when it starts, checks *)
(* it, and replaces it when OpenRouter rejects it.  Between a check and    *)
(* what follows from it other instances may change the entry, and          *)
(* OpenRouter may revoke a key at any time.                                *)
(***************************************************************************)
EXTENDS Naturals, FiniteSets

CONSTANTS Procs, Keys, NoKey,
          Modes,     \* of the instances: "dashboard", "plain" or "batch" (no terminal)
          Env,       \* OPENROUTER_API_KEY of each instance, or NoKey
          MaxUses    \* bound: requests and key commands after a start, in total

ASSUME KeysAssumption == NoKey \notin Keys /\ Env \in [Procs -> Keys \cup {NoKey}]

VARIABLES
    mode,      \* of each instance
    keychain,  \* the stored key, or NoKey
    health,    \* what OpenRouter thinks of each key: "good", "spent", "revoked"
    pc,        \* what each instance is doing
    key,       \* #apiKey
    origin,    \* #keyOrigin
    spare,     \* initialKeyFallback: the environment's key, next to a stored one
    cand,      \* the key being validated, in a temporary service
    reason,    \* what it is validated for: "startup", "spare" or "prompt"
    drops,     \* the stored key goes after a rejection: origin was "keychain"
    clients,   \* the keys cached SDK clients were built with
    uses

\* History; no step reads it.
VARIABLES
    refused,   \* the active key each instance was last told is rejected, or NoKey
    lost,      \* usable keys deleted from the keychain by nobody's command
    kinds      \* what happened that properties except

keysVars == <<mode, keychain, health, pc, key, origin, spare, cand, reason, drops, clients, uses>>
history == <<refused, lost, kinds>>
allVars == <<keysVars, history>>

Places == {"off", "check", "delete", "spare", "prompt", "validate", "store", "idle", "away"}

KeysInit ==
    /\ mode \in [Procs -> Modes]
    /\ keychain \in Keys \cup {NoKey}
    /\ health = [k \in Keys |-> "good"]
    /\ pc = [p \in Procs |-> "off"]
    /\ key = [p \in Procs |-> NoKey]
    /\ origin = [p \in Procs |-> "none"]
    /\ spare = [p \in Procs |-> NoKey]
    /\ cand = [p \in Procs |-> NoKey]
    /\ reason = [p \in Procs |-> "startup"]
    /\ drops = [p \in Procs |-> FALSE]
    /\ clients = [p \in Procs |-> {}]
    /\ uses = 0
    /\ lost = {} /\ kinds = {}
    /\ refused = [p \in Procs |-> NoKey]

-----------------------------------------------------------------------------
(* The service: setKey and forgetKey drop the clients built with another key. *)

SetKey(p, k, o) ==
    /\ key' = [key EXCEPT ![p] = k]
    /\ origin' = [origin EXCEPT ![p] = o]
    /\ clients' = [clients EXCEPT ![p] = {}]

SameKey(p) == UNCHANGED <<key, origin, clients>>
NoSpare(p) == spare' = [spare EXCEPT ![p] = NoKey]  \* only the start knows it
Goto(p, place) == pc' = [pc EXCEPT ![p] = place]

\* Who may read the account's credits (describeKeyCapabilities); /credits may refuse a
\* key nevertheless (401, 403), which hides the credits and says nothing of the key.
Sources == {"management-key", "inference-key", "unknown", "none"}
CreditsRead(source) == IF source = "none" THEN {FALSE} ELSE BOOLEAN

\* checkBalance, then assertSpendAvailable.  MUTANT: a key without money is rejected.
SpentIsRejected(k, read) == IF health[k] = "good" THEN "ok" ELSE "rejected"
Report(k, read) ==
    IF health[k] = "revoked" THEN "rejected" ELSE IF health[k] = "spent" /\ read THEN "spent" ELSE "ok"

\* A check may also end without an answer, or be aborted.
Reports(k) == {"failed"} \cup {Report(k, read) : read \in UNION {CreditsRead(s) : s \in Sources}}

\* The active key was rejected: it is forgotten at once, then taken out of the keychain
\* if it came from there (discardRejectedInferenceKey).
Discard(p) ==
    /\ SetKey(p, NoKey, "none")
    /\ Goto(p, "delete")
    /\ drops' = [drops EXCEPT ![p] = origin[p] = "keychain"]
    /\ cand' = [cand EXCEPT ![p] = key[p]]   \* activeKey, compared with the spare

Refuse(p, k) == refused' = [refused EXCEPT ![p] = k]

-----------------------------------------------------------------------------
(* The start *)

\* main: the stored key before the environment's; a keychain that cannot be read counts
\* as empty.
Start(p) ==
    /\ pc[p] = "off"
    /\ \E stored \in {keychain, NoKey} :
          LET k == IF stored # NoKey THEN stored ELSE Env[p] IN
          /\ key' = [key EXCEPT ![p] = k]
          /\ origin' = [origin EXCEPT ![p] =
                IF stored # NoKey THEN "keychain" ELSE IF k # NoKey THEN "environment" ELSE "none"]
          /\ spare' = [spare EXCEPT ![p] = IF stored # NoKey THEN Env[p] ELSE NoKey]
          /\ Goto(p, IF k # NoKey THEN "check" ELSE IF mode[p] = "batch" THEN "away" ELSE "prompt")
    /\ reason' = [reason EXCEPT ![p] = "startup"]
    /\ UNCHANGED <<mode, keychain, health, cand, drops, clients, uses, history>>

\* initializeDashboardKey, promptForValidKey: check the active key.  An accepted key that
\* is not from the keychain is stored.  An error other than a rejection is shown by the
\* dashboard, which goes on with the key, and ends the other modes.
CheckOk(p) ==
    /\ pc[p] = "check" /\ "ok" \in Reports(key[p])
    /\ IF origin[p] = "keychain"
       THEN Goto(p, "idle") /\ UNCHANGED cand
       ELSE Goto(p, "store") /\ cand' = [cand EXCEPT ![p] = key[p]]
    /\ NoSpare(p)
    /\ SameKey(p)
    /\ UNCHANGED <<mode, keychain, health, reason, drops, uses, history>>

CheckRejected(p) ==
    /\ pc[p] = "check" /\ "rejected" \in Reports(key[p])
    /\ Discard(p)
    /\ Refuse(p, key[p])
    /\ UNCHANGED <<mode, keychain, health, spare, reason, uses, lost, kinds>>

CheckFailed(p) ==
    /\ pc[p] = "check" /\ Reports(key[p]) \cap {"failed", "spent"} # {}
    /\ Goto(p, IF mode[p] = "dashboard" THEN "idle" ELSE "away")
    /\ NoSpare(p)
    /\ SameKey(p)
    /\ UNCHANGED <<mode, keychain, health, cand, reason, drops, uses, history>>

\* CredentialStore.delete, if the key came from the keychain; a failure is only shown.
\* Then the spare key, if it is another one, and the user.
AfterDelete(p) ==
    IF mode[p] = "batch" THEN "away"
    ELSE IF spare[p] \notin {NoKey, cand[p]} THEN "spare" ELSE "prompt"

\* MUTANT: an entry that is already gone is not expected.
DeleteExisting(p) ==
    /\ pc[p] = "delete" /\ keychain # NoKey
    /\ keychain' = IF drops[p] THEN NoKey ELSE keychain
    /\ Goto(p, AfterDelete(p))
    /\ cand' = [cand EXCEPT ![p] = NoKey]
    /\ drops' = [drops EXCEPT ![p] = FALSE]
    /\ SetKey(p, NoKey, "none")
    /\ IF AfterDelete(p) = "spare" THEN UNCHANGED spare ELSE NoSpare(p)
    /\ UNCHANGED <<mode, health, reason, uses, history>>
Delete(p) ==
    /\ pc[p] = "delete"
    /\ \/ /\ drops[p] /\ keychain # NoKey
          /\ keychain' = NoKey
          /\ lost' = IF health[keychain] = "revoked" THEN lost ELSE lost \cup {keychain}
          /\ kinds' = IF keychain = cand[p] THEN kinds ELSE kinds \cup {"replaced meanwhile"}
          /\ SetKey(p, NoKey, "none")
       \/ UNCHANGED <<keychain, lost, kinds>> /\ SameKey(p)
    /\ Goto(p, AfterDelete(p))
    /\ cand' = [cand EXCEPT ![p] = NoKey]
    /\ drops' = [drops EXCEPT ![p] = FALSE]
    /\ IF AfterDelete(p) = "spare" THEN UNCHANGED spare ELSE NoSpare(p)
    /\ UNCHANGED <<mode, health, reason, uses, refused>>

\* The plain modes make the spare key the active one and check it; the dashboard
\* validates it first.
TakeSpare(p) ==
    /\ pc[p] = "spare"
    /\ NoSpare(p)
    /\ IF mode[p] = "dashboard"
       THEN /\ cand' = [cand EXCEPT ![p] = spare[p]]
            /\ reason' = [reason EXCEPT ![p] = "spare"]
            /\ Goto(p, "validate") /\ SameKey(p)
       ELSE /\ SetKey(p, spare[p], "environment")
            /\ Goto(p, "check") /\ UNCHANGED <<cand, reason>>
    /\ UNCHANGED <<mode, keychain, health, drops, uses, history>>

-----------------------------------------------------------------------------
(* A new key: entered, validated in a service of its own, stored, made active *)

Enter(p) ==
    /\ pc[p] = "prompt"
    /\ \/ /\ cand' \in {[cand EXCEPT ![p] = k] : k \in Keys}
          /\ reason' = [reason EXCEPT ![p] = "prompt"]
          /\ Goto(p, "validate")
       \/ Goto(p, "idle") /\ UNCHANGED <<cand, reason>>  \* the prompt is cancelled
    /\ SameKey(p)
    /\ UNCHANGED <<mode, keychain, health, spare, drops, uses, history>>

ValidateOk(p) ==
    /\ pc[p] = "validate" /\ "ok" \in Reports(cand[p])
    /\ Goto(p, "store")
    /\ SameKey(p)
    /\ UNCHANGED <<mode, keychain, health, spare, cand, reason, drops, uses, refused, lost, kinds>>

\* A prompt asks again whatever the error; the spare key's error leads to the prompt only
\* when it is a rejection.  An abort leaves everything as it is.
ValidateFailed(p) ==
    /\ pc[p] = "validate"
    /\ \E o \in Reports(cand[p]) \cap {"rejected", "spent", "failed"} :
          \/ Goto(p, IF reason[p] = "prompt" \/ o = "rejected" THEN "prompt" ELSE "idle")
          \/ Goto(p, "idle")
    /\ cand' = [cand EXCEPT ![p] = NoKey]
    /\ reason' = [reason EXCEPT ![p] = "startup"]
    /\ SameKey(p)
    /\ UNCHANGED <<mode, keychain, health, spare, drops, uses, history>>

\* CredentialStore.set, then setKey.  If the keychain cannot be written the plain modes
\* keep the key in memory; the dashboard does not take it.
Store(p) ==
    /\ pc[p] = "store"
    /\ \/ /\ keychain' = cand[p]
          /\ SetKey(p, cand[p], "keychain")
          /\ Goto(p, "idle")
       \/ /\ UNCHANGED keychain
          /\ IF mode[p] = "dashboard"
             THEN /\ SameKey(p)
                  /\ Goto(p, IF reason[p] = "prompt" THEN "prompt" ELSE "idle")
             ELSE /\ IF reason[p] = "prompt" THEN SetKey(p, cand[p], "interactive") ELSE SameKey(p)
                  /\ Goto(p, "idle")
    /\ cand' = [cand EXCEPT ![p] = NoKey]
    /\ reason' = [reason EXCEPT ![p] = "startup"]
    /\ refused' = [refused EXCEPT ![p] = NoKey]
    /\ UNCHANGED <<mode, health, spare, drops, uses, lost, kinds>>

-----------------------------------------------------------------------------
(* Later *)

\* A request with the active key: the check before a run, /balance, /reconnect, /key.
\* The dashboard discards a rejected key and asks for another; the plain loop starts
\* promptForValidKey, which checks the key once more.
UseOk(p) ==
    /\ pc[p] = "idle" /\ uses < MaxUses
    /\ key[p] # NoKey /\ "ok" \in Reports(key[p])
    /\ clients' = [clients EXCEPT ![p] = @ \cup {key[p]}]
    /\ uses' = uses + 1
    /\ UNCHANGED <<mode, keychain, health, pc, key, origin, spare, cand, reason, drops,
                   refused, lost, kinds>>

\* A rejection, with the active key or with none: key is the request's own, or it is a
\* request that carries no key, as the one for the model list, and was refused (403).
UseRejected(p) ==
    /\ pc[p] = "idle" /\ uses < MaxUses
    /\ uses' = uses + 1
    /\ \/ /\ key[p] # NoKey /\ "rejected" \in Reports(key[p])
          /\ UNCHANGED kinds
       \/ /\ key[p] # NoKey /\ mode[p] = "dashboard"
          /\ kinds' = kinds \cup {"refused elsewhere"}
       \/ key[p] = NoKey /\ UNCHANGED kinds
    /\ IF mode[p] = "dashboard"
       THEN Discard(p) /\ (IF key[p] # NoKey THEN Refuse(p, key[p]) ELSE UNCHANGED refused)
       ELSE /\ Goto(p, IF key[p] # NoKey THEN "check" ELSE IF mode[p] = "batch" THEN "away" ELSE "prompt")
            /\ SameKey(p) /\ UNCHANGED <<drops, cand, refused>>
    /\ UNCHANGED <<mode, keychain, health, spare, reason, lost>>

\* /key set.
ChangeKey(p) ==
    /\ pc[p] = "idle" /\ uses < MaxUses /\ mode[p] # "batch"
    /\ uses' = uses + 1
    /\ Goto(p, "prompt")
    /\ SameKey(p)
    /\ UNCHANGED <<mode, keychain, health, spare, cand, reason, drops, history>>

\* /key forget: first the keychain, which may fail and then keeps the key in memory too.
ForgetKey(p) ==
    /\ pc[p] = "idle" /\ uses < MaxUses /\ mode[p] # "batch"
    /\ uses' = uses + 1
    /\ \/ keychain' = NoKey /\ SetKey(p, NoKey, "none")
       \/ UNCHANGED keychain /\ SameKey(p)
    /\ UNCHANGED <<mode, health, pc, spare, cand, reason, drops, history>>

\* OpenRouter: a key runs out of money, or is revoked for good.
Worsen(k) ==
    /\ \/ health[k] = "good" /\ health' = [health EXCEPT ![k] = "spent"]
       \/ health[k] # "revoked" /\ health' = [health EXCEPT ![k] = "revoked"]
    /\ UNCHANGED <<mode, keychain, pc, key, origin, spare, cand, reason, drops, clients, uses, history>>

-----------------------------------------------------------------------------
Check(p) == CheckOk(p) \/ CheckRejected(p) \/ CheckFailed(p) \/ Delete(p) \/ TakeSpare(p)
                \/ ValidateOk(p) \/ ValidateFailed(p) \/ Store(p)
User(p) == Start(p) \/ Enter(p) \/ UseOk(p) \/ UseRejected(p) \/ ChangeKey(p) \/ ForgetKey(p)

KeysNext == (\E p \in Procs : Check(p) \/ User(p)) \/ \E k \in Keys : Worsen(k)

\* Checks end by their time limit; users need not do anything.
KeysSpec == KeysInit /\ [][KeysNext]_allVars /\ \A p \in Procs : WF_allVars(Check(p))
-----------------------------------------------------------------------------
KeysTypeOK ==
    /\ mode \in [Procs -> Modes]
    /\ keychain \in Keys \cup {NoKey}
    /\ health \in [Keys -> {"good", "spent", "revoked"}]
    /\ pc \in [Procs -> Places]
    /\ key \in [Procs -> Keys \cup {NoKey}]
    /\ origin \in [Procs -> {"none", "environment", "keychain", "interactive"}]
    /\ \A p \in Procs : key[p] = NoKey <=> origin[p] = "none"
    /\ spare \in [Procs -> Keys \cup {NoKey}]
    /\ cand \in [Procs -> Keys \cup {NoKey}]
    /\ \A p \in Procs : pc[p] \in {"validate", "store"} => cand[p] # NoKey
    /\ clients \in [Procs -> SUBSET Keys]

\* "Only for credentials the server actually rejected or a key whose validity has run
\* out" (shouldReplaceCredential): a usable key leaves the keychain only by /key forget.
UsableKeyIsKept == lost = {}

\* The same, with the two cases in which it fails: another instance has replaced the
\* entry since the rejected key was read from it, and a refusal that is not about the key.
UsableKeyIsKeptAlone == lost # {} => kinds # {}

\* An instance that was told its key is rejected does not go on with it, although the
\* keychain may not let go of it and the environment may hold it too.
RejectedKeyIsNotUsed ==
    \A p \in Procs : pc[p] = "idle" /\ key[p] # NoKey =>
        key[p] # refused[p] \/ "refused elsewhere" \in kinds

\* A request never goes out under another key than the one in force: cached clients
\* carry the key they were built with (client, dropClients).
ClientsFollowKey == \A p \in Procs : clients[p] \subseteq {key[p]}

\* A check, with the deletion, the spare key and the storing it leads to, ends: with a
\* usable prompt, an idle instance or the end of the process.
CheckEnds ==
    \A p \in Procs :
        pc[p] \in {"check", "delete", "spare", "validate", "store"}
            ~> pc[p] \in {"idle", "prompt", "away"}

\* The key in force is the right one: usable keys stay, rejected ones go, and no cached client
\* keeps another (shouldReplaceCredential, dropClients).
KeyInForce == UsableKeyIsKeptAlone /\ RejectedKeyIsNotUsed /\ ClientsFollowKey
=============================================================================
