----------------------------- MODULE Enrollment -----------------------------
(***************************************************************************)
(* How a host gets its agent: an editor mints a single-use token           *)
(* (agents.service.ts), an installer on the host exchanges it for a target *)
(* and an API key (main.rs, install.rs, install.sh), saves them            *)
(* (config.rs) and restarts the agent, which uses them from then on        *)
(* (apiKeyAuth.ts).  Requests to register go on in the API after the       *)
(* installer has given them up or was killed.  Keys are numbers, given out *)
(* in order; a database transaction takes effect when it commits.          *)
(***************************************************************************)
EXTENDS Naturals, FiniteSets

CONSTANTS
    Hosts, Identities,
    Name,               \* the host name in an identity; the rest is the address
    IdentityOf,         \* host name and address, by host
    TargetIds, Tokens,
    Calls,              \* requests to register that may be in progress together
    Null

Token == [state : {"unminted", "minted", "expired", "used"},
          target : TargetIds \cup {Null}, key : Nat \cup {Null}]
Target == [identity : Identities, key : Nat]
Credentials == [target : TargetIds, key : Nat]

ASSUME EnrollmentAssumption ==
    /\ IdentityOf \in [Hosts -> Identities]
    /\ DOMAIN Name = Identities
    /\ Null \notin TargetIds \cup Calls \cup Nat
    /\ Null \notin Target \cup Credentials

VARIABLES
    tokens, targets,
    issued,             \* keys given out
    calls,
    installers,         \* by host
    files,              \* the saved credentials, by host
    agents              \* the credentials the running agent has loaded, by host

vars == <<tokens, targets, issued, calls, installers, files, agents>>

NoCall == [stage |-> "none"]
NoInstaller == [stage |-> "none"]

Init ==
    /\ tokens = [t \in Tokens |-> [state |-> "unminted", target |-> Null, key |-> Null]]
    /\ targets = [id \in TargetIds |-> Null]
    /\ issued = 0
    /\ calls = [c \in Calls |-> NoCall]
    /\ installers = [h \in Hosts |-> NoInstaller]
    /\ files = [h \in Hosts |-> Null]
    /\ agents = [h \in Hosts |-> Null]

\* apiKeyAuth: the key is the one the target has now.
Accepted(creds) ==
    creds # Null /\ targets[creds.target] # Null /\ targets[creds.target].key = creds.key

-----------------------------------------------------------------------------
(* The API. *)

MintEnrollmentToken(t) ==
    /\ tokens[t].state = "unminted"
    /\ tokens' = [tokens EXCEPT ![t].state = "minted"]
    /\ UNCHANGED <<targets, issued, calls, installers, files, agents>>

\* An hour passes.
Expire(t) ==
    /\ tokens[t].state = "minted"
    /\ tokens' = [tokens EXCEPT ![t].state = "expired"]
    /\ UNCHANGED <<targets, issued, calls, installers, files, agents>>

\* Mutant: the host name alone tells which target to use again.
MutantSameHost(identity, host) == Name[identity] = Name[IdentityOf[host]]

\* Host name and source address.
SameHost(identity, host) == identity = IdentityOf[host]

TargetsOf(host) == {id \in TargetIds : targets[id] # Null /\ SameHost(targets[id].identity, host)}

\* Mutant: a token that was used is taken again.
MutantMayClaim(t) == tokens[t].state \in {"minted", "used"}

\* A token expires here for a claim when it is made; the code's `now` is from
\* just before the transaction, and a token that expires in between is claimed
\* as if it did a moment later.
MayClaim(t) == tokens[t].state = "minted"

\* The transaction claims the token, whose row stays locked until it ends, and
\* looks for the host's target.
Claim(c) ==
    /\ calls[c].stage = "sent"
    /\ MayClaim(calls[c].token)
    /\ \A d \in Calls : calls[d].stage = "claimed" => calls[d].token # calls[c].token
    /\ \E found \in IF TargetsOf(calls[c].host) = {} THEN {Null} ELSE TargetsOf(calls[c].host) :
          calls' = [calls EXCEPT ![c] =
              [stage |-> "claimed", token |-> @.token, host |-> @.host, found |-> found]]
    /\ UNCHANGED <<tokens, targets, issued, installers, files, agents>>

\* 401
Reject(c) ==
    /\ calls[c].stage = "sent"
    /\ ~MayClaim(calls[c].token)
    /\ calls' = [calls EXCEPT ![c] = [stage |-> "rejected"]]
    /\ UNCHANGED <<tokens, targets, issued, installers, files, agents>>

\* The found target gets the new key, or a new target is created; the token is
\* bound to it.
CommitRegister(c) ==
    /\ calls[c].stage = "claimed"
    /\ issued' = issued + 1
    /\ \E id \in TargetIds :
          /\ IF calls[c].found # Null THEN id = calls[c].found ELSE targets[id] = Null
          /\ targets' = [targets EXCEPT ![id] =
                [identity |-> IF @ = Null THEN IdentityOf[calls[c].host] ELSE @.identity, key |-> issued']]
          /\ tokens' = [tokens EXCEPT ![calls[c].token] =
                [state |-> "used", target |-> id, key |-> issued']]
          /\ calls' = [calls EXCEPT ![c] =
                [stage |-> "registered", credentials |-> [target |-> id, key |-> issued']]]
    /\ UNCHANGED <<installers, files, agents>>

\* The request fails before it commits: a 5xx, and the token stays usable.
FailRegister(c) ==
    /\ calls[c].stage \in {"sent", "claimed"}
    /\ calls' = [calls EXCEPT ![c] = [stage |-> "failed"]]
    /\ UNCHANGED <<tokens, targets, issued, installers, files, agents>>

-----------------------------------------------------------------------------
(* The installer. *)

Installing(h, stage) == installers[h].stage = stage

\* Somebody runs the install command, or the downloaded exe, with its token.
StartInstall(h, t) ==
    /\ Installing(h, "none")
    /\ tokens[t].state # "unminted"
    /\ installers' = [installers EXCEPT ![h] =
          [stage |-> "enrolling", token |-> t]]
    /\ UNCHANGED <<tokens, targets, issued, calls, files, agents>>

Register(h, c) ==
    /\ Installing(h, "enrolling")
    /\ calls[c] = NoCall
    /\ calls' = [calls EXCEPT ![c] = [stage |-> "sent", token |-> installers[h].token, host |-> h]]
    /\ installers' = [installers EXCEPT ![h] =
          [stage |-> "waiting", token |-> @.token, call |-> c]]
    /\ UNCHANGED <<tokens, targets, issued, files, agents>>

Free(c) == calls' = [calls EXCEPT ![c] = NoCall]

\* with_retry: network errors and 5xx are tried again.
RetryRegister(h) ==
    /\ Installing(h, "waiting")
    /\ installers' = [installers EXCEPT ![h] =
          [stage |-> "enrolling", token |-> @.token]]
    /\ IF calls[installers[h].call].stage = "failed" THEN Free(installers[h].call) ELSE UNCHANGED calls
    /\ UNCHANGED <<tokens, targets, issued, files, agents>>

\* "get a new install command from the Monli UI"
GiveUp(h) ==
    /\ Installing(h, "waiting") /\ calls[installers[h].call].stage = "rejected"
    /\ installers' = [installers EXCEPT ![h] = NoInstaller]
    /\ Free(installers[h].call)
    /\ UNCHANGED <<tokens, targets, issued, files, agents>>

Enrolled(h) ==
    /\ Installing(h, "waiting") /\ calls[installers[h].call].stage = "registered"
    /\ installers' = [installers EXCEPT ![h] =
          [stage |-> "enrolled", credentials |-> calls[@.call].credentials]]
    /\ Free(installers[h].call)
    /\ UNCHANGED <<tokens, targets, issued, files, agents>>

\* config::save renames a complete file into place.
SaveCredentials(h) ==
    /\ Installing(h, "enrolled")
    /\ files' = [files EXCEPT ![h] = installers[h].credentials]
    /\ installers' = [installers EXCEPT ![h] = [stage |-> "saved"]]
    /\ UNCHANGED <<tokens, targets, issued, calls, agents>>

\* The agent that runs is stopped, so that its program can be replaced.
StopAgent(h) ==
    /\ Installing(h, "saved")
    /\ agents' = [agents EXCEPT ![h] = Null]
    /\ installers' = [installers EXCEPT ![h] = [stage |-> "stopped"]]
    /\ UNCHANGED <<tokens, targets, issued, calls, files>>

StartService(h) ==
    /\ Installing(h, "stopped")
    /\ agents' = [agents EXCEPT ![h] = files[h]]
    /\ installers' = [installers EXCEPT ![h] = NoInstaller]
    /\ UNCHANGED <<tokens, targets, issued, calls, files>>

\* The installer is killed, or a step of it fails: the save, or stopping the
\* running agent.
AbortInstall(h) ==
    /\ ~Installing(h, "none")
    /\ installers' = [installers EXCEPT ![h] = NoInstaller]
    /\ UNCHANGED <<tokens, targets, issued, calls, files, agents>>

\* A call nobody waits for comes to its end unheard.
Unheard(c) ==
    /\ calls[c].stage \in {"registered", "rejected", "failed"}
    /\ \A h \in Hosts : Installing(h, "waiting") => installers[h].call # c
    /\ Free(c)
    /\ UNCHANGED <<tokens, targets, issued, installers, files, agents>>

\* The host boots, or the service is started again after the agent ended.
StartAgent(h) ==
    /\ files[h] # Null
    /\ agents' = [agents EXCEPT ![h] = files[h]]
    /\ UNCHANGED <<tokens, targets, issued, calls, installers, files>>

-----------------------------------------------------------------------------

ApiStep ==
    \/ \E t \in Tokens : MintEnrollmentToken(t) \/ Expire(t)
    \/ \E c \in Calls : Claim(c) \/ Reject(c) \/ CommitRegister(c) \/ FailRegister(c) \/ Unheard(c)

InstallerStep(h) ==
    \/ \E t \in Tokens : StartInstall(h, t)
    \/ \E c \in Calls : Register(h, c)
    \/ RetryRegister(h) \/ GiveUp(h) \/ Enrolled(h)
    \/ SaveCredentials(h) \/ StopAgent(h) \/ StartService(h)

Next ==
    \/ ApiStep
    \/ \E h \in Hosts : InstallerStep(h) \/ StartAgent(h) \/ AbortInstall(h)

Spec == Init /\ [][Next]_vars

-----------------------------------------------------------------------------
(* The data at the end of the exe that Windows hosts download: the server   *)
(* and the token, their length, and a mark (createWindowsAgentTrailer).     *)

TrailerLen == 12
MaxPayload == 4096

\* baked.rs: what a file of this size is taken for that has this length and mark
\* in its trailer, and a server and a token in its data or not.
ReadTrailer(size, len, marked, complete) ==
    IF size < TrailerLen \/ ~marked THEN [kind |-> "plain"]
    ELSE IF len > MaxPayload \/ len > size - TrailerLen \/ ~complete THEN [kind |-> "corrupt"]
    ELSE [kind |-> "baked", exeLen |-> size - TrailerLen - len]

-----------------------------------------------------------------------------
(* Properties. *)

CallsTyped ==
    calls \in [Calls ->
        {NoCall, [stage |-> "rejected"], [stage |-> "failed"]}
        \cup [stage : {"sent"}, token : Tokens, host : Hosts]
        \cup [stage : {"claimed"}, token : Tokens, host : Hosts, found : TargetIds \cup {Null}]
        \cup [stage : {"registered"}, credentials : Credentials]]

InstallersTyped ==
    installers \in [Hosts ->
        {NoInstaller, [stage |-> "saved"], [stage |-> "stopped"]}
        \cup [stage : {"enrolling"}, token : Tokens]
        \cup [stage : {"waiting"}, token : Tokens, call : Calls]
        \cup [stage : {"enrolled"}, credentials : Credentials]]

\* Type correctness of the API's tables, its calls, and the hosts.
TypeOK ==
    /\ tokens \in [Tokens -> Token]
    /\ targets \in [TargetIds -> Target \cup {Null}]
    /\ issued \in Nat
    /\ CallsTyped
    /\ InstallersTyped
    /\ files \in [Hosts -> Credentials \cup {Null}]
    /\ agents \in [Hosts -> Credentials \cup {Null}]

\* Credentials of the host that a newer key of its target may have replaced.
Own(creds, h) ==
    /\ targets[creds.target] # Null
    /\ targets[creds.target].identity = IdentityOf[h]
    /\ Accepted(creds) \/ creds.key < targets[creds.target].key

\* The credentials a host has saved, and those its agent uses, are for a target
\* with the host's own name and address and work until a newer key is given
\* out, and every target has the key of a token bound to it: lost answers,
\* killed installers and enrollments of other hosts never mix hosts up
\* (registerAgent: "same hostname + same IP re-binds the existing target").
CredentialsAreOwn ==
    /\ \A h \in Hosts : files[h] # Null => Own(files[h], h)
    /\ \A h \in Hosts : agents[h] # Null => Own(agents[h], h)
    /\ \A id \in TargetIds : targets[id] # Null =>
          \E t \in Tokens : tokens[t].target = id /\ tokens[t].key = targets[id].key

\* "single-use": one key is given out for a token, whoever sends it, however
\* often and however late (registerAgent's claim).
TokenGivesOneKey ==
    [][\A t \in Tokens : tokens[t].key # Null =>
          tokens'[t].key = tokens[t].key /\ tokens'[t].target = tokens[t].target]_vars
=============================================================================
