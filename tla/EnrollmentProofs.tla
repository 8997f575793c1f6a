-------------------------- MODULE EnrollmentProofs --------------------------
(***************************************************************************)
(* Theorems about Enrollment, for every value of its constants.            *)
(***************************************************************************)
EXTENDS Enrollment, TLAPS

SentCall == [stage : {"sent"}, token : Tokens, host : Hosts]
ClaimedCall == [stage : {"claimed"}, token : Tokens, host : Hosts, found : TargetIds \cup {Null}]
RegisteredCall == [stage : {"registered"}, credentials : Credentials]

Enrolling == [stage : {"enrolling"}, token : Tokens]
Waiting == [stage : {"waiting"}, token : Tokens, call : Calls]
EnrolledHost == [stage : {"enrolled"}, credentials : Credentials]

\* What the stage of a call, or of an installer, says of the rest of it.
LEMMA CallShapes ==
    ASSUME CallsTyped, NEW c \in Calls
    PROVE  /\ calls[c].stage = "none" => calls[c] = NoCall
           /\ calls[c].stage = "sent" => calls[c] \in SentCall
           /\ calls[c].stage = "claimed" => calls[c] \in ClaimedCall
           /\ calls[c].stage = "registered" => calls[c] \in RegisteredCall
  BY DEF CallsTyped, NoCall, SentCall, ClaimedCall, RegisteredCall

LEMMA InstallerShapes ==
    ASSUME InstallersTyped, NEW h \in Hosts
    PROVE  /\ installers[h].stage = "enrolling" => installers[h] \in Enrolling
           /\ installers[h].stage = "waiting" => installers[h] \in Waiting
           /\ installers[h].stage = "enrolled" => installers[h] \in EnrolledHost
  BY DEF InstallersTyped, NoInstaller, Enrolling, Waiting, EnrolledHost

\* A step that puts a call, or an installer, of a known shape in one place.
LEMMA CallPut ==
    ASSUME CallsTyped, NEW c \in Calls, NEW call,
           call \in {NoCall, [stage |-> "rejected"], [stage |-> "failed"]}
                       \cup SentCall \cup ClaimedCall \cup RegisteredCall,
           calls' = [calls EXCEPT ![c] = call]
    PROVE  CallsTyped'
  BY DEF CallsTyped, SentCall, ClaimedCall, RegisteredCall

LEMMA InstallerPut ==
    ASSUME InstallersTyped, NEW h \in Hosts, NEW installer,
           installer \in {NoInstaller, [stage |-> "saved"], [stage |-> "stopped"]}
                            \cup Enrolling \cup Waiting \cup EnrolledHost,
           installers' = [installers EXCEPT ![h] = installer]
    PROVE  InstallersTyped'
  BY DEF InstallersTyped, Enrolling, Waiting, EnrolledHost

TablesTyped ==
    /\ tokens \in [Tokens -> Token]
    /\ targets \in [TargetIds -> Target \cup {Null}]
    /\ issued \in Nat

HostsTyped ==
    /\ files \in [Hosts -> Credentials \cup {Null}]
    /\ agents \in [Hosts -> Credentials \cup {Null}]

LEMMA TypeParts == TypeOK <=> TablesTyped /\ CallsTyped /\ InstallersTyped /\ HostsTyped
  BY DEF TypeOK, TablesTyped, HostsTyped

LEMMA PartsKept ==
    /\ CallsTyped /\ UNCHANGED calls => CallsTyped'
    /\ InstallersTyped /\ UNCHANGED installers => InstallersTyped'
    /\ TablesTyped /\ UNCHANGED <<tokens, targets, issued>> => TablesTyped'
    /\ HostsTyped /\ UNCHANGED <<files, agents>> => HostsTyped'
  BY DEF CallsTyped, InstallersTyped, TablesTyped, HostsTyped

LEMMA TypeInit == Init => TypeOK
  BY DEF Init, TypeOK, CallsTyped, InstallersTyped, NoCall, NoInstaller, Token

LEMMA TypeNext == TypeOK /\ [Next]_vars => TypeOK'
<1> SUFFICES ASSUME TypeOK, [Next]_vars PROVE TypeOK'
  OBVIOUS
<1>1. TablesTyped /\ CallsTyped /\ InstallersTyped /\ HostsTyped
  BY TypeParts
<1> SUFFICES TablesTyped' /\ CallsTyped' /\ InstallersTyped' /\ HostsTyped'
  BY DEF TypeOK, TablesTyped, CallsTyped, InstallersTyped, HostsTyped
<1>2. ASSUME NEW t \in Tokens, MintEnrollmentToken(t) \/ Expire(t)
      PROVE  TablesTyped' /\ CallsTyped' /\ InstallersTyped' /\ HostsTyped'
  <2>1. tokens' \in [Tokens -> Token]
    BY <1>1, <1>2 DEF MintEnrollmentToken, Expire, TablesTyped, Token
  <2> QED
    BY <1>1, <1>2, <2>1, PartsKept DEF MintEnrollmentToken, Expire, TablesTyped
<1>3. ASSUME NEW c \in Calls, Claim(c)
      PROVE  TablesTyped' /\ CallsTyped' /\ InstallersTyped' /\ HostsTyped'
  <2>1. calls[c] \in SentCall
    BY <1>1, <1>3, CallShapes DEF Claim
  <2>2. PICK found \in TargetIds \cup {Null} :
            calls' = [calls EXCEPT ![c] = [stage |-> "claimed", token |-> calls[c].token,
                                           host |-> calls[c].host, found |-> found]]
    BY <1>1, <1>3 DEF Claim, TargetsOf, CallsTyped
  <2>3. [stage |-> "claimed", token |-> calls[c].token, host |-> calls[c].host, found |-> found]
            \in ClaimedCall
    BY <2>1 DEF SentCall, ClaimedCall
  <2>4. CallsTyped'
    BY <1>1, <2>2, <2>3, CallPut
  <2> QED
    BY <1>1, <1>3, <2>4, PartsKept DEF Claim
<1>4. ASSUME NEW c \in Calls, Reject(c)
      PROVE  TablesTyped' /\ CallsTyped' /\ InstallersTyped' /\ HostsTyped'
  <2>1. CallsTyped'
    BY <1>1, <1>4, CallPut DEF Reject
  <2> QED
    BY <1>1, <1>4, <2>1, PartsKept DEF Reject
<1>5. ASSUME NEW c \in Calls, CommitRegister(c)
      PROVE  TablesTyped' /\ CallsTyped' /\ InstallersTyped' /\ HostsTyped'
  <2>1. calls[c] \in ClaimedCall
    BY <1>1, <1>5, CallShapes DEF CommitRegister
  <2>2. issued' \in Nat
    BY <1>1, <1>5 DEF CommitRegister, TablesTyped
  <2>3. PICK id \in TargetIds :
            /\ targets' = [targets EXCEPT ![id] =
                  [identity |-> IF @ = Null THEN IdentityOf[calls[c].host] ELSE @.identity,
                   key |-> issued']]
            /\ tokens' = [tokens EXCEPT ![calls[c].token] =
                  [state |-> "used", target |-> id, key |-> issued']]
            /\ calls' = [calls EXCEPT ![c] =
                  [stage |-> "registered", credentials |-> [target |-> id, key |-> issued']]]
    BY <1>5 DEF CommitRegister
  <2>4. [identity |-> IF targets[id] = Null THEN IdentityOf[calls[c].host] ELSE targets[id].identity,
         key |-> issued'] \in Target
    BY <1>1, <2>1, <2>2, EnrollmentAssumption DEF ClaimedCall, Target, TablesTyped
  <2>5. targets' \in [TargetIds -> Target \cup {Null}]
    BY <1>1, <2>3, <2>4 DEF TablesTyped
  <2>6. tokens' \in [Tokens -> Token]
    BY <1>1, <2>1, <2>2, <2>3 DEF TablesTyped, Token, ClaimedCall
  <2>7. CallsTyped'
    <3>1. [stage |-> "registered", credentials |-> [target |-> id, key |-> issued']] \in RegisteredCall
      BY <2>2 DEF RegisteredCall, Credentials
    <3> QED
      BY <1>1, <2>3, <3>1, CallPut
  <2> QED
    BY <1>1, <1>5, <2>2, <2>5, <2>6, <2>7, PartsKept DEF CommitRegister, TablesTyped
<1>6. ASSUME NEW c \in Calls, FailRegister(c) \/ Unheard(c)
      PROVE  TablesTyped' /\ CallsTyped' /\ InstallersTyped' /\ HostsTyped'
  <2>1. CallsTyped'
    BY <1>1, <1>6, CallPut DEF FailRegister, Unheard, Free
  <2> QED
    BY <1>1, <1>6, <2>1, PartsKept DEF FailRegister, Unheard
<1>7. ASSUME NEW h \in Hosts, NEW t \in Tokens, StartInstall(h, t)
      PROVE  TablesTyped' /\ CallsTyped' /\ InstallersTyped' /\ HostsTyped'
  <2>1. InstallersTyped'
    BY <1>1, <1>7, InstallerPut DEF StartInstall, Enrolling
  <2> QED
    BY <1>1, <1>7, <2>1, PartsKept DEF StartInstall
<1>8. ASSUME NEW h \in Hosts, NEW c \in Calls, Register(h, c)
      PROVE  TablesTyped' /\ CallsTyped' /\ InstallersTyped' /\ HostsTyped'
  <2>1. installers[h] \in Enrolling
    BY <1>1, <1>8, InstallerShapes DEF Register, Installing
  <2>2. [stage |-> "sent", token |-> installers[h].token, host |-> h] \in SentCall
    BY <2>1 DEF Enrolling, SentCall
  <2>3. CallsTyped'
    BY <1>1, <1>8, <2>2, CallPut DEF Register
  <2>4. [stage |-> "waiting", token |-> installers[h].token, call |-> c] \in Waiting
    BY <2>1 DEF Enrolling, Waiting
  <2>5. installers' = [installers EXCEPT ![h] =
                           [stage |-> "waiting", token |-> installers[h].token, call |-> c]]
    BY <1>1, <1>8 DEF Register, InstallersTyped
  <2>6. InstallersTyped'
    BY <1>1, <2>4, <2>5, InstallerPut
  <2> QED
    BY <1>1, <1>8, <2>3, <2>6, PartsKept DEF Register
<1>9. ASSUME NEW h \in Hosts, RetryRegister(h)
      PROVE  TablesTyped' /\ CallsTyped' /\ InstallersTyped' /\ HostsTyped'
  <2>1. installers[h] \in Waiting
    BY <1>1, <1>9, InstallerShapes DEF RetryRegister, Installing
  <2>2. [stage |-> "enrolling", token |-> installers[h].token] \in Enrolling
    BY <2>1 DEF Enrolling, Waiting
  <2>3. installers' = [installers EXCEPT ![h] = [stage |-> "enrolling", token |-> installers[h].token]]
    BY <1>1, <1>9 DEF RetryRegister, InstallersTyped
  <2>4. InstallersTyped'
    BY <1>1, <2>2, <2>3, InstallerPut
  <2>5. installers[h].call \in Calls
    BY <2>1 DEF Waiting
  <2>6. CallsTyped'
    BY <1>1, <1>9, <2>5, CallPut, PartsKept DEF RetryRegister, Free
  <2> QED
    BY <1>1, <1>9, <2>4, <2>6, PartsKept DEF RetryRegister
<1>10. ASSUME NEW h \in Hosts, GiveUp(h)
       PROVE  TablesTyped' /\ CallsTyped' /\ InstallersTyped' /\ HostsTyped'
  <2>1. installers[h].call \in Calls
    BY <1>1, <1>10, InstallerShapes DEF GiveUp, Installing, Waiting
  <2>2. CallsTyped'
    BY <1>1, <1>10, <2>1, CallPut DEF GiveUp, Free
  <2>3. InstallersTyped'
    BY <1>1, <1>10, InstallerPut DEF GiveUp
  <2> QED
    BY <1>1, <1>10, <2>2, <2>3, PartsKept DEF GiveUp
<1>11. ASSUME NEW h \in Hosts, Enrolled(h)
       PROVE  TablesTyped' /\ CallsTyped' /\ InstallersTyped' /\ HostsTyped'
  <2>1. installers[h].call \in Calls
    BY <1>1, <1>11, InstallerShapes DEF Enrolled, Installing, Waiting
  <2>2. calls[installers[h].call] \in RegisteredCall
    BY <1>1, <1>11, <2>1, CallShapes DEF Enrolled
  <2>3. [stage |-> "enrolled", credentials |-> calls[installers[h].call].credentials] \in EnrolledHost
    BY <2>2 DEF RegisteredCall, EnrolledHost
  <2>4. installers' = [installers EXCEPT ![h] =
            [stage |-> "enrolled", credentials |-> calls[installers[h].call].credentials]]
    BY <1>1, <1>11 DEF Enrolled, InstallersTyped
  <2>5. InstallersTyped'
    BY <1>1, <2>3, <2>4, InstallerPut
  <2>6. CallsTyped'
    BY <1>1, <1>11, <2>1, CallPut DEF Enrolled, Free
  <2> QED
    BY <1>1, <1>11, <2>5, <2>6, PartsKept DEF Enrolled
<1>12. ASSUME NEW h \in Hosts, SaveCredentials(h)
       PROVE  TablesTyped' /\ CallsTyped' /\ InstallersTyped' /\ HostsTyped'
  <2>1. installers[h] \in EnrolledHost
    BY <1>1, <1>12, InstallerShapes DEF SaveCredentials, Installing
  <2>2. HostsTyped'
    BY <1>1, <1>12, <2>1 DEF SaveCredentials, HostsTyped, EnrolledHost
  <2>3. InstallersTyped'
    BY <1>1, <1>12, InstallerPut DEF SaveCredentials
  <2> QED
    BY <1>1, <1>12, <2>2, <2>3, PartsKept DEF SaveCredentials
<1>13. ASSUME NEW h \in Hosts, StopAgent(h) \/ StartService(h) \/ AbortInstall(h) \/ StartAgent(h)
       PROVE  TablesTyped' /\ CallsTyped' /\ InstallersTyped' /\ HostsTyped'
  <2>1. HostsTyped'
    BY <1>1, <1>13 DEF StopAgent, StartService, AbortInstall, StartAgent, HostsTyped
  <2>2. InstallersTyped'
    BY <1>1, <1>13, InstallerPut, PartsKept DEF StopAgent, StartService, AbortInstall, StartAgent
  <2> QED
    BY <1>1, <1>13, <2>1, <2>2, PartsKept DEF StopAgent, StartService, AbortInstall, StartAgent
<1>14. CASE UNCHANGED vars
  BY <1>1, <1>14, PartsKept DEF vars
<1> QED
  BY <1>2, <1>3, <1>4, <1>5, <1>6, <1>7, <1>8, <1>9, <1>10, <1>11, <1>12, <1>13, <1>14
  DEF Next, ApiStep, InstallerStep

\* TypeOK holds in every reachable state: whatever is lost, killed or asked for
\* twice, tables, calls and hosts keep their shape.
THEOREM TypeCorrect == Spec => []TypeOK
  BY TypeInit, TypeNext, PTL DEF Spec

-----------------------------------------------------------------------------
(* The inductive invariant. *)

Claimed(c) == calls[c].stage = "claimed"

\* A call that holds a token's lock is the only one, and no key has been given
\* out for the token; the target it found is the host's.
ClaimsHold ==
    \A c \in Calls : Claimed(c) =>
        /\ tokens[calls[c].token].key = Null
        /\ \A d \in Calls : Claimed(d) /\ calls[d].token = calls[c].token => d = c
        /\ calls[c].found # Null =>
              /\ targets[calls[c].found] # Null
              /\ targets[calls[c].found].identity = IdentityOf[calls[c].host]

OnlyUsedHaveKeys == \A t \in Tokens : tokens[t].key # Null => tokens[t].state = "used"

KeysIssued == \A id \in TargetIds : targets[id] # Null => targets[id].key <= issued

\* Credentials of a target that is the host's, by a table of targets.
Held(table, creds, h) ==
    /\ table[creds.target] # Null
    /\ table[creds.target].identity = IdentityOf[h]
    /\ creds.key <= table[creds.target].key

\* What an installer waits for is a call of its own, answered with credentials
\* of its host, and what it holds are such credentials.
WaitsForOwn ==
    \A h \in Hosts : Installing(h, "waiting") =>
        /\ calls[installers[h].call].stage # "none"
        /\ calls[installers[h].call].stage \in {"sent", "claimed"} => calls[installers[h].call].host = h
        /\ calls[installers[h].call].stage = "registered" =>
              Held(targets, calls[installers[h].call].credentials, h)

WaitsAlone ==
    \A h, k \in Hosts :
        Installing(h, "waiting") /\ Installing(k, "waiting") /\ installers[h].call = installers[k].call
            => h = k

HoldsOwn == \A h \in Hosts : Installing(h, "enrolled") => Held(targets, installers[h].credentials, h)

TargetsBound ==
    \A id \in TargetIds : targets[id] # Null =>
        \E t \in Tokens : tokens[t].target = id /\ tokens[t].key = targets[id].key

FilesOwn == \A h \in Hosts : files[h] # Null => Held(targets, files[h], h)
AgentsOwn == \A h \in Hosts : agents[h] # Null => Held(targets, agents[h], h)

TablesInv == ClaimsHold /\ OnlyUsedHaveKeys /\ KeysIssued /\ TargetsBound
HostsInv == WaitsForOwn /\ WaitsAlone /\ HoldsOwn /\ FilesOwn /\ AgentsOwn

IInv == TypeOK /\ TablesInv /\ HostsInv

-----------------------------------------------------------------------------
(* Targets are never removed or given to another host, and their keys only *)
(* grow, so that what holds credentials keeps holding them.                *)

TargetsGrow ==
    \A id \in TargetIds : targets[id] # Null =>
        /\ targets'[id] # Null
        /\ targets'[id].identity = targets[id].identity
        /\ targets[id].key <= targets'[id].key

LEMMA HeldKept ==
    ASSUME TypeOK, TypeOK', TargetsGrow
    PROVE  \A h \in Hosts, creds \in Credentials :
               Held(targets, creds, h) => Held(targets', creds, h)
<1> SUFFICES ASSUME NEW h \in Hosts, NEW creds \in Credentials, Held(targets, creds, h)
             PROVE  Held(targets', creds, h)
  OBVIOUS
<1>1. creds.target \in TargetIds /\ creds.key \in Nat
  BY DEF Credentials
<1>2. targets[creds.target] \in Target /\ targets'[creds.target] \in Target
  BY <1>1 DEF TypeOK, TargetsGrow, Held
<1> QED
  BY <1>1, <1>2 DEF TargetsGrow, Held, Target

LEMMA UnchangedGrows ==
    ASSUME TypeOK, UNCHANGED targets
    PROVE  TargetsGrow
<1> SUFFICES ASSUME NEW id \in TargetIds, targets[id] # Null
             PROVE  targets[id].key <= targets[id].key
  BY DEF TargetsGrow
<1>1. targets[id] \in Target
  BY DEF TypeOK
<1> QED
  BY <1>1 DEF Target

\* What a commit writes: the found target's row, or a free one's.
LEMMA CommitWrites ==
    ASSUME IInv, NEW c \in Calls, CommitRegister(c)
    PROVE  \E id \in TargetIds :
              /\ targets[id] # Null => targets[id].identity = IdentityOf[calls[c].host]
              /\ targets' = [targets EXCEPT ![id] =
                    [identity |-> IdentityOf[calls[c].host], key |-> issued']]
              /\ tokens' = [tokens EXCEPT ![calls[c].token] =
                    [state |-> "used", target |-> id, key |-> issued']]
              /\ calls' = [calls EXCEPT ![c] =
                    [stage |-> "registered", credentials |-> [target |-> id, key |-> issued']]]
<1>1. PICK id \in TargetIds :
          /\ IF calls[c].found # Null THEN id = calls[c].found ELSE targets[id] = Null
          /\ targets' = [targets EXCEPT ![id] =
                [identity |-> IF targets[id] = Null THEN IdentityOf[calls[c].host] ELSE targets[id].identity,
                 key |-> issued']]
          /\ tokens' = [tokens EXCEPT ![calls[c].token] =
                [state |-> "used", target |-> id, key |-> issued']]
          /\ calls' = [calls EXCEPT ![c] =
                [stage |-> "registered", credentials |-> [target |-> id, key |-> issued']]]
  BY DEF CommitRegister, IInv, TypeOK
<1>2. targets[id] # Null => targets[id].identity = IdentityOf[calls[c].host]
  BY <1>1 DEF CommitRegister, IInv, TablesInv, ClaimsHold, Claimed
<1> QED
  BY <1>1, <1>2

LEMMA CommitGrows ==
    ASSUME IInv, NEW c \in Calls, CommitRegister(c)
    PROVE  TargetsGrow
<1>1. PICK id \in TargetIds :
          /\ targets[id] # Null => targets[id].identity = IdentityOf[calls[c].host]
          /\ targets' = [targets EXCEPT ![id] =
                [identity |-> IdentityOf[calls[c].host], key |-> issued']]
  BY CommitWrites
<1>2. issued \in Nat /\ issued' = issued + 1
  BY DEF IInv, TypeOK, CommitRegister
<1> SUFFICES ASSUME NEW x \in TargetIds, targets[x] # Null
             PROVE  /\ targets'[x] # Null
                    /\ targets'[x].identity = targets[x].identity
                    /\ targets[x].key <= targets'[x].key
  BY DEF TargetsGrow
<1>3. targets[x] \in Target /\ targets[x].key <= issued
  BY DEF IInv, TypeOK, TablesInv, KeysIssued
<1>4. CASE x # id
  BY <1>1, <1>3, <1>4 DEF IInv, TypeOK, Target
<1>5. CASE x = id
  <2>1. targets'[x] = [identity |-> IdentityOf[calls[c].host], key |-> issued']
    BY <1>1, <1>5 DEF IInv, TypeOK
  <2>2. calls[c] \in ClaimedCall
    BY CallShapes DEF IInv, TypeOK, CommitRegister
  <2>3. [identity |-> IdentityOf[calls[c].host], key |-> issued'] \in Target
    BY <1>2, <2>2, EnrollmentAssumption DEF ClaimedCall, Target
  <2> QED
    BY <1>1, <1>2, <1>3, <1>5, <2>1, <2>3, EnrollmentAssumption DEF Target
<1> QED
  BY <1>4, <1>5

LEMMA Grows == IInv /\ [Next]_vars => TargetsGrow
<1> SUFFICES ASSUME IInv, [Next]_vars PROVE TargetsGrow
  OBVIOUS
<1>1. CASE \E c \in Calls : CommitRegister(c)
  BY <1>1, CommitGrows
<1>2. CASE UNCHANGED targets
  BY <1>2, UnchangedGrows DEF IInv
<1> QED
  BY <1>1, <1>2
  DEF Next, ApiStep, InstallerStep, MintEnrollmentToken, Expire, Claim, Reject, FailRegister, Unheard,
      StartInstall, Register, RetryRegister, GiveUp, Enrolled, SaveCredentials, StopAgent, StartService,
      AbortInstall, StartAgent, vars

-----------------------------------------------------------------------------
(* The tables. *)

\* A step of the installer, or one that ends a call, keeps what the tables and
\* the calls that claim say.
LEMMA ClaimsKept ==
    ASSUME TablesInv, UNCHANGED <<tokens, targets, issued>>,
           \A c \in Calls : Claimed(c)' => calls'[c] = calls[c]
    PROVE  TablesInv'
<1>1. \A c \in Calls : Claimed(c)' => Claimed(c) /\ calls'[c] = calls[c]
  BY DEF Claimed
<1>2. ClaimsHold'
  BY <1>1 DEF TablesInv, ClaimsHold
<1> QED
  BY <1>2 DEF TablesInv, OnlyUsedHaveKeys, KeysIssued, TargetsBound

LEMMA TablesNext == IInv /\ [Next]_vars => TablesInv'
<1> SUFFICES ASSUME IInv, [Next]_vars PROVE TablesInv'
  OBVIOUS
<1>1. TypeOK /\ TypeOK' /\ TablesInv
  BY TypeNext DEF IInv
<1>2. ASSUME NEW t \in Tokens, MintEnrollmentToken(t) \/ Expire(t)
      PROVE  TablesInv'
  <2>1. /\ UNCHANGED <<targets, issued, calls>>
        /\ \A u \in Tokens : tokens'[u].key = tokens[u].key /\ tokens'[u].target = tokens[u].target
        /\ \A u \in Tokens : tokens[u].state = "used" => tokens'[u].state = "used"
    BY <1>1, <1>2 DEF MintEnrollmentToken, Expire, TypeOK, Token
  <2>2. \A c \in Calls : Claimed(c) => calls[c].token \in Tokens
    BY <1>1, CallShapes DEF Claimed, ClaimedCall, TypeOK
  <2> QED
    BY <1>1, <2>1, <2>2
    DEF TablesInv, ClaimsHold, Claimed, OnlyUsedHaveKeys, KeysIssued, TargetsBound
<1>3. ASSUME NEW c \in Calls, Claim(c)
      PROVE  TablesInv'
  <2>1. PICK found \in IF TargetsOf(calls[c].host) = {} THEN {Null} ELSE TargetsOf(calls[c].host) :
            calls' = [calls EXCEPT ![c] = [stage |-> "claimed", token |-> calls[c].token,
                                           host |-> calls[c].host, found |-> found]]
    BY <1>1, <1>3 DEF Claim, TypeOK, CallsTyped
  <2>2. /\ calls'[c] = [stage |-> "claimed", token |-> calls[c].token,
                        host |-> calls[c].host, found |-> found]
        /\ \A d \in Calls \ {c} : calls'[d] = calls[d]
    BY <1>1, <2>1 DEF TypeOK, CallsTyped
  <2>3. calls[c].token \in Tokens
    BY <1>1, <1>3, CallShapes DEF Claim, SentCall, TypeOK
  <2>4. tokens[calls[c].token].key = Null
    BY <1>1, <1>3, <2>3 DEF Claim, MayClaim, TablesInv, OnlyUsedHaveKeys
  <2>5. found # Null =>
           targets[found] # Null /\ targets[found].identity = IdentityOf[calls[c].host]
    BY <2>1 DEF TargetsOf, SameHost
  <2>6. \A d \in Calls : Claimed(d) => calls[d].token # calls[c].token
    BY <1>3 DEF Claim, Claimed
  <2>7. UNCHANGED <<tokens, targets, issued>>
    BY <1>3 DEF Claim
  <2>8. ClaimsHold'
    <3>1. SUFFICES ASSUME NEW d \in Calls, Claimed(d)'
                   PROVE  /\ tokens[calls'[d].token].key = Null
                          /\ \A e \in Calls : Claimed(e)' /\ calls'[e].token = calls'[d].token => e = d
                          /\ calls'[d].found # Null =>
                                /\ targets[calls'[d].found] # Null
                                /\ targets[calls'[d].found].identity = IdentityOf[calls'[d].host]
      BY <2>7 DEF ClaimsHold, Claimed
    <3>2. CASE d = c
      BY <2>2, <2>4, <2>5, <2>6, <3>2 DEF Claimed
    <3>3. CASE d # c
      BY <1>1, <2>2, <2>6, <3>1, <3>3 DEF Claimed, TablesInv, ClaimsHold
    <3> QED
      BY <3>2, <3>3
  <2> QED
    BY <1>1, <2>7, <2>8 DEF TablesInv, OnlyUsedHaveKeys, KeysIssued, TargetsBound
<1>4. ASSUME NEW c \in Calls, CommitRegister(c)
      PROVE  TablesInv'
  <2>1. PICK id \in TargetIds :
            /\ targets[id] # Null => targets[id].identity = IdentityOf[calls[c].host]
            /\ targets' = [targets EXCEPT ![id] =
                  [identity |-> IdentityOf[calls[c].host], key |-> issued']]
            /\ tokens' = [tokens EXCEPT ![calls[c].token] =
                  [state |-> "used", target |-> id, key |-> issued']]
            /\ calls' = [calls EXCEPT ![c] =
                  [stage |-> "registered", credentials |-> [target |-> id, key |-> issued']]]
    BY <1>4, CommitWrites
  <2>2. issued \in Nat /\ issued' = issued + 1
    BY <1>1, <1>4 DEF TypeOK, CommitRegister
  <2>3. Claimed(c) /\ calls[c] \in ClaimedCall /\ calls[c].token \in Tokens
    BY <1>1, <1>4, CallShapes DEF CommitRegister, TypeOK, ClaimedCall, Claimed
  <2>4. /\ targets'[id] = [identity |-> IdentityOf[calls[c].host], key |-> issued']
        /\ \A x \in TargetIds \ {id} : targets'[x] = targets[x]
    BY <1>1, <2>1 DEF TypeOK
  <2>5. /\ tokens'[calls[c].token] = [state |-> "used", target |-> id, key |-> issued']
        /\ \A t \in Tokens \ {calls[c].token} : tokens'[t] = tokens[t]
    BY <1>1, <2>1, <2>3 DEF TypeOK
  <2>6. \A d \in Calls : Claimed(d)' => Claimed(d) /\ calls'[d] = calls[d] /\ d # c
    BY <1>1, <2>1 DEF Claimed, TypeOK, CallsTyped
  <2>7. ClaimsHold'
    <3>1. SUFFICES ASSUME NEW d \in Calls, Claimed(d)'
                   PROVE  /\ tokens'[calls'[d].token].key = Null
                          /\ \A e \in Calls : Claimed(e)' /\ calls'[e].token = calls'[d].token => e = d
                          /\ calls'[d].found # Null =>
                                /\ targets'[calls'[d].found] # Null
                                /\ targets'[calls'[d].found].identity = IdentityOf[calls'[d].host]
      BY DEF ClaimsHold, Claimed
    <3>2. Claimed(d) /\ calls'[d] = calls[d] /\ d # c /\ calls[d] \in ClaimedCall
      BY <1>1, <2>6, <3>1, CallShapes DEF TypeOK, Claimed
    <3>3. calls[d].token # calls[c].token /\ tokens[calls[d].token].key = Null
      BY <1>1, <2>3, <3>2 DEF TablesInv, ClaimsHold
    <3>4. tokens'[calls'[d].token].key = Null
      BY <2>5, <3>2, <3>3 DEF ClaimedCall
    <3>5. \A e \in Calls : Claimed(e)' /\ calls'[e].token = calls'[d].token => e = d
      BY <1>1, <2>6, <3>2 DEF TablesInv, ClaimsHold
    <3>6. calls'[d].found # Null =>
             /\ targets'[calls'[d].found] # Null
             /\ targets'[calls'[d].found].identity = IdentityOf[calls'[d].host]
      <4>1. TargetsGrow
        BY <1>4, CommitGrows
      <4>2. calls[d].found # Null =>
               /\ calls[d].found \in TargetIds
               /\ targets[calls[d].found] # Null
               /\ targets[calls[d].found].identity = IdentityOf[calls[d].host]
        BY <1>1, <3>2 DEF TablesInv, ClaimsHold, ClaimedCall
      <4> QED
        BY <3>2, <4>1, <4>2 DEF TargetsGrow
    <3> QED
      BY <3>4, <3>5, <3>6
  <2>8. OnlyUsedHaveKeys'
    BY <1>1, <2>5 DEF TablesInv, OnlyUsedHaveKeys
  <2>9. KeysIssued'
    <3>1. SUFFICES ASSUME NEW x \in TargetIds, targets'[x] # Null
                   PROVE  targets'[x].key <= issued'
      BY DEF KeysIssued
    <3>2. CASE x = id
      BY <2>2, <2>4, <3>2
    <3>3. CASE x # id
      <4>1. targets'[x] = targets[x] /\ targets[x] \in Target /\ targets[x].key <= issued
        BY <1>1, <2>4, <3>1, <3>3 DEF TypeOK, TablesInv, KeysIssued
      <4> QED
        BY <2>2, <4>1 DEF Target
    <3> QED
      BY <3>2, <3>3
  <2>10. TargetsBound'
    <3>1. SUFFICES ASSUME NEW x \in TargetIds, targets'[x] # Null
                   PROVE  \E t \in Tokens : tokens'[t].target = x /\ tokens'[t].key = targets'[x].key
      BY DEF TargetsBound
    <3>2. CASE x = id
      BY <2>3, <2>4, <2>5, <3>2
    <3>3. CASE x # id
      <4>1. targets'[x] = targets[x] /\ targets[x] \in Target
        BY <1>1, <2>4, <3>1, <3>3 DEF TypeOK
      <4>2. PICK t \in Tokens : tokens[t].target = x /\ tokens[t].key = targets[x].key
        BY <1>1, <3>1, <4>1 DEF TablesInv, TargetsBound
      <4>3. tokens[calls[c].token].key = Null /\ targets[x].key # Null
        BY <1>1, <2>3, <4>1, EnrollmentAssumption DEF TablesInv, ClaimsHold, Target
      <4>4. t # calls[c].token
        BY <4>2, <4>3
      <4> QED
        BY <2>5, <4>1, <4>2, <4>4
    <3> QED
      BY <3>2, <3>3
  <2> QED
    BY <2>7, <2>8, <2>9, <2>10 DEF TablesInv
<1>5. ASSUME NEW c \in Calls, Reject(c) \/ FailRegister(c) \/ Unheard(c)
      PROVE  TablesInv'
  <2>1. \A d \in Calls : Claimed(d)' => calls'[d] = calls[d]
    BY <1>1, <1>5 DEF Reject, FailRegister, Unheard, Free, NoCall, Claimed, TypeOK, CallsTyped
  <2> QED
    BY <1>1, <1>5, <2>1, ClaimsKept DEF Reject, FailRegister, Unheard
<1>6. ASSUME NEW h \in Hosts, NEW c \in Calls, Register(h, c)
      PROVE  TablesInv'
  <2>1. \A d \in Calls : Claimed(d)' => calls'[d] = calls[d]
    BY <1>1, <1>6 DEF Register, Claimed, TypeOK, CallsTyped
  <2> QED
    BY <1>1, <1>6, <2>1, ClaimsKept DEF Register
<1>7. ASSUME NEW h \in Hosts, RetryRegister(h) \/ GiveUp(h) \/ Enrolled(h)
      PROVE  TablesInv'
  <2>1. \A d \in Calls : Claimed(d)' => calls'[d] = calls[d]
    BY <1>1, <1>7 DEF RetryRegister, GiveUp, Enrolled, Free, NoCall, Claimed, TypeOK, CallsTyped
  <2> QED
    BY <1>1, <1>7, <2>1, ClaimsKept DEF RetryRegister, GiveUp, Enrolled
<1>8. CASE UNCHANGED <<tokens, targets, issued, calls>>
  BY <1>1, <1>8, ClaimsKept
<1> QED
  BY <1>2, <1>3, <1>4, <1>5, <1>6, <1>7, <1>8
  DEF Next, ApiStep, InstallerStep, StartInstall, SaveCredentials, StopAgent, StartService,
      AbortInstall, StartAgent, vars

-----------------------------------------------------------------------------
(* The hosts. *)

\* Where what a host holds comes from in a step.
LEMMA HoldersFrom ==
    ASSUME IInv, [Next]_vars, NEW h \in Hosts
    PROVE  /\ Installing(h, "enrolled")' =>
                 \/ installers'[h] = installers[h]
                 \/ /\ Installing(h, "waiting") /\ calls[installers[h].call].stage = "registered"
                    /\ installers'[h].credentials = calls[installers[h].call].credentials
           /\ files'[h] = files[h] \/ (Installing(h, "enrolled") /\ files'[h] = installers[h].credentials)
           /\ agents'[h] = agents[h] \/ agents'[h] = Null \/ agents'[h] = files[h]
<1>1. /\ files \in [Hosts -> Credentials \cup {Null}] /\ agents \in [Hosts -> Credentials \cup {Null}]
      /\ InstallersTyped
  BY DEF IInv, TypeOK
<1>2. ASSUME NEW k \in Hosts, Enrolled(k)
      PROVE  /\ Installing(h, "enrolled")' =>
                   \/ installers'[h] = installers[h]
                   \/ /\ Installing(h, "waiting") /\ calls[installers[h].call].stage = "registered"
                      /\ installers'[h].credentials = calls[installers[h].call].credentials
             /\ UNCHANGED <<files, agents>>
  BY <1>1, <1>2 DEF Enrolled, Installing, InstallersTyped
<1>3. ASSUME NEW k \in Hosts, SaveCredentials(k)
      PROVE  /\ Installing(h, "enrolled")' => installers'[h] = installers[h]
             /\ files'[h] = files[h] \/ (Installing(h, "enrolled") /\ files'[h] = installers[h].credentials)
             /\ UNCHANGED agents
  BY <1>1, <1>3 DEF SaveCredentials, Installing, InstallersTyped
<1>4. ASSUME NEW k \in Hosts, StopAgent(k) \/ StartService(k) \/ AbortInstall(k) \/ StartAgent(k)
      PROVE  /\ Installing(h, "enrolled")' => installers'[h] = installers[h]
             /\ UNCHANGED files
             /\ agents'[h] = agents[h] \/ agents'[h] = Null \/ agents'[h] = files[h]
  BY <1>1, <1>4
  DEF StopAgent, StartService, AbortInstall, StartAgent, Installing, InstallersTyped, NoInstaller
<1>5. ASSUME NEW k \in Hosts,
             \/ \E t \in Tokens : StartInstall(k, t)
             \/ \E c \in Calls : Register(k, c)
             \/ RetryRegister(k) \/ GiveUp(k)
      PROVE  /\ Installing(h, "enrolled")' => installers'[h] = installers[h]
             /\ UNCHANGED <<files, agents>>
  BY <1>1, <1>5
  DEF StartInstall, Register, RetryRegister, GiveUp, Installing, InstallersTyped, NoInstaller
<1>6. CASE UNCHANGED <<installers, files, agents>>
  BY <1>6 DEF Installing
<1> QED
  BY <1>2, <1>3, <1>4, <1>5, <1>6
  DEF Next, ApiStep, InstallerStep, MintEnrollmentToken, Expire, Claim, Reject, CommitRegister,
      FailRegister, Unheard, vars

LEMMA HoldersNext == IInv /\ [Next]_vars => HoldsOwn' /\ FilesOwn' /\ AgentsOwn'
<1> SUFFICES ASSUME IInv, [Next]_vars PROVE HoldsOwn' /\ FilesOwn' /\ AgentsOwn'
  OBVIOUS
<1>1. TypeOK /\ TypeOK' /\ HostsInv
  BY TypeNext DEF IInv
<1>2. \A h \in Hosts, creds \in Credentials : Held(targets, creds, h) => Held(targets', creds, h)
  BY <1>1, Grows, HeldKept
<1> SUFFICES ASSUME NEW h \in Hosts
             PROVE  /\ Installing(h, "enrolled")' => Held(targets', installers'[h].credentials, h)
                    /\ files'[h] # Null => Held(targets', files'[h], h)
                    /\ agents'[h] # Null => Held(targets', agents'[h], h)
  BY DEF HoldsOwn, FilesOwn, AgentsOwn, Installing
<1>3. Installing(h, "enrolled") =>
         installers[h].credentials \in Credentials /\ Held(targets, installers[h].credentials, h)
  BY <1>1, InstallerShapes DEF Installing, EnrolledHost, TypeOK, HostsInv, HoldsOwn
<1>4. Installing(h, "waiting") /\ calls[installers[h].call].stage = "registered" =>
         /\ calls[installers[h].call].credentials \in Credentials
         /\ Held(targets, calls[installers[h].call].credentials, h)
  <2>1. SUFFICES ASSUME Installing(h, "waiting"), calls[installers[h].call].stage = "registered"
                 PROVE  calls[installers[h].call].credentials \in Credentials
    BY <1>1 DEF HostsInv, WaitsForOwn
  <2>2. installers[h].call \in Calls
    BY <1>1, <2>1, InstallerShapes DEF Installing, Waiting, TypeOK
  <2> QED
    BY <1>1, <2>1, <2>2, CallShapes DEF RegisteredCall, TypeOK
<1>5. Installing(h, "enrolled")' => Held(targets', installers'[h].credentials, h)
  <2>1. CASE installers'[h] = installers[h]
    BY <1>2, <1>3, <2>1 DEF Installing
  <2>2. CASE /\ Installing(h, "waiting") /\ calls[installers[h].call].stage = "registered"
             /\ installers'[h].credentials = calls[installers[h].call].credentials
    BY <1>2, <1>4, <2>2
  <2> QED
    BY <2>1, <2>2, HoldersFrom
<1>6. /\ files[h] # Null => files[h] \in Credentials /\ Held(targets, files[h], h)
      /\ agents[h] # Null => agents[h] \in Credentials /\ Held(targets, agents[h], h)
  BY <1>1 DEF TypeOK, HostsInv, FilesOwn, AgentsOwn
<1>7. files'[h] # Null => Held(targets', files'[h], h)
  BY <1>2, <1>3, <1>6, HoldersFrom
<1>8. agents'[h] # Null => Held(targets', agents'[h], h)
  BY <1>2, <1>6, HoldersFrom
<1> QED
  BY <1>5, <1>7, <1>8

\* What becomes of a call that an installer goes on waiting for.
CallMoves(c) ==
    \/ calls'[c] = calls[c]
    \/ calls'[c].stage \in {"rejected", "failed"}
    \/ calls[c].stage = "sent" /\ calls'[c].stage = "claimed" /\ calls'[c].host = calls[c].host
    \/ /\ calls[c].stage = "claimed" /\ calls'[c].stage = "registered"
       /\ Held(targets', calls'[c].credentials, calls[c].host)

LEMMA ApiMoves ==
    ASSUME IInv, ApiStep, NEW h \in Hosts, Installing(h, "waiting")
    PROVE  CallMoves(installers[h].call)
<1> DEFINE w == installers[h].call
<1>1. TypeOK /\ CallsTyped /\ w \in Calls
  BY InstallerShapes DEF IInv, Installing, Waiting, TypeOK
<1>2. ASSUME NEW c \in Calls, Claim(c)
      PROVE  CallMoves(w)
  BY <1>1, <1>2 DEF Claim, CallMoves, CallsTyped
<1>3. ASSUME NEW c \in Calls, CommitRegister(c)
      PROVE  CallMoves(w)
  <2>1. PICK id \in TargetIds :
            /\ targets' = [targets EXCEPT ![id] =
                  [identity |-> IdentityOf[calls[c].host], key |-> issued']]
            /\ calls' = [calls EXCEPT ![c] =
                  [stage |-> "registered", credentials |-> [target |-> id, key |-> issued']]]
    BY <1>3, CommitWrites
  <2>2. CASE w # c
    BY <1>1, <2>1, <2>2 DEF CallMoves, CallsTyped
  <2>3. CASE w = c
    <3>1. calls[c] \in ClaimedCall
      BY <1>1, <1>3, CallShapes DEF CommitRegister
    <3>2. calls'[c] = [stage |-> "registered", credentials |-> [target |-> id, key |-> issued']]
      BY <1>1, <2>1 DEF CallsTyped
    <3>3. issued' \in Nat
      BY <1>1, <1>3 DEF CommitRegister, TypeOK
    <3>4. targets'[id] = [identity |-> IdentityOf[calls[c].host], key |-> issued']
      BY <1>1, <2>1 DEF TypeOK
    <3>5. targets'[id] # Null
      BY <3>1, <3>3, <3>4, EnrollmentAssumption DEF ClaimedCall, Target
    <3>6. Held(targets', calls'[c].credentials, calls[c].host)
      BY <3>2, <3>3, <3>4, <3>5 DEF Held
    <3> QED
      BY <1>3, <2>3, <3>2, <3>6 DEF CallMoves, CommitRegister
  <2> QED
    BY <2>2, <2>3
<1>4. ASSUME NEW c \in Calls, Reject(c) \/ FailRegister(c)
      PROVE  CallMoves(w)
  BY <1>1, <1>4 DEF Reject, FailRegister, CallMoves, CallsTyped
<1>5. ASSUME NEW c \in Calls, Unheard(c)
      PROVE  CallMoves(w)
  <2>1. w # c
    BY <1>5 DEF Unheard
  <2> QED
    BY <1>1, <1>5, <2>1 DEF Unheard, Free, CallMoves, CallsTyped
<1>6. CASE UNCHANGED calls
  BY <1>6 DEF CallMoves
<1> QED
  BY <1>2, <1>3, <1>4, <1>5, <1>6 DEF ApiStep, MintEnrollmentToken, Expire

\* An installer that goes on waiting, for a call that moves on as above.
LEMMA WaitingKept ==
    ASSUME IInv, TypeOK', TargetsGrow,
           NEW h \in Hosts, Installing(h, "waiting"), installers'[h] = installers[h],
           CallMoves(installers[h].call)
    PROVE  /\ calls'[installers'[h].call].stage # "none"
           /\ calls'[installers'[h].call].stage \in {"sent", "claimed"} =>
                 calls'[installers'[h].call].host = h
           /\ calls'[installers'[h].call].stage = "registered" =>
                 Held(targets', calls'[installers'[h].call].credentials, h)
<1> DEFINE w == installers[h].call
<1>1. /\ calls[w].stage # "none"
      /\ calls[w].stage \in {"sent", "claimed"} => calls[w].host = h
      /\ calls[w].stage = "registered" => Held(targets, calls[w].credentials, h)
  BY DEF IInv, HostsInv, WaitsForOwn
<1>2. w \in Calls /\ CallsTyped /\ TypeOK
  BY InstallerShapes DEF IInv, Installing, Waiting, TypeOK
<1>3. calls[w].stage = "registered" => Held(targets', calls[w].credentials, h)
  BY <1>1, <1>2, CallShapes, HeldKept DEF RegisteredCall
<1> QED
  BY <1>1, <1>3 DEF CallMoves

LEMMA WaitsNext == IInv /\ [Next]_vars => WaitsForOwn' /\ WaitsAlone'
<1> SUFFICES ASSUME IInv, [Next]_vars PROVE WaitsForOwn' /\ WaitsAlone'
  OBVIOUS
<1>1. TypeOK /\ TypeOK' /\ WaitsAlone /\ TargetsGrow
  BY TypeNext, Grows DEF IInv, HostsInv
<1>2. CallsTyped /\ InstallersTyped
  BY <1>1 DEF TypeOK
<1>3. ASSUME \A h \in Hosts : Installing(h, "waiting")' =>
                /\ Installing(h, "waiting") /\ installers'[h] = installers[h]
                /\ CallMoves(installers[h].call)
      PROVE  WaitsForOwn' /\ WaitsAlone'
  <2>1. WaitsAlone'
    BY <1>1, <1>3 DEF WaitsAlone
  <2>2. WaitsForOwn'
    <3>1. SUFFICES ASSUME NEW h \in Hosts, Installing(h, "waiting")'
                   PROVE  /\ calls'[installers'[h].call].stage # "none"
                          /\ calls'[installers'[h].call].stage \in {"sent", "claimed"} =>
                                calls'[installers'[h].call].host = h
                          /\ calls'[installers'[h].call].stage = "registered" =>
                                Held(targets', calls'[installers'[h].call].credentials, h)
      BY DEF WaitsForOwn
    <3>2. Installing(h, "waiting") /\ installers'[h] = installers[h] /\ CallMoves(installers[h].call)
      BY <1>3, <3>1
    <3> QED
      BY <1>1, <3>2, WaitingKept
  <2> QED
    BY <2>1, <2>2
<1>4. CASE ApiStep
  <2>1. UNCHANGED installers
    BY <1>4 DEF ApiStep, MintEnrollmentToken, Expire, Claim, Reject, CommitRegister, FailRegister, Unheard
  <2> QED
    BY <1>3, <1>4, <2>1, ApiMoves DEF Installing
<1>5. ASSUME NEW k \in Hosts, NEW c \in Calls, Register(k, c)
      PROVE  WaitsForOwn' /\ WaitsAlone'
  <2>1. installers[k] \in Enrolling
    BY <1>2, <1>5, InstallerShapes DEF Register, Installing
  <2>2. /\ installers'[k] = [stage |-> "waiting", token |-> installers[k].token, call |-> c]
        /\ \A h \in Hosts \ {k} : installers'[h] = installers[h]
    BY <1>2, <1>5 DEF Register, InstallersTyped
  <2>3. /\ calls'[c] = [stage |-> "sent", token |-> installers[k].token, host |-> k]
        /\ \A d \in Calls \ {c} : calls'[d] = calls[d]
    BY <1>2, <1>5 DEF Register, CallsTyped
  <2>4. \A h \in Hosts : Installing(h, "waiting") => installers[h].call # c
    BY <1>5 DEF Register, NoCall, IInv, HostsInv, WaitsForOwn
  <2>5. \A h \in Hosts : Installing(h, "waiting") => installers[h].call \in Calls
    BY <1>2, InstallerShapes DEF Installing, Waiting
  <2>6. WaitsAlone'
    BY <1>1, <2>2, <2>4 DEF WaitsAlone, Installing
  <2>7. WaitsForOwn'
    <3>1. SUFFICES ASSUME NEW h \in Hosts, Installing(h, "waiting")'
                   PROVE  /\ calls'[installers'[h].call].stage # "none"
                          /\ calls'[installers'[h].call].stage \in {"sent", "claimed"} =>
                                calls'[installers'[h].call].host = h
                          /\ calls'[installers'[h].call].stage = "registered" =>
                                Held(targets', calls'[installers'[h].call].credentials, h)
      BY DEF WaitsForOwn
    <3>2. CASE h = k
      BY <2>2, <2>3, <3>2
    <3>3. CASE h # k
      <4>1. Installing(h, "waiting") /\ installers'[h] = installers[h]
        BY <2>2, <3>1, <3>3 DEF Installing
      <4>2. CallMoves(installers[h].call)
        BY <2>3, <2>4, <2>5, <4>1 DEF CallMoves
      <4> QED
        BY <1>1, <4>1, <4>2, WaitingKept
    <3> QED
      BY <3>2, <3>3
  <2> QED
    BY <2>6, <2>7
<1>6. ASSUME NEW k \in Hosts, RetryRegister(k) \/ GiveUp(k) \/ Enrolled(k)
      PROVE  WaitsForOwn' /\ WaitsAlone'
  <2>1. /\ Installing(k, "waiting") /\ ~Installing(k, "waiting")'
        /\ \A h \in Hosts \ {k} : installers'[h] = installers[h]
    BY <1>2, <1>6 DEF RetryRegister, GiveUp, Enrolled, Installing, InstallersTyped, NoInstaller
  <2>2. UNCHANGED calls \/ calls' = [calls EXCEPT ![installers[k].call] = NoCall]
    BY <1>6 DEF RetryRegister, GiveUp, Enrolled, Free
  <2>3. ASSUME NEW h \in Hosts, Installing(h, "waiting")'
        PROVE  /\ Installing(h, "waiting") /\ installers'[h] = installers[h]
               /\ CallMoves(installers[h].call)
    <3>1. h # k /\ Installing(h, "waiting") /\ installers'[h] = installers[h]
      BY <2>1, <2>3 DEF Installing
    <3>2. installers[h].call # installers[k].call
      BY <1>1, <2>1, <3>1 DEF WaitsAlone
    <3>3. installers[h].call \in Calls
      BY <1>2, <3>1, InstallerShapes DEF Installing, Waiting
    <3> QED
      BY <1>2, <2>2, <3>1, <3>2, <3>3 DEF CallMoves, CallsTyped
  <2> QED
    BY <1>3, <2>3
<1>7. ASSUME NEW k \in Hosts,
             \/ \E t \in Tokens : StartInstall(k, t)
             \/ SaveCredentials(k) \/ StopAgent(k) \/ StartService(k) \/ AbortInstall(k) \/ StartAgent(k)
      PROVE  WaitsForOwn' /\ WaitsAlone'
  <2>1. UNCHANGED calls
    BY <1>7 DEF StartInstall, SaveCredentials, StopAgent, StartService, AbortInstall, StartAgent
  <2>2. \A h \in Hosts : Installing(h, "waiting")' => Installing(h, "waiting") /\ installers'[h] = installers[h]
    BY <1>2, <1>7
    DEF StartInstall, SaveCredentials, StopAgent, StartService, AbortInstall, StartAgent, Installing,
        InstallersTyped, NoInstaller
  <2> QED
    BY <1>3, <2>1, <2>2 DEF CallMoves
<1>8. CASE UNCHANGED vars
  BY <1>3, <1>8 DEF vars, Installing, CallMoves
<1> QED
  BY <1>4, <1>5, <1>6, <1>7, <1>8 DEF Next, InstallerStep

LEMMA InvInit == Init => IInv
<1> SUFFICES ASSUME Init PROVE IInv
  OBVIOUS
<1>1. TypeOK
  BY TypeInit
<1>2. TablesInv
  BY DEF Init, TablesInv, ClaimsHold, Claimed, OnlyUsedHaveKeys, KeysIssued, TargetsBound, NoCall
<1>3. HostsInv
  BY DEF Init, HostsInv, WaitsForOwn, WaitsAlone, HoldsOwn, FilesOwn, AgentsOwn, Installing, NoInstaller
<1> QED
  BY <1>1, <1>2, <1>3 DEF IInv

LEMMA InvNext == IInv /\ [Next]_vars => IInv'
  BY TypeNext, TablesNext, HoldersNext, WaitsNext DEF IInv, HostsInv

-----------------------------------------------------------------------------
(* The theorems. *)

LEMMA HeldIsOwn ==
    ASSUME TypeOK, NEW h \in Hosts, NEW creds \in Credentials, Held(targets, creds, h)
    PROVE  Own(creds, h)
<1>1. creds.target \in TargetIds /\ creds.key \in Nat /\ creds # Null
  BY EnrollmentAssumption DEF Credentials
<1>2. targets[creds.target] \in Target
  BY <1>1 DEF TypeOK, Held
<1> QED
  BY <1>1, <1>2 DEF Own, Held, Accepted, Target

\* Saved and loaded credentials are their host's and work until a newer key is
\* given out, and every target has the key of a token bound to it
\* (registerAgent), for any hosts, tokens and calls.
THEOREM CredentialsStayOwn == Spec => []CredentialsAreOwn
<1>1. IInv => CredentialsAreOwn
  <2> SUFFICES ASSUME IInv PROVE CredentialsAreOwn
    OBVIOUS
  <2>1. \A h \in Hosts : files[h] # Null => Own(files[h], h)
    BY HeldIsOwn DEF IInv, TypeOK, HostsInv, FilesOwn
  <2>2. \A h \in Hosts : agents[h] # Null => Own(agents[h], h)
    BY HeldIsOwn DEF IInv, TypeOK, HostsInv, AgentsOwn
  <2> QED
    BY <2>1, <2>2 DEF CredentialsAreOwn, IInv, TablesInv, TargetsBound
<1> QED
  BY <1>1, InvInit, InvNext, PTL DEF Spec

\* A token gives out one key, however many requests send it and whenever they
\* come (registerAgent's claim).
THEOREM TokensAreSingleUse == Spec => TokenGivesOneKey
<1> DEFINE Keeps == \A t \in Tokens : tokens[t].key # Null =>
                       tokens'[t].key = tokens[t].key /\ tokens'[t].target = tokens[t].target
<1>1. IInv /\ [Next]_vars => [Keeps]_vars
  <2> SUFFICES ASSUME IInv, [Next]_vars PROVE Keeps
    OBVIOUS
  <2>1. tokens \in [Tokens -> Token]
    BY DEF IInv, TypeOK
  <2>2. ASSUME NEW t \in Tokens, MintEnrollmentToken(t) \/ Expire(t)
        PROVE  Keeps
    BY <2>1, <2>2 DEF MintEnrollmentToken, Expire, Token
  <2>3. ASSUME NEW c \in Calls, CommitRegister(c)
        PROVE  Keeps
    <3>1. PICK id \in TargetIds :
              tokens' = [tokens EXCEPT ![calls[c].token] =
                            [state |-> "used", target |-> id, key |-> issued']]
      BY <2>3, CommitWrites
    <3>2. tokens[calls[c].token].key = Null
      BY <2>3 DEF IInv, TablesInv, ClaimsHold, Claimed, CommitRegister
    <3> QED
      BY <2>1, <3>1, <3>2
  <2>4. CASE UNCHANGED tokens
    BY <2>4
  <2> QED
    BY <2>2, <2>3, <2>4
    DEF Next, ApiStep, InstallerStep, Claim, Reject, FailRegister, Unheard, StartInstall, Register,
        RetryRegister, GiveUp, Enrolled, SaveCredentials, StopAgent, StartService, AbortInstall,
        StartAgent, vars
<1> QED
  BY <1>1, InvInit, InvNext, PTL DEF Spec, TokenGivesOneKey
=============================================================================
