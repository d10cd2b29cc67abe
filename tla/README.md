# Direct anonymous attestation on Android: a TLA+ model of `daa_core`

`daa_core` lets an Android application make anonymous signatures (ECDAA) with a
key that lives in a TPM 2.0. The application holds three parties: a bridge in C
that talks to the TPM, the IBM software TPM as a library in the same process,
and a test issuer. The attestation key is bound to a policy that the issuer
controls: the key signs only when a *wallet* has signed the nonce of the very
session and when the PCRs are as the issuer approved them.

Below, `C` is `src/app/src/main/cpp` and `T` is `src/app/androidTPM/src/main/cpp`.

## 1. The system

| Component | State | Operations | Who uses it | Modelled in |
|---|---|---|---|---|
| TPM commitments (`T/CryptEccMain.c`, `CryptEccSignature.c`, `CryptUtil.c`, `EphemeralCommands.c`) | `gr.commitCounter`, `gr.commitArray`, `gr.commitNonce` | `CryptCommit`, `CryptGenerateR`, `CryptEndCommit`, reset, shutdown and startup | TPM2_Commit, TPM2_Sign | `CommitCounter` |
| TPM sessions and policy (`T/Session.c`, `SessionProcess.c`, `EACommands.c`, `Policy_spt.c`) | `s_sessions`; per session nonce, digest, notes, timeout, PCR counter | StartAuthSession, the policy commands, the check of a policy session, flush | every authorized command | `Sessions`, `Attestation`; deadlines in `Tickets`, notes in `Policies` |
| TPM session contexts (`T/Session.c`, `ContextCommands.c`) | `gr.contextArray`, `gr.contextCounter`, `s_oldestSavedSession` | create, save, load, flush, startup | callers with more sessions than slots | `Contexts` |
| TPM objects and hierarchies (`T/Object.c`, `Hierarchy.c`, `HierarchyCommands.c`, `Context_spt.c`) | `s_objects`, persistent objects, enables, proofs, `clearCount` | create, load, save, persist, flush, enable, clear, change seeds | every command with a key | `Objects` |
| TPM clock and lockout (`T/Time.c`, `DA.c`, `DictionaryCommands.c`, `ClockCommands.c`) | `g_time`, `go`, `gp.failedTries`, `s_DAPendingOnNV`, `gp.timeEpoch` | update of the time, failed authorizations, healing, reset | every authorization | `Lockout`; epochs in `Tickets` |
| TPM NV indices (`T/NVDynamic.c`, `NVCommands.c`) | the list in NV, `s_indexOrderlyRam`, `s_maxCounter` | define, undefine, write, increment, lock | any application | `Nv` |
| TPM shutdown and startup (`T/StartupCommands.c`, `ExecCommand.c`) | `gp.orderlyState`, `g_clearOrderly` | TPM2_Shutdown, TPM2_Startup, loss of power | all of the above | `Power` |
| TPM PCRs (`T/PCR.c`, `IntegrityCommands.c`) | `s_pcrs`, `gr.pcrCounter`, `gc.pcrSave`, `gp.pcrAllocated`, `g_DRTMHandle` | extend, reset, allocate, dynamic launch, shutdown and startup | PolicyPCR, the check of a session | `Pcrs`; as approved or changed in `Sessions` |
| The TPM as the bridge uses it (`T/ObjectCommands.c`, `SigningCommands.c`, `Entity.c`) | `s_objects`, the persistent EK | CreatePrimary, LoadExternal, FlushContext, EvictControl, ActivateCredential, ... | the bridge | `Tpm` |
| DAA bridge (`C/daa_bridge.c`, `C/bridge_tpm.c`) | `daa_key_p`, `signSession`, `signNonce`, `nonce_sig`, `auth_ticket`, `commit_ticket`, `credential`, `daaTemplate` | `setup`, `requestNonce`, `onCreateAttestationKeyCommand`, `onIssuerChallenge`, `onIssuerFCRE`, `execute_daa_sign` | JNI | `Bridge` |
| JNI interface (`C/native-lib.cpp`, `DAAInterface.java`) | none of its own | `initiateTPM`, `initializeTPM`, `DAAEnable`, `CreateEnableResponse`, `HandleIssuerChallenge`, `EnableDAACredential`, `startDAASession`, `DAASign` | the application | order of calls in `Bridge`, start in `Simulator` |
| Test issuer (`C/Test_issuer`, `C/daa/daa_issuer.c`) | one registration in globals | register, challenge, full credential | the application | `Join`, `Credentials`; its arithmetic in `Daa` |
| DAA client arithmetic (`C/daa/daa_client_base.c`, `BN_Crypto.c`, `daa_pairings.c`) | none | randomize, hash, finish and verify a signature | the bridge, the issuer | `Daa` |
| TPM simulator process (`T/TcpServerPosix.c`, `TPMInterface.c`, `TPMCmdp.c`, `NVMem.c`, `AndroidTPM.java`) | two threads, sockets, power, the file `NVChip` | start, manufacture, power off and on, NV on, send command | the TSS | `Simulator` |
| Policy digests (`C/policy.c`, `C/hash.c`); templates, key formats, demo (`C/templates.c`, `objecttemplates.c`, `cryptoutils.c`, `persistence.c`, `demo.c`); the rest of the TPM reference code | none, or tables | | | not modelled, see section 5 |

How they interact. The application calls the bridge through JNI. The bridge
sends each TPM command through the IBM TSS (a binary, `libibmtss.so`) to a socket
on which a thread of the same process serves the TPM, one connection and one
command at a time; a second thread serves power and NV on a second port. Nothing
in `src/` calls the bridge from two threads. The issuer and the wallet are
outside; the test issuer is called through JNI too. Inside the TPM the
subsystems meet in three places: a session authorizes a command, a slot holds
the key that a command names, and all of them go down and come up with
TPM2_Shutdown and TPM2_Startup.

What is hard:

* *Errors are ignored.* The bridge checks almost no return code (only the one
  of the first EvictControl in `setup`). After an error the next command runs,
  on a handle, a ticket or a count that may never have been written.
* *State outlives calls.* Sessions and keys stay in the TPM, and the globals of
  `daa_bridge.c` say which of them are whose. `execute_daa_sign` creates the
  attestation key again at every call and does not flush it; there are three
  slots.
* *Crashes.* The TPM is in the application's process, so both die together;
  only NV survives. The bridge ends the process itself when setup meets an error.
* *Threads and a wait that proves nothing.* The caller gives the TPM 250 ms to
  start and goes on. Connections succeed before anybody accepts them, answers are
  awaited without a timeout.
* *An issuer with one registration.* It is in globals that the next client
  overwrites, and what is wrong with a response is logged and no more.
* *Counting.* The commitment is found again from 16 bits of a 64-bit counter and
  a bit array of 128; the age of a saved session from 16 bits that wrap; whether
  a PCR changed from a counter that must never be 0; an NV counter from a copy in
  RAM that a loss of power takes away.
* *What a startup brings back.* TPM2_Shutdown saves a state that later commands
  change. Those that matter have to take the note of the shutdown back, and what
  is in the hands of callers (contexts, tickets) knows nothing of it. Some PCRs come back and others start anew, and
  where they start has to tell how the machine was started.
* *Time.* It starts again with each loss of power and stands still while NV is
  away, and deadlines, healing and the clock are measured in it.
* *Policies replaced in place.* PolicyAuthorize restarts the digest of a session
  and keeps its command code and PCR counter.
* *Numbers without padding.* OpenSSL writes a number with as many bytes as it
  needs, the TPM mostly with as many as the curve has.

What makes each component correct:

* commitments: no two signatures from one commitment, none refused without a
  reason;
* sessions: no signature without the wallet's consent to this session and without
  the approved PCRs, one command for each nonce; an authorization ends with its
  deadline and not before; notes and digest of a session say the same;
* session contexts: a context that was loaded, flushed or reset never comes back,
  one that is saved always can, and there is always a way out of a full gap;
* objects: none outlives its hierarchy, its proof or its period;
* lockout: every failure counts until it is paid for in time (but for finding 6), and no TPM stays
  locked out for longer; a clock that says it is safe has never been further;
* NV: counters never go back, data is the latest, locks hold, an orderly index
  has its room;
* PCRs: nothing that was extended gets lost, start values tell of startups and launches, a check of a session is
  stale as soon as a PCR has changed;
* bridge: a call made properly succeeds whatever happened before, a call signs
  only with the consent and the commitment of its own (or, if it made none, with one
  that no signature answered before), a call leaves no key of others in the TPM, the first setup of a process brings everything back to a
  known state;
* simulator: a setup on a TPM that is up succeeds, every call returns, NV is
  manufactured before it is used and never lost;
* join: an issuer encrypts no two credentials with one key, a client holds no
  credential but its own;
* arithmetic: a signature is accepted just if it is what it claims to be.

`PROJECT.json` lists the hazards line by line with the properties on each.

## 2. The modules

```
 Power                                       CommitCounter     Sessions --implements--> Attestation
   |                                                 \            /
   +-- Contexts, Lockout, Objects, Nv, Pcrs           \          /
   |        \______ joined in Parts                       Tpm         (EXTENDS both, adds key slots)
   |                                                       |
   +-- Tickets                                           Bridge   --implements--> CommitSpec, SessionsSpec
          \
           CommitCounter, Sessions, Tickets,        Simulator         the process around Bridge and Tpm
           Policies, Daa: joined in Signing         Join          --implements--> Credentials
```

`Parts` and `Signing` are joints for TLC and no models: each behaviour is one of one part, and the
variables of the other parts stay as they are, so what is checked of a part is just its own specification.
`Simulator` is the layer below `Bridge`: a call of `Bridge` is a series of its commands, and that a second
setup hangs, which `Simulator` shows, is the action `EnableAgain` of `Bridge`. `Join` is the layer above: what a
call of `Bridge` does to the key and the credential, with any number of clients.

### The TPM: what a signature takes

**`CommitCounter`** — the commitments. `commitArray` is the set of indices whose
bit is set. `CryptCommit` is the function of that name (with TPM2_Commit around
it, which has no other effect); `AcceptsCount`, `TurnOf` and `CommittedCount` are the sign
phase of `CryptGenerateR`; `SignEcdaa` is `BnSignEcdaa` with `CryptEndCommit`;
`CommitReset` is `CryptStartup`. `CommitShutdown`, `CommitClearOrderly` and `CommitResume` are what
TPM2_Shutdown(STATE) saves, what makes it worthless, and the startup that brings it back. `commitNonce` is a number instead of a random
value: fresh nonces are taken to differ. `signedWith` and `undone` are history variables: the signatures,
and those that a startup has undone. The widths are the constants `IndexSize` and `CountRange`.

**`Sessions`** — policy sessions, PCRs and who authorized what. A digest is named by
the policy it stands for, and `Extend` is the hash: hashes do not collide, so
everything off the two approved paths is the one value `"other"`. `Can...`
operators are the guards of the commands in the order of their checks, with the
code's error returns as the negation. A nonce is the number of its draw. `UseSession` is
a command that the session authorizes, with the end of the session (or, with
continueSession, its reset and new nonce) in the response. Anyone may send any
command. `consumed` is a history variable.

**`Attestation`** — the promise as seen from outside: the wallet agrees to uses, a
use is granted once, only while the machine is as approved. `Sessions` implements it
with `agreed <- walletSigned`, `machine <- pcrs`, `issued <- Issued`.

**`Tickets`** — authorizations with a deadline: `PolicyTimed` is PolicySigned or PolicySecret with an expiration and,
if asked for, a ticket; `TPM2_PolicyTicket` hands one in. `ReadTime` is the update of the time with its new epoch,
`ComputeAuthTimeout`, `InTime`, `TimeoutUpdated` and `TicketIsGenuine` are the functions that work on a timeout. A session may be saved and
loaded (`MoveTimedSession`); `ResetSignal` is _TPM_Init without a loss of power, `PowerCycle` one with it. The history variable
`deadlines` says, in power periods and true time, what the session relies on.

**`Policies`** — the assertions that leave a note for the command to come. One action for each policy command that does; `CheckPolicyAuthSessionNotes` is
the part of `CheckPolicyAuthSession` that reads notes, `U1Holds` its switch over the one hash. A command to authorize is a record of
code, names, parameters, role, locality and so on (`Use`). The history variable `asserted` is what the digest stands for. A name hash is
taken from names only, the hash a PolicySigned brings may be anything.

**`Daa`** — the arithmetic, from the making of a credential to the verdict of a verifier, one action for each function: `make_daa_credential` (issuer),
`randomizeCredential` (host), `Commit` and `BnSignEcdaa` (TPM), `daa_finalize_signature` (host), `daa_verify_signature` (verifier, or with `kind`
*join* the issuer's `issuer_verify_signature`). A point is its exponent in a small group and a pairing the product of two; the equations are those of the
code. A number is written as two bytes: `Padded` by the TPM, `Unpadded` by `BnTo2B` with size 0, and by `BN_bn2bin` into a
buffer that keeps what is not written (`Into`). A hash that is a number is drawn, once for each input. `made`, `claim` and `lost` are history variables: what the signature really is,
what the verifier takes it for, and whether a leading zero was dropped on the way.

### The TPM: what goes down and comes up again

**`Power`** — the note of the shutdown, `orderlyState`, with `NvClearOrderly` (a command that changes what was saved
takes the note back, or fails while NV is away), `StartupType` (Reset, Restart or Resume), loss of power between any two commands, and NV
that comes and goes (`nvAvailable`). The following modules extend it, `Tickets` too, and join their part to its steps.

**`Contexts`** — saved sessions. An entry of `contextArray` is a slot of RAM or the low bits of the number of a saved context; `Oldest` is the search for the
oldest one after the bits wrapped, `GapIsMaximal` the test that stops saving. The actions are the commands that create, save, load and flush, with any context
of the past offered to a load, and shutdown, startup and loss of power. `live` and `forgotten` are history variables: the numbers of the contexts that may be loaded, and
those whose flush a Resume takes back. `ContextSaveTooMany` is what happens at the end of the 64 bits.

**`Lockout`** — clock and failed authorizations. `TimeUpdate` is the update that starts each command, with `TimeClockUpdate` (clock, safe flag and writes to NV) and
`DASelfHeal`; `CountFailure` and `PendingWritten` are a failure and one that waits for NV; `LockedOut` is the refusal. RAM and NV copies (`go` and `nvGo`, `da` and `nvDa`) are apart.
`Elapsed` is the time since a timer was set, an unsigned difference of the width `TimeRange`. `failures`, `powered`, `restarts`, `reported` and `provisional` are history variables, and `mixed`, which says that a startup found
a timer later than the shutdown that it is taken to be of.

**`Objects`** — slots, persistent objects and contexts in the hands of callers, hierarchies with their proofs. `NvGetEvictObject` is the copy of a persistent object in a slot that `ObjectCleanupEvict` takes away,
`ObjectContextIsValid` the integrity of a context; `Renew` is what Clear, ChangeEPS and ChangePPS have in common. `cleared`, `period` and the field `born` are history.

**`Nv`** — NV indices. `index` is the list in NV, `ram` and `savedRam` the orderly data and its image in NV. `NvWriteIndexData`, `NvWriteIndexAttribute`, `NvAddRAM`, `NvDeleteIndex`,
`NvSetStartupAttributes` are the functions of these names. `UndefineSpaceFails`, `OtherOrderlyNvCommand` and `NvNvSignal` are what happens around.

**`Pcrs`** — the PCRs, of one bank. A value is where the PCR started (`StartValue`: the bytes that a startup or a launch writes) and the list of what was extended into it; each measurement is a number of its own, so two
values are the same just if their hashes are. `PcrExtend` to `PcrClear` are the commands, `UpdatesPcr` the rule by which a change of a saved PCR takes the note of a shutdown back, and `PcrAllocate` writes to NV
only. `HashStart` and `HashEnd` are the signals of a dynamic launch (`DrtmEnd`) or, before TPM2_Startup, of an H-CRTM event (`HcrtmEnd`); every command calls `EndsSequence`. `ValueAtStartup` and `CounterAtStartup` are `PCRStartup`.
One policy session checks the PCRs (`PcrPolicy`); it may be saved, and then outlives a shutdown. `measured`, `promisedAuth`, `intact`, `launches` and `startedHow` are history variables, as is what the session saw.

### The bridge and what is around it

**`Tpm`** — puts `CommitCounter` and `Sessions` behind one command interface and adds the key slots: a command either
succeeds or returns an error and changes nothing. Two details of the reference
code matter: a persistent key named by a command needs a free slot for the time of
the command, and slots and session handles are handed out lowest first.

**`Bridge`** — the bridge and its callers. Each JNI call is a sequence of actions, one for
each TPM command, in the order of the code; `pc` names the next one.

| Call | Code | Actions |
|---|---|---|
| `initializeTPM`, the first call | `setup` | `Enable` `CreateEk` `Persist` (`Unpersist` `PersistAgain`) `FlushEk` |
| `DAAEnable`, the first call | `setup`, `requestNonce` | the same, then `RequestNonce` |
| either of them later | `setup` | `EnableAgain`, which never returns |
| `startDAASession` | `requestNonce` | `StartSession` `RequestNonce` |
| `CreateEnableResponse` | `onCreateAttestationKeyCommand` | `CreateKey` |
| `HandleIssuerChallenge` | `onIssuerChallenge` | `Challenge` `LoadIssuer` `Verify` `FlushIssuer` `Activate`, then the signature |
| `EnableDAACredential` | `onIssuerFCRE` | `Fcre` `ActivateFull` `FlushDaa` |
| `DAASign` | `execute_daa_sign` | `DaaSign`, then the signature |
| the signature | `satisfyPolicy`, `tpm2_commit`, `tpm2_sign`, ... | `StartCommit` `CommitCode` `AuthorizeCommit` `BridgeCommit` `LoadWallet` `BridgePolicySigned` `BridgePolicyPCR` `FlushWallet` `AuthorizeSign` `BridgeSign` |

A command that fails leaves its output unwritten. A global then keeps what it was
(`Kept`); a local is memory nobody wrote (`Received`, `Unwritten`): with
`Leftovers` TRUE it may hold any handle (of a key or of a session), any ticket
the bridge ever held or any count, with FALSE only a useless value. `Wallet` signs the nonce that the bridge holds, `Extends`
is other software, `Crash` is the death of the process between two commands.
`proper`, `roomy` and `result` are history variables that say whether the running call was
made as the API wants it, whether the TPM had room for it, and how it ended. The bridge never sends TPM2_Shutdown, so
`Tpm` leaves shutdown out (`MaxUndone` is 0 in its runs).

**`Simulator`** — the process of the application: the JNI caller, the thread that starts the TPM and
then serves commands (`server`), the thread of the platform port (`platform`), and between them connections. `server` walks
through `startInternalTPM`: `EnableNv`, `Manufacture`, `DisableNv`, `StartPowerOn`, `StartNvOn`, `Spawn`,
`Bind`. `Setup` is `initializeTPM`; `NextMessage` is the order in which it sends power off, power on, NV on and TPM2_Startup,
and goes on with a command, as `setup` does. `Send` and `Receive` are the two ends of a TSS transmission; `Connect` joins
the backlog of a port that listens, `PlatformAccept` and `CommandAccept` take from it, and the services stay with a
connection until its client ends it. `Exit` is `handle_TPM_error` with CRITICAL, `Kill` the end of the process at any
point. Only `nvFile` survives both. `ready` and `exited` are history variables. The constant `Reopens` says whether the application
sets up again without closing the connection of the setup before.

**`Join`** — registration, challenge, response and credential. `network` holds every message that was ever sent and loses
none: a message that is lost is one that nobody reads. A secret is the number of its draw and stands for a
credential key. `Register` is `send_issuer_registration` with `daa_initiate_join`, `Respond` is `send_challenge_response` with
`daa_on_host_response`; `Proves` is what the latter compares. A client whose TPM command fails goes on with what an
earlier activation left in memory, as the bridge does. `Restart` and `IssuerExit` are the ends of the processes (a client that has
started again has called DAAEnable, so that its EK is there); what the issuer calls `exit` for is `RefuseRegistration` and
`RefuseResponse`. `accepted` and `issued` are history variables.

**`Credentials`** — the promise of a join: a credential is issued for keys the issuer took in, under its policy, and a client
obtains that of its own key.

What the models take for granted: calls of the bridge come one at a time; hashes, nonces and
random numbers do not collide; the wallet's key is the one in the policy and the
issuer's signatures are genuine; unwritten memory holds a value of the kind that is
read from it; the digests that `policy.c` computes are those of the TPM; an NV write reaches the
file at the end of its command, all of it or nothing; in `Join`, a
registration names the client that made it and a challenge is opened by no TPM but that of its EK; in `Simulator`, a
connection is lost only with the process, and a file is written as a whole.

## 3. What TLC checks

Deadlock is not checked: every counter has a bound, and a system that has used up
its bounds stops. `simulator_threads` and `simulator_reopens` check liveness, all others safety.

| Run | Bounds | States | Shows |
|---|---|---|---|
| `signing` | below, for each part | 0.75 million | *CommitCounter*: `OneSignaturePerCommitment`, `CountsAreExact`. *Sessions*: `SignNeedsConsent`, `SignNeedsApprovedPcrs`, `NonceAuthorizesOnce` and the refinement `AttestationSpec`. *Tickets*: `TimedAuthorizationEnds`, `TimedAuthorizationLasts`. *Policies*: `PolicyIsExact`. *Daa*: `SignatureIsExact`. |
| `commit_resume` | the commitments of `signing` | violated | `EndedCommitmentIsNotUsedAgain`: finding 1. |
| `parts` | below, for each part | 1.4 million | *Contexts*: `OnlyLiveContextsLoad`, `LiveContextsStayValid`, `GapCanBeRelieved`. *Lockout*: `SafeClockIsAhead`, `ForgivenFailuresArePaid`, `LockoutEnds`. *Objects*: `DisabledHierarchyIsEmpty`, `ClearedObjectsAreGone`, `ObjectsEndWithTheirPeriod`. *Nv*: `OrderlyRamIsExact`, `CountersNeverGoBack`, `NoStaleData`, `LocksHold`. *Pcrs*: `CurrentCheckHolds`, `MeasurementsAreKept`, `StartValuesTell`. |
| `lockout_mixed` | the clock of `parts` | violated | `FailuresArePaid`: finding 6. |
| `nv_clear` | the indices of `parts` | violated | `DeletedCountersNeverGoBack`: finding 2. |
| `bridge_calls` | 3 slots and 3 sessions as in the build, 6 nonces, 5 commits | 2.5 million | A call that is made as the API wants it signs, after any sequence of calls: `ProperCallSigns`. |
| `bridge_crash` | 2 slots, 2 resets, 3 nonces, 2 commits, 1 extend, `Leftovers` TRUE | 1.6 million | The application dies at any point, commands fail for want of a slot and unwritten memory holds anything of its kind: `EnableHeals`, `SignatureUsesCallersConsent`, `SignUsesItsOwnCommitment`, `ExternalKeysDoNotLeak`; and every step of the TPM behind the bridge is one of `Sessions` and one of `CommitCounter`, or none: `SessionsSpec`, `CommitSpec`. |
| `simulator_threads` | 3 processes, 3 setups and 2 later commands in each | 1.8 thousand | However the threads take turns and wherever the process dies: `ReadySetupSucceeds`, `NothingBlocksCall`, `HangsOnlyBehindLeak`, `NvIsNeverLost`. |
| `simulator_reopens` | 1 process, 2 setups, `Reopens` TRUE | violated | `CallReturns`: finding 3. |
| `simulator_manufacture` | 2 processes | violated | `ManufactureIsNotSkipped`: finding 4. |
| `join` | 2 clients, 4 credential keys, 7 messages | 0.9 million | `KeyEncryptsOnce` and the refinement `CredentialsSpec`. |
| `join_proof` | the same | violated | `ProofBeforeCredential`: finding 5. |

`parts` also checks the types of all its parts (`PartsTypeOK`); those of the parts of `signing` are proved, in `CommitInvariant`, `SessionsInvariant`, `TicketsInvariant`, `PoliciesInvariant` and `DaaTypes`. With two workers on an idle machine `bridge_crash` and `parts` take about two minutes, each other run less.

### Bounds, and why they are enough

* *CommitCounter*: an array of 2 bits, 4 counts, 4 commitments, a Reset, one signature that a startup undoes. The interesting cases of `CryptGenerateR` are an index before, on and after the
  counter's own, in the same turn and the one before, with the upper bits equal or not; two bits and four commitments have them all, up to where the counter's own count is 0 again. The proofs cover other widths.
* *Sessions*: 2 sessions, for a step that mixes them up; 3 nonces, for a handle that is handed out again; 2 extends.
* *Tickets*: a second is 2 ms, so that rounding shows; expirations of 0 and 1 second; two power periods of two seconds, so that a time of the first comes again in the second; two Resets; one ticket.
* *Policies*: a command that creates, one that duplicates and one that needs a password; two names, two parameters, two normal localities and an extended one: something that matches an assertion and something that does not, for each kind.
* *Daa*: the group has 13 elements, a prime as the code's `BNP256_ORDER` is, and a byte 4 values, so 3 of 12 numbers have a leading zero; two keys, two values for each part of the issuer's key (so the known issuer, and others that differ in one part or both), two numbers that the generators
  return, one of which is a byte shorter, four hashes with 0 among them, two values for memory that nobody wrote.
* *Contexts*: 3 sessions on 2 slots; 6 values of an entry, of which 3 are numbers, so that the gap is full with what three sessions can do; the counter ends in its third turn; 2 Resets.
* *Lockout*: all periods are 1 or 2 ticks; 2 ticks with power, 2 failures with a limit of 2, two startups that find the note of a shutdown (the first one of all finds that of the manufacture), failures with lockoutAuth before the first tick only (`MaxLockoutTime`); an UINT64 has 100 values, far more than any difference that does not wrap. Without error were also failures with lockoutAuth at any time.
* *Objects*: 2 slots, a persistent object, a saved context, two hierarchies of which one is the platform's, a clear, a Reset after the first startup, and a Restart.
* *Nv*: a counter beside an index that is any of three kinds (orderly counter, orderly data with locks, data that ends with the startup); counts up to 3 with one low bit, so that they roll over; two values.
* *Pcrs*: a saved PCR that is the one of the H-CRTM (0), the one of the launch (17), one of the TCB group with an authValue (21); two measurements, for a launch and something else; the counter up to 3, which is
  two startups with a change between them. Without error were also a counter up to 4 with these PCRs, and up to 5 or 6 with 0, 17 and 20 (whose reset counts), 0, 10, 17 and 20 (10 is saved and need not be allocated) and 0, 16, 17 and 20.
* *Bridge*: six nonces are a join (two sessions for the challenge) and two signatures (two each); with a key for each signature and each
  CreateEnableResponse that is where the three slots are full. Two resets let the application die in the first
  setup and heal in the second, three nonces are a join, and two commitments one that a call leaves open and one for a call after it. With two slots a join fails for want of one at its commands in turn. Without error were also three resets, for a death in a setup that finds an EK in NV,
  two sessions, so that their commands fail first, and 2 commits with 3 slots.
* *Simulator*: three processes are one that dies
  while it makes the NV file, one that finds what is left, and one that lives on a file of two others; three
  setups are a leak, one that runs into it, and one more.
* *Join*: seven messages are one
  whole join and three messages of another client in between, which is where its registration replaces the first.

### Fairness

`FairSpec` of `Simulator` has weak fairness of the caller's waiting (`Send`, `ConnectFails`, `Receive`), of the server
thread and of the platform thread: they are threads of the operating system, each of which runs if it can, and none of them waits for
anything else than the actions say. Nothing is assumed of the application: no launch, setup or call has
to happen, and no process has to die. `HangsOnlyBehindLeak` (every call returns, or the process ends, unless a connection was left
open) and `CallReturns` are checked under it.

### Words on some properties

* `SignatureUsesCallersConsent` lets a wallet that signed
  the empty nonce through, as `Consent` in `Sessions` does. TPM2_PolicySigned with an
  empty nonce is not bound to a session, by the TPM's own rules
  (`T/Policy_spt.c:83`), and the bridge can hand out an empty nonce when no session could be
  opened. That one agreement then covers all sessions is what the properties say.
* `OneSignaturePerCommitment` leaves out the signatures that a startup undoes, and `CountersNeverGoBack` the orderly counters that TPM2_Clear
  deletes: findings 1 and 2 are just these.
* `ForgivenFailuresArePaid` has three exceptions, each of what the code does. A failure that waits for NV (`s_DAPendingOnNV`) is lost with the power if the note of a TPM2_Shutdown stands: that
  command does not look at the flag (`T/StartupCommands.c:284`), and a startup adds a failure only without the note (`T/DA.c:129`). The history counts it as forgiven (`LostByShutdown`), one at most for each loss of power.
  A loss of power that takes a timer back to a shutdown (`repeats`) is granted less than one `RecoveryTime`, as the timer counts once more what was spent after it. And left out are the behaviours
  in which a startup took a timer of after the shutdown for one of before it (`mixed`): finding 6 is just that, and `FailuresArePaid` is the same property without that exception.
* `SignUsesItsOwnCommitment` says less of a call whose TPM2_Commit failed. `execute_daa_sign` goes on with a count that nobody wrote (`C/daa_bridge.c:495`, `:555`), the result `signedBlind` of the model. With
  `Leftovers` TRUE that may be the count of a commitment which an earlier call left open, and the signature then answers that one. It never answers one that was answered before, and with `Leftovers` FALSE, where the
  memory has nothing of use, a call signs with the commitment of its own or not at all. `bridge_crash` reaches such signatures.
* `ObjectsEndWithTheirPeriod` leaves out stClear objects of the platform hierarchy. The comment at `T/Context_spt.c:136` has it that the count of restarts makes contexts of
  stClear objects end with a Restart; TPM2_Clear sets that count to 0 (`T/HierarchyCommands.c:425`) and renews the proofs of owner and endorsement only.
* `ContextsInUse`: what happens once the 64 bits of the context counter are used up is modelled and left out of the properties.
* `SignatureIsExact` says nothing of signatures on whose way a leading zero was dropped. About one number in 256 has one, and a
  signature has a dozen: V (`C/daa/daa_client_base.c:489`), `nonceK`, which the TPM writes without padding and of which the bridge
  copies 32 bytes (`C/daa_bridge.c:570`), the coordinates that host and issuer compute, and those of the verifier. Such a signature may be
  refused though it is proper. In a group this small a wrong number may also come out right by chance, so the property also leaves out those of the verifier's own.

### Findings

1. `commit_resume`. CryptEndCommit "clears the gr.commitArray bit associated with the count value so that it can't be used again"
   (`T/CryptEccMain.c:379`). gr is saved by TPM2_Shutdown(STATE), and a signature after that does not take the note of the shutdown back. A
   Resume then brings the bit back, and the commitment answers a second signature. The bridge sends no TPM2_Shutdown, so its own signatures do not meet this.
2. `nv_clear`. "Whenever a counter is deleted, make sure that the MaxCounter value is updated" (`T/NVDynamic.c:1144`). TPM2_Clear deletes an orderly counter
   with the descriptor in NV, which never says that the index is written, so its value is not noted, and a counter defined again at the handle starts below it. The bridge defines no index.
3. `simulator_reopens`. `initializeTPM` overwrites the pointer to the context of the setup before
   (`C/bridge_tpm.c:104`), so its connection is never closed, and the TPM waits on it while the new setup waits for
   the TPM. `DAAInterface.java` declares both `initializeTPM` and, as step 1, `DAAEnable`, and each of them is a setup.
   `HangsOnlyBehindLeak` shows that nothing else can make a call hang: with `finalizeContext` in between, no setup does.
4. `simulator_manufacture`. `_plat__NVEnable` writes an NV file of the full size before the TPM is
   manufactured, and the process may die in between, by `exit(-1)` of a setup that came too early for instance. The next start takes
   the file for a manufactured one; TPM2_Startup fails on it, and setup exits, at every start. The comment at
   `T/TPMInterface.c:61` promises the contrary for a manufacture that fails.
5. `join_proof`. `daa_on_host_response` "verifies the host response and issues a credential" (`C/daa/daa_issuer.c:663`); it logs what is
   wrong and issues the credential all the same. `CredentialsSpec` says what still holds: the credential is encrypted for the TPM that
   registered, so no other client can read it.
6. `lockout_mixed`. DASelfHeal, "called to check if sufficient time has passed to allow decrement of failedTries" (`T/DA.c:173`), takes an unsigned difference (`T/DA.c:206`): a timer that is ahead of the time
   forgives everything at once. DAStartup makes such a timer. It subtracts the time of the last shutdown from the saved timers (`T/DA.c:121`), and TimeClockUpdate may have written them after the shutdown
   (`T/Time.c:139`), as a failed authorization does not take the note of the shutdown back. It takes a TPM2_Shutdown after which the TPM is used until its clock passes a multiple of the interval.

Other remarks made on the way, without a run: the comment at `C/daa_bridge.c:374` says that `tpm2_sign` flushes the session, which is true only when
TPM2_Sign succeeds; after one that fails the session stays until the application restarts (`EnableHeals`). The comment at `T/EACommands.c:311` has tickets
expire "on TPM Reset or TPM Restart", but only a Reset is counted. TPM2_PCR_Allocate leaves the note of a TPM2_Shutdown(STATE) before it, so that a Resume already
uses the new allocation, though the comment at `T/PCR.c:911` has it effective after the "next TPM_RESET"; and TPM2_Clear, which writes `gp` as a whole (`T/HierarchyCommands.c:430`), takes an
allocation back that waits for it. A command that is audited after TPM2_Shutdown(STATE) leaves the note too, so that a Resume drops it from the command audit digest (`T/SessionProcess.c:1674`). `C/daa/daa_client_base.c:326` calls the output of the modulus
"same size as input", which it is not for one value in 256.

## 4. What TLAPS proves

Every theorem is of the specification of one module, for every value of the constants that its assumption
admits, and without bound on the histories but those that the actions name. Every strengthening was first checked by TLC; `ArrayIsExact`, `DigestIsProof` and
`ContextArrayIsExact`, which are among them, are no longer checked by a run of their own.

**`Tpm_proofs`**, about `CommitCounter`, from `CommitAssumption` (the array divides the range of counts, as 128 divides 65536):

* `CommitInvariant`: `CommitInv`, of the commitments as they are and as they were saved, is inductive. `OneSignaturePerCommitment` alone is not: a
  bit that stayed set after its signature would let a second one through. `ArrayIsExact` adds that
  a set bit stands for exactly one young commitment without a signature and that every signature used a commitment made
  before; a Resume needs the same of what TPM2_Shutdown saved (`SavedIsExact`). The arithmetic (`DivMod` to `YoungBitsDiffer`) shows that two young commitments have
  different bits and that the rebuilt counter is the one that was truncated.
* `OneSignature`, `ExactArray`, `ExactCounts` follow from it.

**`Tpm_proofs`**, about `Sessions`, from `SessionsAssumption`, for any number of sessions, nonces and extends:

* `SessionsInvariant`: `SessionsInv` is inductive. The history alone says nothing of a
  session that is about to be used; `DigestIsProof` says what each digest proves of its session, in particular
  what is left after PolicyAuthorize: *authorized* and not bound to TPM2_Commit means that the wallet consented
  and that the PCRs were checked. That needs the PCR counter to be positive
  (`PcrCounterPositive`) and nonces to be new (`ConsumedNoncesAreOld`).
* `Consented`, `ApprovedState`, `AuthorizesOnce`, `ProvenDigest` follow from it.
* `KeepsPromise`: `SessionsSpec => AttestationSpec`, step by step under the refinement mapping, with
  the bound of the nonces (`NoncesAreBounded`).

**`Join_proofs`**, from `JoinAssumption`, for any number of clients, credential keys and messages:

* `JoinInvariant`: `JoinInv` is inductive. That each key is drawn anew is of no use before it is known that every key in
  use was drawn (`KeysWereDrawn`); that a client decrypts only its own credential rests on `LearnedIsOwn`: what
  a TPM took out of a challenge, or kept in memory from an earlier one, encrypts no credential of another client.
* `EncryptsOnce` and the types (`JoinTypes`) follow from it.
* `JoinKeepsPromise`: `Spec => CredentialsSpec`, step by step under the refinement mapping.

**`Startup_proofs`**, about `Objects`, from `ObjectsAssumption`, for any number of slots, handles and contexts:

* `ObjectsInvariant`: `ObjectsInv` is inductive. `ClearedObjectsAreGone` says nothing of contexts that are refused now and might be accepted
  later, nor of persistent objects in a hierarchy that is disabled: `ContextFits` says of each context what its proof and counts tell of the birth of
  its object, `PersistentFits` that a persistent object is marked and that its handle tells its hierarchy, and `SavedIsCurrent` that what a startup reads back is true.
* `DisabledIsEmpty`, `ClearedAreGone`, `ObjectsEnd` follow from it.

**`Nv_proofs`**, from `NvAssumption`, for any set of handles and templates and any bound on counts:

* `NvInvariant`: `NvInv` is inductive. It is `IndexInv` for each handle: room in RAM and in its image (`HasRoom`), attributes that are those of the definition (`IsAsDefined`), an image that is true while
  the note of a shutdown stands (`RamIsSaved`), counts, locks and data that are kept in whatever survives a loss of power (`CountIsKept`, `LocksAreKept`, `DataIsLatest`). That a counter never goes back
  needs to be known of the image in NV with its low bits set, which is where the next startup begins, and of the saved maximum where no counter is.
* `OrderlyRamExact`, `CountersKept`, `DataNotStale`, `LocksAreHeld` follow from it.

**`Contexts_proofs`**, from `ContextsAssumption` (the counter ends with a whole turn of the entries, and at least two
values of an entry are numbers), for any number of sessions and slots:

* `ContextsInvariant`: `ContextsInv` is inductive. `NumbersFit` says that a context is at most a turn old, so that its low bits (`LowBits` and the lemmas that follow) tell it from every
  other one, in spite of the values that the counter skips because they are slots; `OldestFound` that the search of `ContextIdSetOldest` finds the oldest although the bits wrapped. The same is known of the array that
  a shutdown saved, with the numbers that a Resume or a Restart makes of it (`Restored`). All but types and slots ends with the last number of the counter.
* `OnlyLiveLoad`, `LiveStayValid`, `ExactContextArray`, `GapRelieved` follow from it.

**`Authorizations_proofs`**, about `Policies`, from `PoliciesAssumption`, for any commands, names, parameters and localities:

* `PoliciesInvariant`: `PoliciesInv` is inductive. For each kind of assertion it says what the notes tell of the arguments of all assertions of that kind (`CodeNoted` to `NvNoted`). `HashNoted` is
  the one that has to be read together: four kinds share the field u1, two of them have a flag of their own, and a PolicySigned may bring any hash for a cpHash.
* `ExactPolicy` follows from it.

**`Authorizations_proofs`**, about `Tickets`, from `TicketsAssumption`, for any length of a second, any expirations and any number of tickets, power periods and Resets:

* `TicketsInvariant`: `TicketsInv` is inductive. `EpochTells` says that the epoch of a session or of a ticket is the present one exactly if its deadline is of this power period, and `DeadlineFits`
  and `TicketFits` between which times a timeout stands for a deadline, which the rounding to seconds leaves open. What a ticket gives to a session then fits by itself. That a session outlives
  no Reset needs `DownSession`: while the TPM is down, what is saved has a shutdown behind it.
* `AuthorizationEnds` and `AuthorizationLasts` follow from it.

**`Authorizations_proofs`**, about `Lockout`, from `LockoutAssumption`, for any length of the healing, interval of the clock, limit of failures and number of ticks and startups (`TimeRange` only has to be larger than the time that is counted):

* `LockoutInvariant`: `LockoutInv` and `PaymentInv` are inductive. `LockoutInv` says that the clock in NV is of the interval of the one in RAM and that all reports are of this interval or earlier ones (`ClockFits`), how far the timer of the failures
  can be from the time, so that the unsigned difference wraps at a startup after a shutdown only (`TimersBounded`), and that after each update of the time nothing is left to heal (`TimerHealed`). `PaymentInv` says how the failures that are forgiven
  (`Owed`) are paid for: as the TPM is up (`PaidFor`; a failure that NV does not know of is the one that a startup without shutdown adds), as a shutdown is noted (`PaidAtShutdown`: the timer in NV is the one in RAM, or an older one that counts again
  what was spent since, which is why a shutdown may give back less than one `RecoveryTime`), and as it is down (`PaidDown`).
* `SafeClock`, `LockoutEnding` follow from the first, `FailuresPaid` from both.

**`Startup_proofs`**, about `Pcrs`, from `PcrsAssumption`, for any PCRs, number of measurements and startups and any bound on the counter:

* `PcrsInvariant`: `PcrsInv` is inductive. That a check of a session is stale once a PCR has changed rests on `ChecksFit`: no check has a count that is still to come, neither in RAM nor in what a shutdown saved. The PCR of the launch is never saved, so every Resume
  counts it as changed. `MeasurementsFit` says of each PCR, and of each saved one while the note stands, that its value is where it started and what was extended since; `StartsFit` and `LaunchIsFirst` what a start value tells.
* `CurrentChecks`, `MeasurementsKept`, `StartValuesTrue` follow from it.

**`Authorizations_proofs`**, about `Daa`, from `DaaAssumption` (the order is a prime between one byte and two, and no key has a credential at infinity), for any such order and base, any keys, hashes, texts and memory that nobody wrote:

* `DaaInvariance`: `DaaInv` is inductive. `StageFits` says which stage has a key and a verdict, `CredentialFits` that a credential, randomized or not, is one of the key it was made for (`IsCredential`), `StringFits` that the string that was hashed is
  that of the text and of the commitment, `SignatureFits` that the share which TPM and host have made answers the hash of that string; each of them as long as no leading zero is lost.
* `SignaturesAreExact` and the types (`DaaTypes`) follow from it. What has to be shown for it is that the verifier's equations have no other solution. With the credential they leave one issuer (`CredentialTellsIssuer`), and with the signature one key
  (`EPrimeTellsKey`, `VerifierTellsKey`): a difference of two candidates, times a number that is not 0, would be a multiple of the order. That this makes the difference 0 (`NoZeroDivisors`, `Cancel`)
  is where the order has to be a prime; it is proved from the definition of a prime, by well-founded induction over the least counterexample. The other lemmas are about bytes: `PaddedFits`, `CopyFits` and `IntoFits` say when a number comes back out of the buffer it was written to.

**`Bridge_proofs`**, from `BridgeAssumption` and those of `Tpm`, `Sessions` and `CommitCounter`, for any number of slots, sessions, nonces, commitments and resets, with and without `Leftovers`:

* `BridgeInvariant`: `BridgeInv` is inductive over the actions of all calls. Its parts are one for each question: what the globals and locals may hold (`MemoryFits`), how far a setup has come and what it leaves
  (`SetupFits`), which slots hold keys of others (`PublicKeysFit`), for which nonces the wallet was asked (`ConsentFits`), whose commitment a call works with (`CommitmentFits`), and what a proper call finds at each of its commands (`ProperFits`).
* `BridgeUsesSessions` and `BridgeUsesCommitments`: every step of the bridge and its TPM is one of `SessionsSpec` and one of `CommitSpec`, or none. So all that is proved of those holds behind the bridge, and
  `BridgeKeepsPromise` says so of `AttestationSpec`.
* `SetupHeals`, `PublicKeysGo`, `CallersConsent`, `ProperSuccess` follow from the invariant. `OwnCommitment` needs that of the commitments as well: that no signature was answered before is `OneSignaturePerCommitment`
  of the TPM, and which commitment it answers, with a blind signature or without one, is `AnswersOwn` of the bridge.

**`Simulator_proofs`**, from `SimulatorAssumption`, for any number of processes, setups and commands, with and without `Reopens`, and without any fairness:

* `SimulatorInvariant`: `SimulatorInv` is inductive. `ThreadsFit` says that no port is open and no platform thread runs before the TPM is started, `NvFits` that the NV in memory is the file while the file is open, which it is exactly
  with power on, and that the thread which manufactures found a file that was not manufactured. `ReadyFits` follows a setup that was ready through its power cycle: which state each message leaves for the next. That no other answer comes in between needs
  `CallerFits`: at most one message is on its way, the one that the caller waits for, on the connection that it holds. And this needs a connection to be left for whoever connects, so that each is a new one:
  `RoomFits` counts that a setup makes two at most.
* `ReadySucceeds` follows from it, and `NvKept`, the action property `NvIsNeverLost`: the only step that empties the file is a manufacture that fails.
* `LinesInvariant`: on top of that, `LinesInv` is inductive. A connection stands in one line at one place, waiting or served (`LineFits`, `LinesApart`; `AppendQueues` and `TailQueues` are the lemmas about the queues); what the caller is connected to stands there and is not
  ended, and all else there is ended, until a setup drops a connection; the thread of an open port serves just while it has a connection.
* `CallsAreNotBlocked` follows from it: `NothingBlocksCall`, the safe part of the liveness that only TLC checks. While a call waits, its service has a step that it can take (close an ended connection, accept the next one, or read the
  message), so no number of setups makes the two threads and the caller wait in a circle.
* `CallsGetTheirTurn` says that these steps come to an end: `Ahead`, what the service has to close and to accept before it reads the message of the call that waits, gets less with each step of that service and changes with no other
  step. With these two, what `HangsOnlyBehindLeak` adds for such a call is the fairness of the threads.

Only model-checked: what is live of `Simulator`. `PartsTypeOK` is a conjunction over a joint that exists for TLC only; the type invariant of each part is in the inductive invariant of that part.

Out of the prover's reach and left to TLC: liveness and ENABLED (`CallReturns`, `HangsOnlyBehindLeak`), induction over
data, and RECURSIVE operators (the modules have none).

## 5. Not modelled

* Most of the lines under `T` are the TPM reference code's tables (`CommandDispatchData.h`, `TpmTypes.h`), formatting and parsing (`Marshal.c`, `Unmarshal.c`), and
  cryptography (hashes, RSA, symmetric ciphers, big numbers, the random generator); those under `C` the conversions of `cryptoutils.c` and the tables of templates. They keep no state, and no property here would
  be about them; a model of them would be a transliteration. So what is modelled is a small share of the lines.
* The arithmetic of curve and pairing and AES; basenames, which the bridge never uses.
* `policy.c`: a fixed sequence of hashes for each policy, taken to agree with the TPM's.
* JSON, base64, key files, logging; the commands of `bridge_tpm.c` that no call sends (create, load, policyOR, ...).
* TPM: HMAC and audit sessions and the audit of commands; PolicyOR, PolicyNV, PolicyCounterTimer and PolicyAuthorizeNV, which are checked at once; PIN indices and the space in NV; several banks of
  PCRs, their authPolicy and their reading; duplication and attributes of keys; the ACT; `INT32_MIN` as an expiration, whose negation is undefined (`T/Policy_spt.c:213`).
* Two JNI calls at once, and a second `initiateTPM` in one process: two threads would start a TPM in the same globals.
* IPv6, socket errors, the ACT timer's thread, an NV file that is written in part; `NvFileCommit`, which
  reports success when the file is not open (`T/NVMem.c:136`).

## 6. What is left

In this order:

1. *Audit*: command and session audit with what a startup leaves of them.
2. *Policy digests* of `policy.c` as terms, against those that the commands extend; it would discharge one assumption of `Sessions`.
3. *Composition*: the commands of `Bridge` over the connections of `Simulator`; a second `initiateTPM`.
