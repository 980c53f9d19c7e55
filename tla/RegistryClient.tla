----------------------------- MODULE RegistryClient -----------------------------
(***************************************************************************)
(* The client every command talks to registries with:                      *)
(*   SimpleRegistry              pkg/imgpkg/registry/registry.go           *)
(*   Multi-, SingleTripperStorage  pkg/imgpkg/registry/transport.go        *)
(*   WithProgress                pkg/imgpkg/registry/with_progress.go      *)
(*   the progress loggers        pkg/imgpkg/internal/util                  *)
(*   mountableImage, imageBlobsCanBeMounted  pkg/imgpkg/imageset           *)
(*                                                                         *)
(* Goroutines run scripts of operations.  Each operation first obtains a   *)
(* round tripper: one that was negotiated before for the repository and    *)
(* the scope, or a new one, which takes a conversation with the registry.  *)
(* The registry and the library that talks to it are external: a request   *)
(* answers or fails, and is refused when the credentials of its round      *)
(* tripper may not read the repository.                                    *)
(***************************************************************************)
EXTENDS Naturals, Sequences, FiniteSets

CONSTANTS Task,        \* goroutines
          Script,      \* Script[t]: the operations of t, in order
          After,       \* After[t]: the goroutines t is started after
          Repo,        \* repositories
          Malformed,   \* names that carry a protocol, which validateRef refuses
          RegistryOf,  \* the registry of a repository
          Auth,        \* authenticators
          Anonymous,   \* the authenticator without credentials
          PathOf,      \* the path of a repository in its registry, a string
          EnvEntry,    \* the credentials that the environment has
          EnvHost,     \* EnvHost[e]: the host of the URL of e, a string
          EnvPath,     \* EnvPath[e]: the path of that URL, a string
          EnvAuth,     \* EnvAuth[e]: the authenticator they make
          HostMatches, \* the registries that a host, which may have wildcards, matches
          Iaas,        \* the active IaaS keychains, each the authenticators it has
          FlagAuth,    \* the credentials of the command line, or "none"
          DockerAuth,  \* what the docker configuration has
          Tries,       \* how often it is asked, 5 in the code
          Reads,       \* Reads[a]: the repositories a may read
          MaxUpdates,  \* bound on the updates of one upload
          MaxFaults    \* bound on conversations and lookups that fail

\* get stands for Get, Image, Index and ListTags, which differ in what they ask for.
ReadKinds  == {"get", "digest", "first", "mountable"}
WriteKinds == {"write", "multiwrite"}
\* client: whose method is called; basic is a registry without a keychain, logged one
\* inside WithProgress. repos: the repositories of the references, dest: where a
\* mountable image goes.
Operation == [kind : ReadKinds \cup WriteKinds, client : {"main", "quiet", "basic"},
              logged : BOOLEAN, repos : Seq(Repo), dest : Repo]

ASSUME ScriptAssumption ==
    /\ IsFiniteSet(Task) /\ Script \in [Task -> Seq(Operation)] /\ After \in [Task -> SUBSET Task]
    /\ \A t \in Task : \A i \in DOMAIN Script[t] : Script[t][i].repos # << >>
    \* Import uploads all images of a copy to one repository.
    /\ \A t \in Task : \A i \in DOMAIN Script[t] :
          Script[t][i].kind = "multiwrite" =>
              \A x, y \in DOMAIN Script[t][i].repos : Script[t][i].repos[x] = Script[t][i].repos[y]
ScopeFor(o) == IF o.kind \in WriteKinds THEN "push" ELSE "pull"
\* What CloneWithLogger makes shares the round trippers but not the mutex. It writes the
\* locations of the images, after all that wrote to their repository is over.
ASSUME ScheduleAssumption ==
    /\ Task \cap {"main", "quiet", "basic", "noop", "shared", "free"} = {}
    /\ \A t, u \in Task : \A i \in DOMAIN Script[t], j \in DOMAIN Script[u] :
         LET o == Script[t][i]  q == Script[u][j] IN
         /\ o.client = "main" /\ q.client = "quiet" /\ ScopeFor(o) = ScopeFor(q)
         /\ \E x \in DOMAIN o.repos, y \in DOMAIN q.repos : o.repos[x] = q.repos[y]
         => t = u \/ t \in After[u] \/ u \in After[t]
\* A string is the sequence of the codes of its characters.
String == Seq(Nat)
ASSUME NamesAssumption ==
    /\ Malformed \subseteq Repo /\ DOMAIN RegistryOf = Repo /\ PathOf \in [Repo -> String]
    /\ Reads \in [Auth -> SUBSET Repo]
    /\ MaxUpdates \in Nat /\ MaxFaults \in Nat
ASSUME CredentialsAssumption ==
    /\ Anonymous \in Auth /\ IsFiniteSet(EnvEntry)
    /\ EnvHost \in [EnvEntry -> String] /\ EnvPath \in [EnvEntry -> String]
    /\ EnvAuth \in [EnvEntry -> Auth \ {Anonymous}]
    /\ \A e \in EnvEntry : HostMatches[EnvHost[e]] \subseteq {RegistryOf[r] : r \in Repo}
    /\ Iaas \in Seq([Repo -> Auth])
    /\ FlagAuth \in Auth \cup {"none"} /\ DockerAuth \in [Repo -> Auth] /\ Tries \in Nat \ {0}

\* The SimpleRegistry values: the command's, the one CloneWithLogger makes of it, one
\* without a keychain, and the one CloneWithSingleAuth makes for each goroutine.
Client  == {"main", "quiet", "basic"} \cup Task
\* The storages: CloneWithLogger shares that of its registry.
Storage == {"shared", "noop"} \cup Task
Scope   == {"pull", "push"}

Tripper == [auth : Auth, repo : Repo, scope : Scope]
NoTripper == [auth |-> "none"]     \* Go's nil
Base      == [auth |-> "base"]     \* the transport every round tripper is built on
NoClone   == [auth |-> "none", base |-> Base, transport |-> NoTripper]
Free      == "free"

VARIABLES pc,              \* where the goroutine is
          at,              \* the operation it is at
          cand,            \* the reference of it that it is at
          verb,            \* the request it is about to make
          user,            \* the registry value that makes it
          rt,              \* the round tripper of that request
          failed,          \* an operation of it failed, or one it was waiting for
          transportAccess, \* who holds the mutex of a registry value
          readWriteAccess, \* who holds the mutex of a storage
          transports,      \* transports[r][m]: what the shared storage has saved
          single,          \* single[t]: keychain, base and round tripper of the clone of t
          authn,           \* authn[c][r]: the authenticators c has resolved
          reader,          \* the goroutine of the progress logger
          channel,         \* the channel it reads
          sent,            \* the updates sent on it
          negotiated,      \* observer: how often the shared storage saved a round tripper
          tries,           \* how often the docker keychain failed for the current request
          faults

taskVars     == <<pc, at, cand, verb, user, rt, failed>>
lockVars     == <<transportAccess, readWriteAccess>>
storeVars    == <<transports, single, authn, negotiated>>
progressVars == <<reader, channel, sent>>
vars == <<taskVars, lockVars, storeVars, progressVars, faults, tries>>

Op(t)    == Script[t][at[t]]
Target(t) == Op(t).repos[cand[t]]
IsWrite(t) == Op(t).kind \in WriteKinds
ScopeOf(t) == ScopeFor(Op(t))

StorageOf(c) == CASE c \in {"main", "quiet"} -> "shared" [] c = "basic" -> "noop" [] OTHER -> c

\* RoundTripper: a pull may go over what a push negotiated, not the other way round.
\* Mutant: it may.
EitherScope(c, r, m) ==
    IF c \in Task THEN single[c].transport
    ELSE IF \E k \in Scope : transports[r][k] # NoTripper
         THEN transports[r][CHOOSE k \in Scope : transports[r][k] # NoTripper] ELSE NoTripper
RoundTripper(c, r, m) ==
    IF c \in Task THEN single[c].transport
    ELSE IF c = "basic" THEN NoTripper
    ELSE IF transports[r][m] = NoTripper /\ m = "pull" THEN transports[r]["push"]
    ELSE transports[r][m]

\* orderedEnvKeychainInfos.Less: Go orders strings by the first character they differ in,
\* and a prefix before what it begins.
Less(s, t) ==
    \E n \in 1..Len(t) : /\ n > Len(s) \/ s[n] < t[n]
                         /\ \A i \in 1..(n - 1) : i <= Len(s) /\ s[i] = t[i]
UrlOf(e) == EnvHost[e] \o EnvPath[e]

\* EnvKeychain.collect sorts in reverse, once for the process. Two entries with one URL
\* stay in whatever order that left them: Resolve's CHOOSE.
\* Mutant: it does not reverse.
NotReversed(e, f) == Less(UrlOf(e), UrlOf(f))
ComesBefore(e, f) == Less(UrlOf(f), UrlOf(e))

\* URLsMatch: the path of the credentials is a prefix, and not only at a slash.
Matches(e, r) ==
    /\ RegistryOf[r] \in HostMatches[EnvHost[e]]
    /\ Len(EnvPath[e]) <= Len(PathOf[r])
    /\ \A i \in 1..Len(EnvPath[e]) : EnvPath[e][i] = PathOf[r][i]

\* EnvKeychain.Resolve: the first that matches. What cannot be collected or parsed is an
\* error of the keychain, TransportFails and ClonePanics.
EnvResolve ==
    [r \in Repo |->
        LET found == {e \in EnvEntry : Matches(e, r)}
        IN  IF found = {} THEN Anonymous
            ELSE EnvAuth[CHOOSE e \in found : \A f \in found : ~ComesBefore(f, e)]]

\* CustomRegistryKeychain.Resolve
CustomResolve(r) == IF FlagAuth # "none" THEN FlagAuth ELSE DockerAuth[r]

\* Keychain: the environment, the IaaS keychains, the flags or the docker configuration.
Answers(r) == <<EnvResolve[r]>> \o [i \in DOMAIN Iaas |-> Iaas[i][r]] \o <<CustomResolve(r)>>
FirstOf(S) == CHOOSE i \in S : \A j \in S : i <= j
AuthOf(r) ==
    LET known == {i \in DOMAIN Answers(r) : Answers(r)[i] # Anonymous}
    IN  IF known = {} THEN Anonymous ELSE Answers(r)[FirstOf(known)]

\* The keychain gets as far as the docker configuration.
AsksDocker(c, r) ==
    /\ c \in {"main", "quiet"} /\ FlagAuth = "none"
    /\ \A i \in 1..(Len(Iaas) + 1) : Answers(r)[i] = Anonymous

\* SingleAuthKeychain has one answer.
Resolve(c, r) == IF c \in Task THEN single[c].auth ELSE AuthOf(r)

\* A round tripper that another is built on is used as it is: the library negotiates
\* only over a transport that is not the result of a negotiation.
Negotiated(c, r, m) ==
    IF c \in Task /\ single[c].base # Base THEN single[c].base
    ELSE [auth |-> authn[c][r], repo |-> r, scope |-> m]

\* The mutex of transport.
\* Mutant: there is none.
AlwaysFree(c) == TRUE
TransportFree(c) == transportAccess[c] = Free

\* transport's deferred Unlock, on the path of an error.
\* Mutant: it is not deferred.
KeptOnError(c) == transportAccess
Unlocked(c) == [transportAccess EXCEPT ![c] = Free]

\* FirstImageExists has another digest to ask for.
\* Mutant: one too many.
OneTooMany(t) == cand[t] <= Len(Op(t).repos)
MoreCandidates(t) == cand[t] < Len(Op(t).repos)

Running == \A t \in Task : pc[t] # "panic"
Ended(t) == pc[t] = "done"
--------------------------------------------------------------------------------
Init ==
    /\ pc = [t \in Task |-> "idle"] /\ at = [t \in Task |-> 1] /\ cand = [t \in Task |-> 1]
    /\ verb = [t \in Task |-> "read"] /\ user = [t \in Task |-> "main"]
    /\ rt = [t \in Task |-> NoTripper] /\ failed = [t \in Task |-> FALSE]
    /\ transportAccess = [c \in Client |-> Free] /\ readWriteAccess = [s \in Storage |-> Free]
    /\ transports = [r \in Repo |-> [m \in Scope |-> NoTripper]]
    /\ single = [t \in Task |-> NoClone]
    /\ authn = [c \in Client |-> [r \in Repo |-> "none"]]
    /\ reader = [t \in Task |-> "none"] /\ channel = [t \in Task |-> "none"]
    /\ sent = [t \in Task |-> 0]
    /\ negotiated = [r \in Repo |-> [m \in Scope |-> 0]]
    /\ tries = [t \in Task |-> 0] /\ faults = 0

Goto(t, l) == pc' = [pc EXCEPT ![t] = l]
Fault == faults < MaxFaults /\ faults' = faults + 1

\* The operation answers. A reference that does not exist is not the end of
\* FirstImageExists, and an image that cannot be mounted is uploaded.
Answer(t, ok) ==
    LET next == Op(t).kind = "first" /\ ~ok /\ MoreCandidates(t)
        fine == ok \/ Op(t).kind = "mountable"
    IN  /\ cand' = [cand EXCEPT ![t] = IF next THEN @ + 1 ELSE @]
        /\ failed' = [failed EXCEPT ![t] = @ \/ ~(fine \/ next)]
        /\ verb' = [verb EXCEPT ![t] = IF next THEN "head" ELSE @]
        /\ Goto(t, IF next THEN "validate" ELSE "return")
        /\ rt' = [rt EXCEPT ![t] = NoTripper]

\* WithProgress.MultiWrite, WriteImage: the logger is started before anything else.
Begin(t) ==
    /\ pc[t] = "idle" /\ at[t] <= Len(Script[t]) /\ \A u \in After[t] : Ended(u)
    /\ ~failed[t] /\ \A u \in After[t] : ~failed[u]
    /\ LET logged == Op(t).logged /\ IsWrite(t) IN
        /\ reader' = [reader EXCEPT ![t] = IF logged THEN "reading" ELSE "none"]
        /\ channel' = [channel EXCEPT ![t] = IF logged THEN "open" ELSE "none"]
    /\ sent' = [sent EXCEPT ![t] = 0]
    /\ cand' = [cand EXCEPT ![t] = 1]
    /\ user' = [user EXCEPT ![t] = Op(t).client]
    /\ verb' = [verb EXCEPT ![t] = CASE IsWrite(t) -> "write"
                                     [] Op(t).kind = "get" -> "read" [] OTHER -> "head"]
    /\ Goto(t, IF Op(t).kind = "mountable" THEN "compare" ELSE "validate")
    /\ tries' = [tries EXCEPT ![t] = 0]
    /\ UNCHANGED <<at, rt, failed, lockVars, storeVars, faults>>

\* The goroutine is at its end, or is never started because one before it failed.
Finish(t) ==
    /\ pc[t] = "idle"
    /\ \/ at[t] > Len(Script[t]) \/ failed[t]
       \/ \E u \in After[t] : Ended(u) /\ failed[u]
    /\ failed' = [failed EXCEPT ![t] = at[t] <= Len(Script[t])]
    /\ Goto(t, "done")
    /\ UNCHANGED <<at, cand, verb, user, rt, lockVars, storeVars, progressVars, faults, tries>>

\* imageBlobsCanBeMounted: only within a registry.
Compare(t) ==
    /\ pc[t] = "compare"
    /\ Goto(t, IF RegistryOf[Target(t)] = RegistryOf[Op(t).dest] THEN "clone" ELSE "return")
    /\ UNCHANGED <<at, cand, verb, user, rt, failed, lockVars, storeVars, progressVars, faults, tries>>

\* validateRef, of every reference when there are several to write at once. A refused one
\* is an answer like any other: FirstImageExists goes on, and nothing is mounted.
Validate(t) ==
    LET names == IF Op(t).kind = "multiwrite" THEN {Op(t).repos[i] : i \in DOMAIN Op(t).repos}
                 ELSE {Target(t)}
    IN  /\ pc[t] = "validate"
        /\ \/ names \cap Malformed # {} /\ Answer(t, FALSE)
           \/ names \cap Malformed = {} /\ Goto(t, "lock") /\ UNCHANGED <<cand, verb, rt, failed>>
        /\ UNCHANGED <<at, user, lockVars, storeVars, progressVars, faults, tries>>

\* CloneWithSingleAuth, from imageBlobsCanBeMounted: a keychain with the authenticator of
\* the destination, and a round tripper built on the destination's.
Clone(t) ==
    LET found == RoundTripper(user[t], Op(t).dest, "pull") IN
    /\ pc[t] = "clone" /\ user[t] # "basic" /\ readWriteAccess[StorageOf(user[t])] = Free
    /\ single' = [single EXCEPT ![t] = [auth |-> AuthOf(Op(t).dest),
                                        base |-> IF found = NoTripper THEN Base ELSE found,
                                        transport |-> NoTripper]]
    /\ authn' = [authn EXCEPT ![t] = [r \in Repo |-> "none"]]
    /\ user' = [user EXCEPT ![t] = t]
    /\ Goto(t, "validate")
    /\ UNCHANGED <<at, cand, verb, rt, failed, lockVars, transports, negotiated, progressVars, faults, tries>>

\* A registry without a keychain is cloned into another one.
CloneBasic(t) ==
    /\ pc[t] = "clone" /\ user[t] = "basic"
    /\ Goto(t, "validate")
    /\ UNCHANGED <<at, cand, verb, user, rt, failed, lockVars, storeVars, progressVars, faults, tries>>

\* imageBlobsCanBeMounted panics when the keychain fails.
ClonePanics(t) ==
    /\ pc[t] = "clone" /\ user[t] # "basic" /\ Fault
    /\ Goto(t, "panic")
    /\ UNCHANGED <<at, cand, verb, user, rt, failed, lockVars, storeVars, progressVars, tries>>
--------------------------------------------------------------------------------
(* transport, with the mutex of the registry value from Lock to Pair. *)

Lock(t) ==
    /\ pc[t] = "lock" /\ TransportFree(user[t])
    /\ transportAccess' = [transportAccess EXCEPT ![user[t]] = t]
    \* MultiWrite takes the options of one of its references, in the order of a map.
    /\ \E i \in DOMAIN Op(t).repos :
        /\ Op(t).kind # "multiwrite" => i = cand[t]
        /\ cand' = [cand EXCEPT ![t] = i]
    /\ Goto(t, "lookup")
    /\ tries' = [tries EXCEPT ![t] = 0]
    /\ UNCHANGED <<at, verb, user, rt, failed, readWriteAccess, storeVars, progressVars, faults>>

Lookup(t) ==
    LET found == RoundTripper(user[t], Target(t), ScopeOf(t)) IN
    /\ pc[t] = "lookup" /\ readWriteAccess[StorageOf(user[t])] = Free
    /\ rt' = [rt EXCEPT ![t] = found]
    /\ Goto(t, IF found = NoTripper THEN "resolve" ELSE "pair")
    /\ UNCHANGED <<at, cand, verb, user, failed, lockVars, storeVars, progressVars, faults, tries>>

\* Without a keychain there is nothing to negotiate with.
NoKeychain(t) ==
    /\ pc[t] = "resolve" /\ user[t] = "basic"
    /\ transportAccess' = [transportAccess EXCEPT ![user[t]] = Free]
    /\ Goto(t, "request")
    /\ UNCHANGED <<at, cand, verb, user, rt, failed, readWriteAccess, storeVars, progressVars, faults, tries>>

\* What CreateRoundTripper locks is held while the registry is asked for a token.
ResolveAuth(t) ==
    /\ pc[t] = "resolve" /\ user[t] # "basic"
    /\ readWriteAccess[StorageOf(user[t])] = Free
    /\ authn' = [authn EXCEPT ![user[t]][Target(t)] = Resolve(user[t], Target(t))]
    /\ readWriteAccess' = [readWriteAccess EXCEPT ![StorageOf(user[t])] = t]
    /\ Goto(t, "create")
    /\ UNCHANGED <<at, cand, verb, user, rt, failed, transportAccess, transports, single, negotiated,
                   progressVars, faults, tries>>

CreateRoundTripper(t) ==
    LET c == user[t]  r == Target(t)  m == ScopeOf(t)  tripper == Negotiated(c, r, m) IN
    /\ pc[t] = "create"
    \* SingleTripperStorage has one place, whatever the repository and the scope.
    /\ IF c \in Task
       THEN /\ single' = [single EXCEPT ![c].transport = tripper]
            /\ UNCHANGED <<transports, negotiated>>
       ELSE /\ transports' = [transports EXCEPT ![r][m] = tripper]
            /\ negotiated' = [negotiated EXCEPT ![r][m] = @ + 1]
            /\ UNCHANGED single
    /\ readWriteAccess' = [readWriteAccess EXCEPT ![StorageOf(c)] = Free]
    /\ rt' = [rt EXCEPT ![t] = tripper]
    /\ Goto(t, "pair")
    /\ UNCHANGED <<at, cand, verb, user, failed, transportAccess, authn, progressVars, faults, tries>>

\* The keychain or the conversation with the registry fails; nothing is saved. A round
\* tripper that is only passed on does not fail.
TransportFails(t) ==
    LET c == user[t] IN
    /\ pc[t] \in {"resolve", "create", "pair"} /\ c # "basic" /\ Fault
    /\ pc[t] = "create" => ~(c \in Task /\ single[c].base # Base)
    /\ pc[t] = "pair" => authn[c][Target(t)] = "none"
    /\ transportAccess' = Unlocked(c)
    /\ readWriteAccess' = IF pc[t] = "create" THEN [readWriteAccess EXCEPT ![StorageOf(c)] = Free]
                          ELSE readWriteAccess
    /\ Answer(t, FALSE)
    /\ UNCHANGED <<at, user, storeVars, progressVars, tries>>

\* retryDefaultKeychain waits and asks again, with the mutex held.
RetryKeychain(t) ==
    /\ pc[t] \in {"clone", "resolve", "pair"}
    /\ pc[t] = "pair" => authn[user[t]][Target(t)] = "none"
    /\ AsksDocker(user[t], IF pc[t] = "clone" THEN Op(t).dest ELSE Target(t))
    /\ tries[t] + 1 < Tries /\ Fault
    /\ tries' = [tries EXCEPT ![t] = @ + 1]
    /\ UNCHANGED <<taskVars, lockVars, storeVars, progressVars>>

\* The round tripper is paired with an authenticator that c has resolved itself.
Pair(t) ==
    LET c == user[t]  r == Target(t) IN
    /\ pc[t] = "pair"
    /\ authn' = [authn EXCEPT ![c][r] = IF @ = "none" THEN Resolve(c, r) ELSE @]
    /\ transportAccess' = [transportAccess EXCEPT ![c] = Free]
    /\ Goto(t, "request")
    /\ UNCHANGED <<at, cand, verb, user, rt, failed, readWriteAccess, transports, single, negotiated,
                   progressVars, faults, tries>>
--------------------------------------------------------------------------------
(* The requests. *)

\* Whether the registry lets the request through.
Admitted(t) == rt[t] # NoTripper => Target(t) \in Reads[rt[t].auth]

\* What follows a request: Get after a Head that failed, and after the check of a
\* mountable image its description, asked for with the registry that was cloned.
Responds(t, ok) ==
    CASE verb[t] = "head" /\ ~ok ->
            /\ verb' = [verb EXCEPT ![t] = "get"]
            /\ UNCHANGED <<pc, cand, failed, user, rt>>
      [] Op(t).kind = "mountable" /\ ok /\ verb[t] # "read" ->
            /\ verb' = [verb EXCEPT ![t] = "read"]
            /\ user' = [user EXCEPT ![t] = Op(t).client]
            /\ rt' = [rt EXCEPT ![t] = NoTripper]
            /\ Goto(t, "lock")
            /\ UNCHANGED <<cand, failed>>
      [] OTHER -> Answer(t, ok) /\ UNCHANGED user

Read(t) ==
    /\ pc[t] = "request" /\ verb[t] # "write"
    /\ \/ Admitted(t) /\ Responds(t, TRUE) /\ UNCHANGED faults
       \/ ~Admitted(t) /\ Responds(t, FALSE) /\ UNCHANGED faults
       \/ Admitted(t) /\ Fault /\ Responds(t, FALSE)
    /\ UNCHANGED <<at, lockVars, storeVars, progressVars, tries>>

\* An upload reports what it has sent. The channel has no buffer: a report needs the
\* reader.
Send(t) ==
    /\ pc[t] = "request" /\ verb[t] = "write" /\ channel[t] = "open"
    /\ reader[t] = "reading" /\ sent[t] < MaxUpdates
    /\ sent' = [sent EXCEPT ![t] = @ + 1]
    /\ UNCHANGED <<taskVars, lockVars, storeVars, reader, channel, faults, tries>>

\* It ends with closing the channel, and an error with a report of the error before.
Write(t) ==
    /\ pc[t] = "request" /\ verb[t] = "write"
    /\ \/ /\ channel[t] = "open" => sent[t] = MaxUpdates
          /\ Answer(t, TRUE) /\ UNCHANGED faults
       \/ /\ channel[t] = "open" => reader[t] = "reading"
          /\ Fault /\ Answer(t, FALSE)
    /\ channel' = [channel EXCEPT ![t] = IF @ = "open" THEN "closed" ELSE @]
    /\ UNCHANGED <<at, user, lockVars, storeVars, reader, sent, tries>>

\* The deferred End cancels the reader.
Return(t) ==
    /\ pc[t] = "return"
    /\ reader' = [reader EXCEPT ![t] = IF @ = "reading" THEN "cancelled" ELSE @]
    /\ at' = [at EXCEPT ![t] = @ + 1]
    /\ Goto(t, "idle")
    /\ UNCHANGED <<cand, verb, user, rt, failed, lockVars, storeVars, channel, sent, faults, tries>>

\* A reader sees that it is cancelled, or, when it draws a bar, an update without a
\* total, which is what a closed channel yields.
ReaderEnds(t) ==
    /\ reader[t] = "cancelled" \/ (reader[t] = "reading" /\ channel[t] = "closed")
    /\ reader' = [reader EXCEPT ![t] = "ended"]
    /\ UNCHANGED <<taskVars, lockVars, storeVars, channel, sent, faults, tries>>

Terminated == (~Running \/ \A t \in Task : Ended(t)) /\ UNCHANGED vars

Step(t) ==
    \/ Begin(t) \/ Finish(t) \/ Compare(t) \/ Validate(t) \/ Clone(t) \/ CloneBasic(t) \/ ClonePanics(t)
    \/ Lock(t) \/ Lookup(t) \/ NoKeychain(t) \/ ResolveAuth(t) \/ CreateRoundTripper(t)
    \/ TransportFails(t) \/ RetryKeychain(t) \/ Pair(t) \/ Read(t) \/ Send(t) \/ Write(t) \/ Return(t)

Next == (Running /\ \E t \in Task : Step(t) \/ ReaderEnds(t)) \/ Terminated

\* The scheduler does not stop while a goroutine can go on. That is enough: the scripts
\* end, so none of them can keep the others waiting for ever.
Fairness == WF_vars(Running /\ \E t \in Task : Step(t) \/ (reader[t] = "cancelled" /\ ReaderEnds(t)))

Spec     == Init /\ [][Next]_vars
FairSpec == Spec /\ Fairness
--------------------------------------------------------------------------------
TypeOK ==
    /\ pc \in [Task -> {"idle", "compare", "validate", "clone", "lock", "lookup", "resolve", "create",
                        "pair", "request", "return", "done", "panic"}]
    /\ at \in [Task -> Nat] /\ cand \in [Task -> Nat]
    /\ \A t \in Task : /\ at[t] \in 1..(Len(Script[t]) + 1)
                       /\ pc[t] \notin {"idle", "done"} => at[t] <= Len(Script[t]) /\ cand[t] \in DOMAIN Op(t).repos
    /\ verb \in [Task -> {"read", "head", "get", "write"}] /\ user \in [Task -> Client]
    /\ rt \in [Task -> Tripper \cup {NoTripper}] /\ failed \in [Task -> BOOLEAN]
    /\ transportAccess \in [Client -> Task \cup {Free}]
    /\ readWriteAccess \in [Storage -> Task \cup {Free}]
    /\ transports \in [Repo -> [Scope -> Tripper \cup {NoTripper}]]
    /\ single \in [Task -> [auth : Auth \cup {"none"}, base : Tripper \cup {Base},
                            transport : Tripper \cup {NoTripper}]]
    /\ authn \in [Client -> [Repo -> Auth \cup {"none"}]]
    /\ reader \in [Task -> {"none", "reading", "cancelled", "ended"}]
    /\ channel \in [Task -> {"none", "open", "closed"}] /\ sent \in [Task -> 0..MaxUpdates]
    /\ negotiated \in [Repo -> [Scope -> Nat]] /\ faults \in 0..MaxFaults
    /\ tries \in [Task -> 0..(Tries - 1)]

\* No other credentials of the same host name the repository more closely. Between hosts,
\* one of which has wildcards, the order of the URLs says nothing about closeness.
IsBest(a, r) ==
    IF \E e \in EnvEntry : Matches(e, r)
    THEN \E e \in EnvEntry :
           /\ Matches(e, r) /\ a = EnvAuth[e]
           /\ \A f \in EnvEntry : EnvHost[f] = EnvHost[e] /\ Matches(f, r) => Len(EnvPath[f]) <= Len(EnvPath[e])
    ELSE a = AuthOf(r)

\* A request goes out with what was negotiated for it: credentials that match its
\* repository, of those with one host the ones with the longest path, and for a write the
\* right to push, to every repository it writes to; the check whether an image can be
\* mounted goes out with nothing but the credentials of the destination.
\* SimpleRegistry.transport, EnvKeychain, image_set.go
RequestsAuthorised ==
    \A t \in Task : pc[t] = "request" /\ user[t] # "basic" =>
        IF user[t] \in Task THEN IsBest(rt[t].auth, Op(t).dest)
        ELSE /\ IsBest(rt[t].auth, Target(t))
             /\ IsWrite(t) => rt[t].scope = "push"
             /\ \A i \in DOMAIN Op(t).repos : rt[t].repo = Op(t).repos[i] \/ Op(t).kind # "multiwrite"

\* "We can only retrieve 1 RoundTripper at a time to ensure that we do not create the same
\* RoundTripper multiple times": what the goroutines of a command do in any order
\* negotiates once for a repository and a scope, failures apart.
NegotiatedOnce == \A r \in Repo, m \in Scope : negotiated[r][m] <= 1

\* Every goroutine comes to its end, whatever failed under a lock, and so does the reader
\* of every progress channel, whether the channel was closed or not.
EveryTaskEnds ==
    \A t \in Task : <>(~Running \/ (Ended(t) /\ reader[t] \notin {"reading", "cancelled"}))
================================================================================
