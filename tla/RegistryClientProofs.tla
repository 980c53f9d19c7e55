--------------------------- MODULE RegistryClientProofs ---------------------------
(***************************************************************************)
(* Safety of the registry client for every set of goroutines and scripts.  *)
(* What a goroutine has found out under the mutex of its registry value is *)
(* still so when it uses it, because the mutex keeps the others out        *)
(* (Others): that is why nothing is negotiated twice, and why the round    *)
(* tripper of a request is one that was negotiated for it.                 *)
(***************************************************************************)
EXTENDS RegistryClient, FiniteSetTheorems, SequenceTheorems, WellFoundedInduction, TLAPS

Inside  == {"lookup", "resolve", "create", "pair"}
Shares  == {"main", "quiet"}
Busy(t) == pc[t] \notin {"idle", "done"}

\* What was negotiated for a repository and a scope.
Proper(r, m) == [auth |-> AuthOf(r), repo |-> r, scope |-> m]

\* A goroutine, what it holds, and what it knows of what it shares.
Where(t) ==
    /\ Busy(t) => user[t] \in {Op(t).client, t} /\ \A u \in After[t] : pc[u] = "done"
    /\ pc[t] \in {"compare", "clone"} => user[t] = Op(t).client /\ Op(t).kind = "mountable"
    /\ Busy(t) /\ user[t] = t =>
         /\ Op(t).kind = "mountable"
         /\ single[t].auth = AuthOf(Op(t).dest)
         /\ single[t].base # Base => single[t].base.auth = AuthOf(Op(t).dest)
         /\ single[t].transport # NoTripper => single[t].transport.auth = AuthOf(Op(t).dest)
    /\ pc[t] \in Inside => transportAccess[user[t]] = t
    /\ pc[t] = "create" =>
         /\ user[t] # "basic"
         /\ authn[user[t]][Target(t)] = Resolve(user[t], Target(t))
    /\ pc[t] \in {"resolve", "create"} /\ user[t] \in Shares =>
         transports[Target(t)][ScopeOf(t)] = NoTripper
    /\ pc[t] \in {"pair", "request"} /\ user[t] # "basic" =>
         /\ rt[t] # NoTripper
         /\ user[t] = t => rt[t].auth = AuthOf(Op(t).dest)
         /\ user[t] # t => \E m \in Scope : /\ rt[t] = Proper(Target(t), m)
                                            /\ IsWrite(t) => m = "push"

\* The storage that all but the clones for mounting share.
Stored ==
    \A r \in Repo, m \in Scope :
        /\ transports[r][m] \in {NoTripper, Proper(r, m)}
        /\ negotiated[r][m] <= 1
        /\ transports[r][m] = NoTripper => negotiated[r][m] = 0

Inv == TypeOK /\ Stored /\ \A t \in Task : Where(t)
--------------------------------------------------------------------------------
\* A set of natural numbers has a first.
LEMMA First ==
    ASSUME NEW S \in SUBSET Nat, S # {}
    PROVE  FirstOf(S) \in S /\ \A j \in S : FirstOf(S) <= j
  <1>1. PICK x \in S : \A y \in S : ~(<<y, x>> \in OpToRel(<, Nat))
    BY WFMin, NatLessThanWellFounded
  <1>2. \A y \in S : <<y, x>> \in OpToRel(<, Nat) <=> y < x
    BY DEF OpToRel
  <1>3. \A y \in S : ~(y < x)
    BY <1>1, <1>2
  <1>4. \A y \in S : x <= y
    <2>1. x \in Nat /\ S \subseteq Nat
      OBVIOUS
    <2>2. TAKE y \in S
    <2>3. QED
      BY <1>3, <2>1
  <1>5. QED
    BY <1>4 DEF FirstOf

\* Go's order of strings is a strict one.
LEMMA LessIrreflexive == \A s \in String : ~Less(s, s)
  BY DEF Less, String

LEMMA LessTransitive ==
    ASSUME NEW s \in String, NEW t \in String, NEW u \in String, Less(s, t), Less(t, u)
    PROVE  Less(s, u)
  <1>1. PICK n \in 1..Len(t) : /\ n > Len(s) \/ s[n] < t[n]
                              /\ \A i \in 1..(n - 1) : i <= Len(s) /\ s[i] = t[i]
    BY DEF Less
  <1>2. PICK m \in 1..Len(u) : /\ m > Len(t) \/ t[m] < u[m]
                              /\ \A i \in 1..(m - 1) : i <= Len(t) /\ t[i] = u[i]
    BY DEF Less
  <1>3. /\ Len(s) \in Nat /\ Len(t) \in Nat /\ Len(u) \in Nat /\ n \in Nat /\ m \in Nat
        /\ \A i \in 1..Len(s) : s[i] \in Nat
        /\ \A i \in 1..Len(t) : t[i] \in Nat
        /\ \A i \in 1..Len(u) : u[i] \in Nat
    BY DEF String
  <1>4. CASE n < m
    <2>1. n \in 1..Len(u) /\ t[n] = u[n]
      BY <1>2, <1>3, <1>4
    <2>2. \A i \in 1..(n - 1) : i <= Len(s) /\ s[i] = u[i]
      BY <1>1, <1>2, <1>3, <1>4
    <2>3. QED
      BY <1>1, <2>1, <2>2 DEF Less
  <1>5. CASE m < n
    <2>1. t[m] < u[m] /\ s[m] = t[m]
      BY <1>1, <1>2, <1>3, <1>5
    <2>2. \A i \in 1..(m - 1) : i <= Len(s) /\ s[i] = u[i]
      BY <1>1, <1>2, <1>3, <1>5
    <2>3. QED
      BY <2>1, <2>2 DEF Less
  <1>6. CASE n = m
    <2>1. n > Len(s) \/ s[n] < u[n]
      <3>1. CASE n > Len(s)
        BY <3>1
      <3>2. CASE n <= Len(s)
        <4>1. s[n] < t[n] /\ t[n] < u[n]
          BY <1>1, <1>2, <1>3, <1>6, <3>2
        <4>2. s[n] \in Nat /\ t[n] \in Nat /\ u[n] \in Nat
          BY <1>1, <1>2, <1>3, <1>6, <3>2
        <4>3. QED
          BY <4>1, <4>2
      <3>3. QED
        BY <1>3, <3>1, <3>2
    <2>2. \A i \in 1..(n - 1) : i <= Len(s) /\ s[i] = u[i]
      BY <1>1, <1>2, <1>3, <1>6
    <2>3. QED
      BY <1>2, <1>6, <2>1, <2>2 DEF Less
  <1>7. QED
    BY <1>3, <1>4, <1>5, <1>6

LEMMA UrlType == \A e \in EnvEntry : UrlOf(e) \in String
  BY CredentialsAssumption DEF UrlOf, String

\* Of some credentials there is one that no other comes before: one that the fewest come
\* before, for whatever comes before another has strictly less before itself.
LEMMA Foremost ==
    ASSUME NEW S \in SUBSET EnvEntry, S # {}
    PROVE  \E e \in S : \A f \in S : ~ComesBefore(f, e)
  <1> DEFINE Before(e) == {f \in S : ComesBefore(f, e)}
             Counts    == {Cardinality(Before(e)) : e \in S}
  <1>1. IsFiniteSet(S)
    BY CredentialsAssumption, FS_Subset
  <1>2. \A e \in S : /\ Before(e) \subseteq S /\ IsFiniteSet(Before(e))
                     /\ Cardinality(Before(e)) \in Nat
    BY <1>1, FS_Subset, FS_CardinalityType
  <1>3. Counts \in SUBSET Nat /\ Counts # {}
    BY <1>2
  <1>4. PICK e \in S : \A f \in S : Cardinality(Before(e)) <= Cardinality(Before(f))
    <2>1. FirstOf(Counts) \in Counts /\ \A j \in Counts : FirstOf(Counts) <= j
      BY <1>3, First
    <2>2. QED
      BY <2>1
  <1>5. ASSUME NEW f \in S, ComesBefore(f, e)
        PROVE  FALSE
    <2>1. Before(f) \subseteq Before(e)
      <3> SUFFICES ASSUME NEW g \in S, ComesBefore(g, f)
                   PROVE  ComesBefore(g, e)
        OBVIOUS
      <3>1. UrlOf(e) \in String /\ UrlOf(f) \in String /\ UrlOf(g) \in String
        BY UrlType
      <3>2. QED
        BY <1>5, <3>1, LessTransitive DEF ComesBefore
    <2>2. f \in Before(e)
      BY <1>5
    <2>3. f \notin Before(f)
      BY UrlType, LessIrreflexive DEF ComesBefore
    <2> HIDE DEF Before
    <2>4. Cardinality(Before(f)) <= Cardinality(Before(e)) /\ Cardinality(Before(f)) # Cardinality(Before(e))
      BY <1>2, <2>1, <2>2, <2>3, FS_Subset
    <2>5. QED
      BY <1>2, <1>4, <2>4
  <1>6. QED
    BY <1>5

\* Of two credentials of one host that match a repository, the one with the longer path
\* comes before the other: both paths begin the repository's, so one begins the other.
LEMMA LongerFirst ==
    ASSUME NEW r \in Repo, NEW e \in EnvEntry, NEW f \in EnvEntry, Matches(e, r), Matches(f, r),
           EnvHost[e] = EnvHost[f], Len(EnvPath[e]) < Len(EnvPath[f])
    PROVE  ComesBefore(f, e)
  <1> DEFINE h == EnvHost[e]  p == EnvPath[e]  q == EnvPath[f]  n == Len(h) + Len(p) + 1
  <1>1. h \in Seq(Nat) /\ p \in Seq(Nat) /\ q \in Seq(Nat) /\ EnvHost[f] = h
    BY CredentialsAssumption DEF String
  <1>2. \A i \in 1..Len(p) : p[i] = q[i]
    BY <1>1 DEF Matches
  <1>3. UrlOf(e) = h \o p /\ UrlOf(f) = h \o q
    BY <1>1 DEF UrlOf
  <1> HIDE DEF h, p, q
  <1>4. Len(p) < Len(q) /\ Len(h) \in Nat /\ Len(p) \in Nat /\ Len(q) \in Nat
    BY <1>1 DEF p, q
  <1>5. /\ Len(h \o p) = Len(h) + Len(p) /\ Len(h \o q) = Len(h) + Len(q)
        /\ \A i \in 1..(Len(h) + Len(p)) : (h \o p)[i] = IF i <= Len(h) THEN h[i] ELSE p[i - Len(h)]
        /\ \A i \in 1..(Len(h) + Len(q)) : (h \o q)[i] = IF i <= Len(h) THEN h[i] ELSE q[i - Len(h)]
    BY <1>1
  <1>6. n \in 1..Len(h \o q) /\ n > Len(h \o p)
    BY <1>4, <1>5
  <1>7. \A i \in 1..(n - 1) : i <= Len(h \o p) /\ (h \o p)[i] = (h \o q)[i]
    <2> SUFFICES ASSUME NEW i \in 1..(n - 1)
                 PROVE  i <= Len(h \o p) /\ (h \o p)[i] = (h \o q)[i]
      OBVIOUS
    <2>1. i \in 1..(Len(h) + Len(p)) /\ i \in 1..(Len(h) + Len(q))
      BY <1>4
    <2>2. i > Len(h) => i - Len(h) \in 1..Len(p)
      BY <1>4, <2>1
    <2>3. QED
      BY <1>2, <1>4, <1>5, <2>1, <2>2
  <1>8. Less(h \o p, h \o q)
    BY <1>6, <1>7 DEF Less
  <1>9. QED
    BY <1>3, <1>8 DEF ComesBefore

\* What the environment answers is the authenticator of credentials that match and that
\* no others that match come before.
LEMMA EnvAnswer ==
    ASSUME NEW r \in Repo, \E e \in EnvEntry : Matches(e, r)
    PROVE  \E e \in EnvEntry : /\ Matches(e, r) /\ EnvResolve[r] = EnvAuth[e]
                               /\ \A f \in EnvEntry : Matches(f, r) => ~ComesBefore(f, e)
  <1> DEFINE found == {e \in EnvEntry : Matches(e, r)}
             x     == CHOOSE e \in found : \A f \in found : ~ComesBefore(f, e)
  <1>1. found # {} /\ found \in SUBSET EnvEntry
    OBVIOUS
  <1>2. EnvResolve[r] = EnvAuth[x]
    BY <1>1 DEF EnvResolve
  <1> HIDE DEF found
  <1>3. \E e \in found : \A f \in found : ~ComesBefore(f, e)
    BY <1>1, Foremost
  <1>4. x \in found /\ \A f \in found : ~ComesBefore(f, x)
    BY <1>3
  <1> HIDE DEF x
  <1>5. QED
    BY <1>2, <1>4 DEF found

\* The keychain answers with an authenticator.
LEMMA AnswersType == \A r \in Repo : Answers(r) \in Seq(Auth) /\ Len(Answers(r)) = Len(Iaas) + 2 /\ Answers(r)[1] = EnvResolve[r]
  <1> SUFFICES ASSUME NEW r \in Repo
               PROVE  Answers(r) \in Seq(Auth) /\ Len(Answers(r)) = Len(Iaas) + 2 /\ Answers(r)[1] = EnvResolve[r]
    OBVIOUS
  <1>1. EnvResolve[r] \in Auth
    <2>1. CASE \E e \in EnvEntry : Matches(e, r)
      BY <2>1, EnvAnswer, CredentialsAssumption
    <2>2. CASE ~\E e \in EnvEntry : Matches(e, r)
      BY <2>2, CredentialsAssumption DEF EnvResolve
    <2>3. QED
      BY <2>1, <2>2
  <1>2. CustomResolve(r) \in Auth
    BY CredentialsAssumption DEF CustomResolve
  <1> DEFINE iaas == [i \in DOMAIN Iaas |-> Iaas[i][r]]
  <1>3. iaas \in Seq(Auth) /\ Len(iaas) = Len(Iaas)
    <2>1. Iaas \in Seq([Repo -> Auth])
      BY CredentialsAssumption
    <2>2. Len(Iaas) \in Nat /\ DOMAIN Iaas = 1..Len(Iaas) /\ \A i \in 1..Len(Iaas) : Iaas[i][r] \in Auth
      BY <2>1
    <2>3. iaas \in [1..Len(Iaas) -> Auth]
      BY <2>2
    <2>4. QED
      BY <2>2, <2>3, SeqDef
  <1> HIDE DEF iaas
  <1>4. Answers(r) = <<EnvResolve[r]>> \o iaas \o <<CustomResolve(r)>>
    BY DEF Answers, iaas
  <1>5. QED
    BY <1>1, <1>2, <1>3, <1>4, CredentialsAssumption

LEMMA AuthOfType == \A r \in Repo : AuthOf(r) \in Auth
  <1> SUFFICES ASSUME NEW r \in Repo PROVE AuthOf(r) \in Auth
    OBVIOUS
  <1> DEFINE known == {i \in DOMAIN Answers(r) : Answers(r)[i] # Anonymous}
  <1>1. CASE known = {}
    BY <1>1, CredentialsAssumption DEF AuthOf
  <1>2. CASE known # {}
    <2>1. known \in SUBSET Nat
      BY AnswersType
    <2>2. FirstOf(known) \in known
      BY <1>2, <2>1, First
    <2>3. QED
      BY <1>2, <2>2, AnswersType DEF AuthOf
  <1>3. QED
    BY <1>1, <1>2

\* The answer is the best: of the credentials with the same host as those that are chosen,
\* one with a longer path would have come before them.
LEMMA AuthOfIsBest == \A r \in Repo : IsBest(AuthOf(r), r)
  <1> SUFFICES ASSUME NEW r \in Repo PROVE IsBest(AuthOf(r), r)
    OBVIOUS
  <1>1. CASE \E e \in EnvEntry : Matches(e, r)
    <2> DEFINE known == {i \in DOMAIN Answers(r) : Answers(r)[i] # Anonymous}
    <2>1. PICK e \in EnvEntry : /\ Matches(e, r) /\ EnvResolve[r] = EnvAuth[e]
                               /\ \A f \in EnvEntry : Matches(f, r) => ~ComesBefore(f, e)
      BY <1>1, EnvAnswer
    <2>2. ASSUME NEW f \in EnvEntry, EnvHost[f] = EnvHost[e], Matches(f, r)
          PROVE  Len(EnvPath[f]) <= Len(EnvPath[e])
      <3>1. ~(Len(EnvPath[e]) < Len(EnvPath[f]))
        BY <2>1, <2>2, LongerFirst
      <3>2. Len(EnvPath[f]) \in Nat /\ Len(EnvPath[e]) \in Nat
        BY CredentialsAssumption DEF String
      <3>3. QED
        BY <3>1, <3>2
    <2>3. EnvResolve[r] # Anonymous
      BY <2>1, CredentialsAssumption
    <2>4. 1 \in known /\ known \in SUBSET Nat
      BY <2>3, AnswersType, CredentialsAssumption
    <2>5. FirstOf(known) \in known /\ FirstOf(known) <= 1
      BY <2>4, First
    <2>6. FirstOf(known) = 1
      BY <2>4, <2>5, AnswersType
    <2>7. AuthOf(r) = EnvResolve[r]
      BY <2>4, <2>6, AnswersType DEF AuthOf
    <2>8. QED
      BY <1>1, <2>1, <2>2, <2>7 DEF IsBest
  <1>2. CASE ~\E e \in EnvEntry : Matches(e, r)
    BY <1>2 DEF IsBest
  <1>3. QED
    BY <1>1, <1>2
--------------------------------------------------------------------------------
\* What a goroutine is at is an operation of its script.
LEMMA Operations ==
    ASSUME TypeOK, NEW t \in Task, Busy(t)
    PROVE  /\ at[t] \in 1..Len(Script[t]) /\ Op(t) \in Operation /\ Op(t) = Script[t][at[t]]
           /\ Op(t).client \in {"main", "quiet", "basic"} /\ Op(t).dest \in Repo
           /\ Op(t).repos \in Seq(Repo) /\ Op(t).repos # << >>
           /\ cand[t] \in DOMAIN Op(t).repos /\ Target(t) \in Repo /\ Target(t) = Op(t).repos[cand[t]]
           /\ ScopeOf(t) \in Scope /\ (IsWrite(t) <=> ScopeOf(t) = "push")
  <1>1. at[t] \in 1..Len(Script[t]) /\ Script[t] \in Seq(Operation)
    <2>1. at[t] \in 1..(Len(Script[t]) + 1) /\ at[t] <= Len(Script[t])
      BY DEF TypeOK, Busy
    <2>2. Script[t] \in Seq(Operation) /\ Len(Script[t]) \in Nat
      BY ScriptAssumption
    <2>3. QED
      BY <2>1, <2>2
  <1>2. Op(t) \in Operation /\ Op(t) = Script[t][at[t]]
    BY <1>1 DEF Op
  <1>3. Op(t).repos # << >>
    BY <1>1, <1>2, ScriptAssumption
  <1>4. cand[t] \in DOMAIN Op(t).repos
    BY DEF TypeOK, Busy
  <1>5. Op(t).repos \in Seq(Repo) /\ Op(t).dest \in Repo /\ Op(t).client \in {"main", "quiet", "basic"}
    BY <1>2 DEF Operation
  <1>6. Target(t) \in Repo
    BY <1>4, <1>5 DEF Target
  <1>7. QED
    BY <1>1, <1>2, <1>3, <1>4, <1>5, <1>6 DEF Target, ScopeOf, ScopeFor, IsWrite, Scope

\* Two registry values with one storage ask for different things at a time.
LEMMA OneAtATime ==
    ASSUME TypeOK, NEW t \in Task, NEW u \in Task, t # u, Busy(t), Busy(u), Where(t), Where(u),
           user[t] \in Shares, user[u] \in Shares, user[t] # user[u], ScopeOf(t) = ScopeOf(u)
    PROVE  Target(t) # Target(u)
  <1>1. Op(t).client = user[t] /\ Op(u).client = user[u]
    BY ScheduleAssumption DEF Where, Shares
  <1>2. t \notin After[u] /\ u \notin After[t]
    BY DEF Where, Busy
  <1>3. /\ at[t] \in DOMAIN Script[t] /\ Op(t) = Script[t][at[t]] /\ cand[t] \in DOMAIN Op(t).repos
        /\ at[u] \in DOMAIN Script[u] /\ Op(u) = Script[u][at[u]] /\ cand[u] \in DOMAIN Op(u).repos
        /\ Target(t) = Op(t).repos[cand[t]] /\ Target(u) = Op(u).repos[cand[u]]
    BY Operations, ScriptAssumption
  <1>4. ScopeFor(Op(t)) = ScopeFor(Op(u))
    BY DEF ScopeOf
  <1>5. CASE user[t] = "main" /\ user[u] = "quiet"
    BY <1>1, <1>2, <1>3, <1>4, <1>5, ScheduleAssumption
  <1>6. CASE user[u] = "main" /\ user[t] = "quiet"
    BY <1>1, <1>2, <1>3, <1>4, <1>6, ScheduleAssumption
  <1>7. QED
    BY <1>5, <1>6 DEF Shares

\* What one goroutine does under its mutex leaves the others with what they know.
LEMMA Others ==
    ASSUME TypeOK, \A u \in Task : Where(u), NEW t \in Task, pc[t] # "done",
           \A u \in Task \ {t} : /\ pc'[u] = pc[u] /\ at'[u] = at[u] /\ cand'[u] = cand[u]
                                 /\ user'[u] = user[u] /\ rt'[u] = rt[u] /\ single'[u] = single[u],
           \A c \in Client : transportAccess'[c] = transportAccess[c] \/ transportAccess[c] \in {Free, t},
           \A c \in Client, r \in Repo :
               authn'[c][r] = authn[c][r] \/ c = t \/ transportAccess[c] = t,
           \A r \in Repo, m \in Scope :
               \/ transports'[r][m] = transports[r][m]
               \/ pc[t] = "create" /\ user[t] \in Shares /\ r = Target(t) /\ m = ScopeOf(t)
    PROVE  \A u \in Task \ {t} : Where(u)'
  <1> SUFFICES ASSUME NEW u \in Task, u # t
               PROVE  Where(u)'
    OBVIOUS
  <1>1. /\ pc'[u] = pc[u] /\ at'[u] = at[u] /\ cand'[u] = cand[u] /\ user'[u] = user[u]
        /\ rt'[u] = rt[u] /\ single'[u] = single[u] /\ user[u] \in Client /\ Where(u)
    BY DEF TypeOK
  <1>2. Op(u)' = Op(u) /\ Target(u)' = Target(u) /\ ScopeOf(u)' = ScopeOf(u) /\ IsWrite(u)' = IsWrite(u) /\ Busy(u)' = Busy(u)
    BY <1>1 DEF Op, Target, ScopeOf, IsWrite, Busy
  <1>3. Busy(u) => user[u] \in {Op(u).client, u} /\ \A x \in After[u] : pc'[x] = "done"
    <2>1. After[u] \subseteq Task
      BY ScriptAssumption
    <2>2. QED
      BY <1>1, <2>1 DEF Where
  <1>4. pc[u] \in Inside => transportAccess'[user[u]] = u /\ transportAccess[user[u]] = u
    <2>1. u \notin {Free, t}
      BY ScheduleAssumption DEF Free
    <2>2. QED
      BY <1>1, <2>1 DEF Where
  <1>5. pc[u] = "create" => /\ user[u] # "basic"
                            /\ authn'[user[u]][Target(u)] = authn[user[u]][Target(u)]
                            /\ Resolve(user[u], Target(u))' = Resolve(user[u], Target(u))
    <2> SUFFICES ASSUME pc[u] = "create"
                 PROVE  /\ user[u] # "basic"
                        /\ authn'[user[u]][Target(u)] = authn[user[u]][Target(u)]
                        /\ Resolve(user[u], Target(u))' = Resolve(user[u], Target(u))
      OBVIOUS
    <2>1. Busy(u) /\ user[u] # "basic" /\ transportAccess[user[u]] = u
      BY <1>1, <1>4 DEF Busy, Where, Inside
    <2>2. Target(u) \in Repo /\ Op(u).client \notin Task
      BY <2>1, Operations, ScheduleAssumption
    <2>3. user[u] # t /\ (user[u] \in Task => user[u] = u)
      BY <1>3, <2>1, <2>2
    <2>4. authn'[user[u]][Target(u)] = authn[user[u]][Target(u)]
      BY <1>1, <2>1, <2>2, <2>3
    <2>5. Resolve(user[u], Target(u))' = Resolve(user[u], Target(u))
      BY <1>1, <1>2, <2>3 DEF Resolve
    <2>6. QED
      BY <2>1, <2>4, <2>5
  <1>6. pc[u] \in {"resolve", "create"} /\ user[u] \in Shares =>
            transports'[Target(u)][ScopeOf(u)] = transports[Target(u)][ScopeOf(u)]
    <2> SUFFICES ASSUME pc[u] \in {"resolve", "create"}, user[u] \in Shares,
                        pc[t] = "create", user[t] \in Shares, Target(u) = Target(t), ScopeOf(u) = ScopeOf(t)
                 PROVE  FALSE
      BY Operations DEF Busy
    <2>1. Busy(u) /\ Busy(t)
      BY DEF Busy
    <2>2. transportAccess[user[u]] = u /\ transportAccess[user[t]] = t
      BY <1>4 DEF Where, Inside
    <2>3. QED
      BY <2>1, <2>2, OneAtATime
  <1>7. (authn[user[u]][Target(u)])' = authn'[user[u]][Target(u)]
    BY <1>1, <1>2
  <1>8. QED
    BY <1>1, <1>2, <1>3, <1>4, <1>5, <1>6, <1>7 DEF Where, Inside
--------------------------------------------------------------------------------
\* What a storage answers with is a round tripper.
LEMMA RoundTripperType ==
    ASSUME TypeOK, NEW c \in Client, NEW r \in Repo, NEW m \in Scope
    PROVE  RoundTripper(c, r, m) \in Tripper \cup {NoTripper}
  <1>1. CASE c \in Task
    <2>1. RoundTripper(c, r, m) = single[c].transport
      BY <1>1 DEF RoundTripper
    <2>2. QED
      BY <1>1, <2>1 DEF TypeOK
  <1>2. CASE c = "basic"
    BY <1>2, ScheduleAssumption DEF RoundTripper
  <1>3. CASE c \in Shares
    <2>1. RoundTripper(c, r, m) \in {transports[r][m], transports[r]["push"]}
      BY <1>3, ScheduleAssumption DEF RoundTripper, Shares
    <2>2. QED
      BY <2>1 DEF TypeOK, Scope
  <1>4. QED
    BY <1>1, <1>2, <1>3 DEF Client, Shares

\* The shared storage answers with what was negotiated for the repository, and for a
\* scope that allows the request; it has no answer only when there is none saved.
LEMMA RoundTripperShared ==
    ASSUME TypeOK, Stored, NEW c \in Shares, NEW r \in Repo, NEW m \in Scope
    PROVE  /\ RoundTripper(c, r, m) = NoTripper => transports[r][m] = NoTripper
           /\ RoundTripper(c, r, m) # NoTripper =>
                \E k \in Scope : RoundTripper(c, r, m) = Proper(r, k) /\ (m = "push" => k = "push")
  <1>1. c \notin Task /\ c # "basic"
    BY ScheduleAssumption DEF Shares
  <1>2. CASE transports[r][m] = NoTripper /\ m = "pull"
    <2>1. RoundTripper(c, r, m) = transports[r]["push"]
      BY <1>1, <1>2 DEF RoundTripper
    <2>2. "push" \in Scope
      BY DEF Scope
    <2>3. QED
      BY <1>2, <2>1, <2>2 DEF Stored
  <1>3. CASE ~(transports[r][m] = NoTripper /\ m = "pull")
    <2>1. RoundTripper(c, r, m) = transports[r][m]
      BY <1>1, <1>3 DEF RoundTripper
    <2>2. QED
      BY <2>1 DEF Stored
  <1>4. QED
    BY <1>2, <1>3

\* The storage of a registry value is one.
LEMMA StorageType == \A c \in Client : StorageOf(c) \in Storage
  BY ScheduleAssumption DEF Client, Storage, StorageOf

\* What an answer makes of its goroutine.
LEMMA Answered ==
    ASSUME TypeOK, NEW t \in Task, Busy(t), Where(t), NEW ok \in BOOLEAN, Answer(t, ok)
    PROVE  /\ pc' \in [Task -> {"idle", "compare", "validate", "clone", "lock", "lookup", "resolve", "create",
                                "pair", "request", "return", "done", "panic"}]
           /\ cand' \in [Task -> Nat] /\ cand'[t] \in DOMAIN Op(t).repos
           /\ failed' \in [Task -> BOOLEAN]
           /\ verb' \in [Task -> {"read", "head", "get", "write"}]
           /\ rt' \in [Task -> Tripper \cup {NoTripper}]
           /\ \A u \in Task \ {t} : pc'[u] = pc[u] /\ cand'[u] = cand[u] /\ rt'[u] = rt[u]
           /\ pc'[t] \in {"validate", "return"} /\ (pc'[t] = "validate" => Op(t).kind = "first")
  <1>1. /\ cand[t] \in DOMAIN Op(t).repos /\ Op(t).repos \in Seq(Repo) /\ cand[t] \in Nat
        /\ cand \in [Task -> Nat] /\ failed \in [Task -> BOOLEAN] /\ verb \in [Task -> {"read", "head", "get", "write"}]
        /\ rt \in [Task -> Tripper \cup {NoTripper}]
    BY Operations DEF TypeOK
  <1> DEFINE next == Op(t).kind = "first" /\ ~ok /\ MoreCandidates(t)
  <1>2. /\ cand' = [cand EXCEPT ![t] = IF next THEN cand[t] + 1 ELSE cand[t]]
        /\ pc' = [pc EXCEPT ![t] = IF next THEN "validate" ELSE "return"]
        /\ rt' = [rt EXCEPT ![t] = NoTripper]
        /\ verb' = [verb EXCEPT ![t] = IF next THEN "head" ELSE verb[t]]
    BY DEF Answer, Goto
  <1>3. failed' \in [Task -> BOOLEAN]
    BY <1>1 DEF Answer
  <1>4. next => Op(t).kind = "first" /\ cand[t] + 1 \in DOMAIN Op(t).repos
    BY <1>1 DEF MoreCandidates
  <1> HIDE DEF next
  <1>5. cand' \in [Task -> Nat] /\ cand'[t] \in DOMAIN Op(t).repos
    BY <1>1, <1>2, <1>4
  <1>6. /\ rt' \in [Task -> Tripper \cup {NoTripper}] /\ verb' \in [Task -> {"read", "head", "get", "write"}]
        /\ pc'[t] \in {"validate", "return"} /\ (pc'[t] = "validate" => next)
        /\ pc' \in [Task -> {"idle", "compare", "validate", "clone", "lock", "lookup", "resolve", "create",
                             "pair", "request", "return", "done", "panic"}]
    BY <1>1, <1>2 DEF TypeOK
  <1>7. \A u \in Task \ {t} : pc'[u] = pc[u] /\ cand'[u] = cand[u] /\ rt'[u] = rt[u]
    BY <1>1, <1>2 DEF TypeOK
  <1>8. QED
    BY <1>3, <1>4, <1>5, <1>6, <1>7

\* After an answer a goroutine knows nothing but where it is.
LEMMA AnswerWhere ==
    ASSUME TypeOK, NEW t \in Task, Busy(t), Where(t), NEW ok \in BOOLEAN, Answer(t, ok),
           UNCHANGED <<at, user, single>>
    PROVE  Where(t)'
  <1>1. /\ pc'[t] \in {"validate", "return"} /\ (pc'[t] = "validate" => Op(t).kind = "first")
        /\ \A u \in Task \ {t} : pc'[u] = pc[u]
    BY Answered
  <1>2. Op(t)' = Op(t) /\ Busy(t)'
    BY <1>1 DEF Op, Busy
  <1>3. After[t] \subseteq Task /\ \A u \in After[t] : pc'[u] = "done"
    BY <1>1, ScriptAssumption DEF Where, Busy
  <1>4. QED
    BY <1>1, <1>2, <1>3 DEF Where, Inside
--------------------------------------------------------------------------------
\* The part of the type that says what a goroutine is at.
Place == {"idle", "compare", "validate", "clone", "lock", "lookup", "resolve", "create", "pair",
          "request", "return", "done", "panic"}
AtOp(t) == /\ at[t] \in 1..(Len(Script[t]) + 1)
           /\ pc[t] \notin {"idle", "done"} => at[t] <= Len(Script[t]) /\ cand[t] \in DOMAIN Op(t).repos

\* A step of one goroutine leaves the others at their operations.
LEMMA OthersAtOp ==
    ASSUME TypeOK, NEW t \in Task,
           \A u \in Task \ {t} : pc'[u] = pc[u] /\ at'[u] = at[u] /\ cand'[u] = cand[u],
           AtOp(t)'
    PROVE  \A u \in Task : AtOp(u)'
  <1> SUFFICES ASSUME NEW u \in Task, u # t
               PROVE  AtOp(u)'
    OBVIOUS
  <1>1. pc'[u] = pc[u] /\ at'[u] = at[u] /\ cand'[u] = cand[u]
    OBVIOUS
  <1>2. AtOp(u)
    BY DEF TypeOK, AtOp
  <1>3. Op(u)' = Op(u)
    BY <1>1 DEF Op
  <1>4. QED
    BY <1>1, <1>2, <1>3 DEF AtOp

\* The operations that only move their goroutine, its progress reader or the keychain.
LEMMA MovesTypes ==
    ASSUME TypeOK, NEW t \in Task,
           \/ Begin(t) \/ Finish(t) \/ Compare(t) \/ CloneBasic(t) \/ ClonePanics(t)
           \/ Send(t) \/ Return(t) \/ ReaderEnds(t) \/ RetryKeychain(t)
    PROVE  TypeOK'
  <1> USE NamesAssumption DEF taskVars, lockVars, storeVars, progressVars
  <1>0. Script[t] \in Seq(Operation) /\ Len(Script[t]) \in Nat /\ AtOp(t)
    BY ScriptAssumption DEF TypeOK, AtOp
  <1>1. CASE Begin(t)
    <2>1. at[t] \in 1..Len(Script[t]) /\ Op(t) \in Operation /\ Op(t).repos # << >>
      <3>1. at[t] \in 1..Len(Script[t]) /\ Op(t) = Script[t][at[t]]
        BY <1>0, <1>1 DEF Begin, AtOp, Op
      <3>2. QED
        BY <1>0, <3>1, ScriptAssumption
    <2>2. /\ at' = at /\ cand' = [cand EXCEPT ![t] = 1]
          /\ pc' = [pc EXCEPT ![t] = IF Op(t).kind = "mountable" THEN "compare" ELSE "validate"]
      BY <1>1 DEF Begin, Goto
    <2>3. Op(t)' = Op(t) /\ 1 \in DOMAIN Op(t).repos
      BY <2>1, <2>2 DEF Op, Operation
    <2>4. AtOp(t)'
      BY <1>0, <2>1, <2>2, <2>3 DEF AtOp, TypeOK
    <2>5. \A u \in Task : AtOp(u)'
      BY <2>2, <2>4, OthersAtOp DEF TypeOK
    <2>6. user' \in [Task -> Client]
      BY <1>1, <2>1 DEF Begin, TypeOK, Operation, Client
    <2>7. /\ reader' \in [Task -> {"none", "reading", "cancelled", "ended"}]
          /\ channel' \in [Task -> {"none", "open", "closed"}]
          /\ sent' \in [Task -> 0..MaxUpdates] /\ verb' \in [Task -> {"read", "head", "get", "write"}]
      BY <1>1 DEF Begin, TypeOK
    <2>8. tries' \in [Task -> 0..(Tries - 1)]
      BY <1>1, CredentialsAssumption DEF Begin, TypeOK
    <2>9. cand' \in [Task -> Nat] /\ pc' \in [Task -> Place]
      BY <2>2 DEF TypeOK, Place
    <2>10. QED
      BY <1>1, <2>5, <2>6, <2>7, <2>8, <2>9 DEF Begin, TypeOK, AtOp, Place
  <1>2. CASE Finish(t) \/ CloneBasic(t) \/ ClonePanics(t) \/ Compare(t)
    <2>1. /\ pc' \in [Task -> Place] /\ UNCHANGED <<at, cand>>
          /\ \A u \in Task \ {t} : pc'[u] = pc[u]
          /\ pc'[t] = "done" \/ pc[t] \notin {"idle", "done"}
      BY <1>2 DEF Finish, CloneBasic, ClonePanics, Compare, Goto, TypeOK, Place
    <2>2. AtOp(t)'
      BY <1>0, <2>1 DEF AtOp, Op
    <2>3. \A u \in Task : AtOp(u)'
      BY <2>1, <2>2, OthersAtOp
    <2>4. failed' \in [Task -> BOOLEAN] /\ faults' \in 0..MaxFaults
      <3>1. CASE Finish(t)
        BY <3>1 DEF Finish, TypeOK
      <3>2. CASE CloneBasic(t)
        BY <3>2 DEF CloneBasic, TypeOK
      <3>3. CASE ClonePanics(t)
        BY <3>3 DEF ClonePanics, Fault, TypeOK
      <3>4. CASE Compare(t)
        BY <3>4 DEF Compare, TypeOK
      <3>5. QED
        BY <1>2, <3>1, <3>2, <3>3, <3>4
    <2>5. QED
      BY <1>2, <2>1, <2>3, <2>4 DEF Finish, CloneBasic, ClonePanics, Compare, TypeOK, AtOp, Place
  <1>3. CASE Send(t) \/ ReaderEnds(t) \/ RetryKeychain(t)
    <2>1. sent' \in [Task -> 0..MaxUpdates] /\ reader' \in [Task -> {"none", "reading", "cancelled", "ended"}]
      <3>1. CASE Send(t)
        BY <3>1 DEF Send, TypeOK
      <3>2. CASE ReaderEnds(t) \/ RetryKeychain(t)
        BY <3>2 DEF ReaderEnds, RetryKeychain, TypeOK
      <3>3. QED
        BY <1>3, <3>1, <3>2
    <2>2. tries' \in [Task -> 0..(Tries - 1)] /\ faults' \in 0..MaxFaults
      <3>1. CASE Send(t) \/ ReaderEnds(t)
        BY <3>1 DEF Send, ReaderEnds, TypeOK
      <3>2. CASE RetryKeychain(t)
        <4>1. tries[t] \in Nat /\ tries[t] + 1 < Tries /\ tries' = [tries EXCEPT ![t] = @ + 1]
          BY <3>2 DEF RetryKeychain, TypeOK
        <4>2. tries' \in [Task -> 0..(Tries - 1)]
          BY <4>1, CredentialsAssumption DEF TypeOK
        <4>3. QED
          BY <3>2, <4>2 DEF RetryKeychain, Fault, TypeOK
      <3>3. QED
        BY <1>3, <3>1, <3>2
    <2>3. UNCHANGED <<taskVars, lockVars, storeVars, channel>>
      BY <1>3 DEF Send, ReaderEnds, RetryKeychain
    <2>4. \A u \in Task : AtOp(u)'
      BY <2>3 DEF AtOp, TypeOK, Op
    <2>5. QED
      BY <2>1, <2>2, <2>3, <2>4 DEF TypeOK, AtOp
  <1>4. CASE Return(t)
    <2>1. at' = [at EXCEPT ![t] = @ + 1] /\ pc' = [pc EXCEPT ![t] = "idle"] /\ cand' = cand /\ pc[t] = "return"
      BY <1>4 DEF Return, Goto
    <2>2. at[t] \in 1..Len(Script[t])
      BY <1>0, <2>1 DEF AtOp
    <2>3. AtOp(t)'
      BY <1>0, <2>1, <2>2 DEF AtOp, TypeOK
    <2>4. \A u \in Task : AtOp(u)'
      BY <2>1, <2>3, OthersAtOp DEF TypeOK
    <2>5. at' \in [Task -> Nat] /\ pc' \in [Task -> Place] /\ reader' \in [Task -> {"none", "reading", "cancelled", "ended"}]
      BY <1>4, <2>1 DEF Return, TypeOK, Place
    <2>6. QED
      BY <1>4, <2>4, <2>5 DEF Return, TypeOK, AtOp, Place
  <1>5. QED
    BY <1>1, <1>2, <1>3, <1>4

\* The operations under the mutex of a registry value, and the clone.
LEMMA TransportTypes ==
    ASSUME TypeOK, NEW t \in Task, Where(t),
           \/ Clone(t) \/ Lock(t) \/ Lookup(t) \/ NoKeychain(t) \/ ResolveAuth(t)
           \/ CreateRoundTripper(t) \/ Pair(t)
    PROVE  TypeOK'
  <1> USE DEF taskVars, lockVars, storeVars, progressVars
  <1>0. /\ Busy(t) /\ pc[t] # "done" /\ user[t] \in Client /\ t \in Client
        /\ Target(t) \in Repo /\ ScopeOf(t) \in Scope /\ Op(t).dest \in Repo
        /\ Op(t).repos \in Seq(Repo) /\ AtOp(t) /\ cand[t] \in DOMAIN Op(t).repos
        /\ StorageOf(user[t]) \in Storage
    <2>1. Busy(t) /\ pc[t] # "done"
      BY DEF Busy, Clone, Lock, Lookup, NoKeychain, ResolveAuth, CreateRoundTripper, Pair
    <2>2. user[t] \in Client /\ t \in Client
      BY DEF TypeOK, Client
    <2>3. QED
      BY <2>1, <2>2, Operations, StorageType DEF AtOp, TypeOK
  <1>1. \A c \in Client, r \in Repo : Resolve(c, r) \in Auth \cup {"none"}
    BY AuthOfType DEF Resolve, TypeOK
  <1>2. CASE Clone(t)
    <2> DEFINE found == RoundTripper(user[t], Op(t).dest, "pull")
    <2>1. found \in Tripper \cup {NoTripper} /\ AuthOf(Op(t).dest) \in Auth
      BY <1>0, RoundTripperType, AuthOfType DEF Scope
    <2>2. single' = [single EXCEPT ![t] = [auth |-> AuthOf(Op(t).dest),
                        base |-> IF found = NoTripper THEN Base ELSE found, transport |-> NoTripper]]
      BY <1>2 DEF Clone
    <2> HIDE DEF found
    <2>3. single' \in [Task -> [auth : Auth \cup {"none"}, base : Tripper \cup {Base},
                                transport : Tripper \cup {NoTripper}]]
      BY <2>1, <2>2 DEF TypeOK
    <2>4. authn' \in [Client -> [Repo -> Auth \cup {"none"}]]
      BY <1>0, <1>2 DEF Clone, TypeOK
    <2>5. pc' = [pc EXCEPT ![t] = "validate"] /\ user' = [user EXCEPT ![t] = t] /\ UNCHANGED <<at, cand>>
      BY <1>2 DEF Clone, Goto
    <2>6. AtOp(t)'
      BY <1>0, <2>5 DEF AtOp, Op, Busy
    <2>7. \A u \in Task : AtOp(u)'
      BY <2>5, <2>6, OthersAtOp DEF TypeOK
    <2>8. pc' \in [Task -> Place] /\ user' \in [Task -> Client]
      BY <1>0, <2>5 DEF TypeOK, Place
    <2>9. QED
      BY <1>2, <2>3, <2>4, <2>7, <2>8 DEF Clone, TypeOK, AtOp, Place
  <1>3. CASE Lock(t)
    <2>1. PICK i \in DOMAIN Op(t).repos : cand' = [cand EXCEPT ![t] = i]
      BY <1>3 DEF Lock
    <2>2. i \in Nat
      BY <1>0
    <2>3. pc' = [pc EXCEPT ![t] = "lookup"] /\ at' = at
      BY <1>3 DEF Lock, Goto
    <2>4. AtOp(t)'
      BY <1>0, <2>1, <2>3 DEF AtOp, Op, Busy, TypeOK
    <2>5. \A u \in Task : AtOp(u)'
      BY <2>1, <2>3, <2>4, OthersAtOp DEF TypeOK
    <2>6. cand' \in [Task -> Nat] /\ pc' \in [Task -> Place]
      BY <2>1, <2>2, <2>3 DEF TypeOK, Place
    <2>7. transportAccess' \in [Client -> Task \cup {Free}]
      BY <1>0, <1>3 DEF Lock, TypeOK
    <2>8. tries' \in [Task -> 0..(Tries - 1)]
      BY <1>3, CredentialsAssumption DEF Lock, TypeOK
    <2>9. QED
      BY <1>3, <2>5, <2>6, <2>7, <2>8 DEF Lock, TypeOK, AtOp, Place
  <1>4. CASE Lookup(t) \/ NoKeychain(t) \/ ResolveAuth(t) \/ CreateRoundTripper(t) \/ Pair(t)
    <2>1. /\ pc' \in [Task -> Place] /\ UNCHANGED <<at, cand, verb, user, failed>>
          /\ \A u \in Task \ {t} : pc'[u] = pc[u]
      BY <1>4 DEF Lookup, NoKeychain, ResolveAuth, CreateRoundTripper, Pair, Goto, TypeOK, Place
    <2>2. AtOp(t)'
      BY <1>0, <2>1 DEF AtOp, Op, Busy
    <2>3. \A u \in Task : AtOp(u)'
      BY <2>1, <2>2, OthersAtOp
    <2>4. CASE Lookup(t)
      <3>1. rt' \in [Task -> Tripper \cup {NoTripper}]
        BY <1>0, <2>4, RoundTripperType DEF Lookup, TypeOK
      <3>2. QED
        BY <2>1, <2>3, <2>4, <3>1 DEF Lookup, TypeOK, AtOp, Place
    <2>5. CASE NoKeychain(t)
      BY <1>0, <2>1, <2>3, <2>5 DEF NoKeychain, TypeOK, AtOp, Place
    <2>6. CASE ResolveAuth(t)
      <3>1. authn' \in [Client -> [Repo -> Auth \cup {"none"}]]
        BY <1>0, <1>1, <2>6 DEF ResolveAuth, TypeOK
      <3>2. readWriteAccess' \in [Storage -> Task \cup {Free}]
        BY <1>0, <2>6 DEF ResolveAuth, TypeOK
      <3>3. QED
        BY <2>1, <2>3, <2>6, <3>1, <3>2 DEF ResolveAuth, TypeOK, AtOp, Place
    <2>7. CASE CreateRoundTripper(t)
      <3> DEFINE tripper == Negotiated(user[t], Target(t), ScopeOf(t))
      <3>1. tripper \in Tripper
        <4>1. CASE user[t] \in Task /\ single[user[t]].base # Base
          BY <1>0, <4>1 DEF Negotiated, TypeOK
        <4>2. CASE ~(user[t] \in Task /\ single[user[t]].base # Base)
          <5>1. tripper = [auth |-> authn[user[t]][Target(t)], repo |-> Target(t), scope |-> ScopeOf(t)]
            BY <4>2 DEF Negotiated
          <5>2. authn[user[t]][Target(t)] \in Auth
            <6>1. authn[user[t]][Target(t)] = Resolve(user[t], Target(t))
              BY <2>7 DEF CreateRoundTripper, Where
            <6>2. user[t] \in Task => user[t] = t /\ single[t].auth = AuthOf(Op(t).dest)
              BY <1>0, Operations, ScheduleAssumption DEF Where
            <6>3. Resolve(user[t], Target(t)) \in {AuthOf(Op(t).dest), AuthOf(Target(t))}
              BY <6>2 DEF Resolve
            <6>4. QED
              BY <1>0, <6>1, <6>3, AuthOfType
          <5>3. QED
            BY <1>0, <5>1, <5>2 DEF Tripper
        <4>3. QED
          BY <4>1, <4>2
      <3>2. /\ IF user[t] \in Task
               THEN single' = [single EXCEPT ![user[t]].transport = tripper] /\ UNCHANGED <<transports, negotiated>>
               ELSE /\ transports' = [transports EXCEPT ![Target(t)][ScopeOf(t)] = tripper]
                    /\ negotiated' = [negotiated EXCEPT ![Target(t)][ScopeOf(t)] = @ + 1]
                    /\ UNCHANGED single
            /\ rt' = [rt EXCEPT ![t] = tripper]
        BY <2>7 DEF CreateRoundTripper
      <3> HIDE DEF tripper
      <3>3. single' \in [Task -> [auth : Auth \cup {"none"}, base : Tripper \cup {Base},
                                  transport : Tripper \cup {NoTripper}]]
        <4>1. CASE user[t] \in Task
          <5> DEFINE Clones == [auth : Auth \cup {"none"}, base : Tripper \cup {Base},
                                transport : Tripper \cup {NoTripper}]
          <5>1. single \in [Task -> Clones] /\ single[user[t]] \in Clones
            BY <4>1 DEF TypeOK
          <5>2. [single[user[t]] EXCEPT !.transport = tripper] \in Clones
            BY <3>1, <5>1
          <5> HIDE DEF Clones
          <5>3. single' = [single EXCEPT ![user[t]] = [single[user[t]] EXCEPT !.transport = tripper]]
            BY <3>2, <4>1
          <5>4. single' \in [Task -> Clones]
            BY <4>1, <5>1, <5>2, <5>3
          <5>5. QED
            BY <5>4 DEF Clones
        <4>2. CASE user[t] \notin Task
          BY <3>2, <4>2 DEF TypeOK
        <4>3. QED
          BY <4>1, <4>2
      <3>4. /\ transports' \in [Repo -> [Scope -> Tripper \cup {NoTripper}]]
            /\ negotiated' \in [Repo -> [Scope -> Nat]]
        <4>1. CASE user[t] \in Task
          BY <3>2, <4>1 DEF TypeOK
        <4>2. CASE user[t] \notin Task
          <5>1. transports' = [transports EXCEPT ![Target(t)][ScopeOf(t)] = tripper]
            BY <3>2, <4>2
          <5>2. negotiated' = [negotiated EXCEPT ![Target(t)][ScopeOf(t)] = @ + 1]
            BY <3>2, <4>2
          <5>3. transports' \in [Repo -> [Scope -> Tripper \cup {NoTripper}]]
            BY <1>0, <3>1, <5>1 DEF TypeOK
          <5>4. negotiated' \in [Repo -> [Scope -> Nat]]
            BY <1>0, <5>2 DEF TypeOK
          <5>5. QED
            BY <5>3, <5>4
        <4>3. QED
          BY <4>1, <4>2
      <3>6. rt' \in [Task -> Tripper \cup {NoTripper}]
        BY <3>1, <3>2 DEF TypeOK
      <3>7. readWriteAccess' \in [Storage -> Task \cup {Free}]
        BY <1>0, <2>7 DEF CreateRoundTripper, TypeOK
      <3>8. QED
        BY <2>1, <2>3, <2>7, <3>3, <3>4, <3>6, <3>7 DEF CreateRoundTripper, TypeOK, AtOp, Place
    <2>8. CASE Pair(t)
      <3>1. authn' \in [Client -> [Repo -> Auth \cup {"none"}]]
        BY <1>0, <1>1, <2>8 DEF Pair, TypeOK
      <3>2. transportAccess' \in [Client -> Task \cup {Free}]
        BY <1>0, <2>8 DEF Pair, TypeOK
      <3>3. QED
        BY <2>1, <2>3, <2>8, <3>1, <3>2 DEF Pair, TypeOK, AtOp, Place
    <2>9. QED
      BY <1>4, <2>4, <2>5, <2>6, <2>7, <2>8
  <1>5. QED
    BY <1>2, <1>3, <1>4

\* What follows a request.
LEMMA Response ==
    ASSUME NEW t \in Task, NEW ok \in BOOLEAN, Responds(t, ok)
    PROVE  \/ /\ verb' = [verb EXCEPT ![t] = "get"] /\ UNCHANGED <<pc, cand, failed, user, rt>>
           \/ /\ Op(t).kind = "mountable" /\ verb' = [verb EXCEPT ![t] = "read"]
              /\ user' = [user EXCEPT ![t] = Op(t).client] /\ rt' = [rt EXCEPT ![t] = NoTripper]
              /\ pc' = [pc EXCEPT ![t] = "lock"] /\ UNCHANGED <<cand, failed>>
           \/ Answer(t, ok) /\ UNCHANGED user
  <1>1. CASE verb[t] = "head" /\ ~ok
    BY <1>1 DEF Responds
  <1>2. CASE Op(t).kind = "mountable" /\ ok /\ verb[t] # "read"
    BY <1>2 DEF Responds, Goto
  <1>3. CASE ~(verb[t] = "head" /\ ~ok) /\ ~(Op(t).kind = "mountable" /\ ok /\ verb[t] # "read")
    BY <1>3 DEF Responds
  <1>4. QED
    BY <1>1, <1>2, <1>3

\* An answer leaves its goroutine at its operation.
LEMMA AnswerTypes ==
    ASSUME TypeOK, NEW t \in Task, Busy(t), Where(t), NEW ok \in BOOLEAN, Answer(t, ok), UNCHANGED at
    PROVE  /\ pc' \in [Task -> Place] /\ cand' \in [Task -> Nat] /\ failed' \in [Task -> BOOLEAN]
           /\ verb' \in [Task -> {"read", "head", "get", "write"}] /\ rt' \in [Task -> Tripper \cup {NoTripper}]
           /\ \A u \in Task : AtOp(u)'
  <1>1. /\ pc' \in [Task -> Place] /\ cand' \in [Task -> Nat] /\ failed' \in [Task -> BOOLEAN]
        /\ verb' \in [Task -> {"read", "head", "get", "write"}] /\ rt' \in [Task -> Tripper \cup {NoTripper}]
        /\ cand'[t] \in DOMAIN Op(t).repos /\ \A u \in Task \ {t} : pc'[u] = pc[u] /\ cand'[u] = cand[u]
    BY Answered DEF Place
  <1>2. AtOp(t)'
    <2>1. at'[t] = at[t] /\ Op(t)' = Op(t)
      BY DEF Op
    <2>2. QED
      BY <1>1, <2>1 DEF AtOp, TypeOK, Busy
  <1>3. \A u \in Task : AtOp(u)'
    BY <1>1, <1>2, OthersAtOp
  <1>4. QED
    BY <1>1, <1>3

\* The steps that may answer: the requests, the references that are refused before them,
\* and the failures under the mutex.
LEMMA RequestTypes ==
    ASSUME TypeOK, NEW t \in Task, Where(t), Validate(t) \/ TransportFails(t) \/ Read(t) \/ Write(t)
    PROVE  TypeOK'
  <1> USE NamesAssumption DEF lockVars, storeVars, progressVars
  <1>0. Busy(t) /\ user[t] \in Client /\ UNCHANGED at /\ StorageOf(user[t]) \in Storage /\ AtOp(t)
    BY StorageType DEF Busy, Validate, TransportFails, Read, Write, TypeOK, AtOp
  <1>a. faults' = faults \/ Fault => faults' \in 0..MaxFaults
    BY DEF Fault, TypeOK
  <1>1. CASE TransportFails(t)
    <2>1. Answer(t, FALSE) /\ faults' \in 0..MaxFaults /\ user' = user
      BY <1>1, <1>a DEF TransportFails
    <2>2. transportAccess' \in [Client -> Task \cup {Free}] /\ readWriteAccess' \in [Storage -> Task \cup {Free}]
      BY <1>0, <1>1 DEF TransportFails, Unlocked, TypeOK
    <2>3. QED
      BY <1>0, <1>1, <2>1, <2>2, AnswerTypes DEF TransportFails, TypeOK, AtOp, Place
  <1>2. CASE Write(t)
    <2>1. PICK ok \in BOOLEAN : Answer(t, ok)
      BY <1>2 DEF Write
    <2>2. faults' \in 0..MaxFaults /\ channel' \in [Task -> {"none", "open", "closed"}]
      <3>1. faults' = faults \/ Fault
        BY <1>2 DEF Write
      <3>2. channel' = [channel EXCEPT ![t] = IF @ = "open" THEN "closed" ELSE @]
        BY <1>2 DEF Write
      <3>3. QED
        BY <1>a, <3>1, <3>2 DEF TypeOK
    <2>3. QED
      BY <1>0, <1>2, <2>1, <2>2, AnswerTypes DEF Write, TypeOK, AtOp, Place
  <1>3. CASE Read(t)
    <2>1. PICK ok \in BOOLEAN : Responds(t, ok)
      BY <1>3 DEF Read
    <2>2. faults' \in 0..MaxFaults /\ UNCHANGED <<at, lockVars, storeVars, progressVars, tries>>
      BY <1>3, <1>a DEF Read
    <2>3. CASE Answer(t, ok) /\ UNCHANGED user
      <3>1. UNCHANGED at
        BY <2>2
      <3>2. /\ pc' \in [Task -> Place] /\ cand' \in [Task -> Nat] /\ failed' \in [Task -> BOOLEAN]
            /\ verb' \in [Task -> {"read", "head", "get", "write"}] /\ rt' \in [Task -> Tripper \cup {NoTripper}]
            /\ \A u \in Task : AtOp(u)'
        BY <1>0, <2>3, <3>1, AnswerTypes
      <3>3. QED
        BY <2>2, <2>3, <3>2 DEF TypeOK, AtOp, Place
    <2>4. CASE verb' = [verb EXCEPT ![t] = "get"] /\ UNCHANGED <<pc, cand, failed, user, rt>>
      <3>1. \A u \in Task : AtOp(u)'
        BY <2>2, <2>4 DEF AtOp, Op, TypeOK
      <3>2. verb' \in [Task -> {"read", "head", "get", "write"}]
        BY <2>4 DEF TypeOK
      <3>3. QED
        BY <2>2, <2>4, <3>1, <3>2 DEF TypeOK, AtOp
    <2>5. CASE /\ Op(t).kind = "mountable" /\ verb' = [verb EXCEPT ![t] = "read"]
               /\ user' = [user EXCEPT ![t] = Op(t).client] /\ rt' = [rt EXCEPT ![t] = NoTripper]
               /\ pc' = [pc EXCEPT ![t] = "lock"] /\ UNCHANGED <<cand, failed>>
      <3>1. AtOp(t)'
        BY <1>0, <2>2, <2>5 DEF AtOp, Op, Busy
      <3>2. \A u \in Task : AtOp(u)'
        BY <2>2, <2>5, <3>1, OthersAtOp DEF TypeOK
      <3>3. user' \in [Task -> Client]
        BY <1>0, <2>5, Operations DEF TypeOK, Client
      <3>4. /\ verb' \in [Task -> {"read", "head", "get", "write"}] /\ pc' \in [Task -> Place]
            /\ rt' \in [Task -> Tripper \cup {NoTripper}]
        BY <2>5 DEF TypeOK, Place
      <3>5. QED
        BY <2>2, <2>5, <3>2, <3>3, <3>4 DEF TypeOK, AtOp, Place
    <2>6. QED
      BY <2>1, <2>3, <2>4, <2>5, Response
  <1>4. CASE Validate(t)
    <2>1. UNCHANGED <<at, user, lockVars, storeVars, progressVars, faults, tries>>
      BY <1>4 DEF Validate
    <2>2. CASE Answer(t, FALSE)
      BY <1>0, <2>1, <2>2, AnswerTypes DEF TypeOK, AtOp, Place
    <2>3. CASE pc' = [pc EXCEPT ![t] = "lock"] /\ UNCHANGED <<cand, verb, rt, failed>>
      <3>1. pc' \in [Task -> Place] /\ \A u \in Task \ {t} : pc'[u] = pc[u]
        BY <2>3 DEF TypeOK, Place
      <3>2. AtOp(t)'
        BY <1>0, <2>1, <2>3 DEF AtOp, Op, Busy
      <3>3. \A u \in Task : AtOp(u)'
        BY <2>1, <2>3, <3>1, <3>2, OthersAtOp
      <3>4. QED
        BY <2>1, <2>3, <3>1, <3>3 DEF TypeOK, AtOp, Place
    <2>4. QED
      BY <1>4, <2>2, <2>3 DEF Validate, Goto
  <1>5. QED
    BY <1>1, <1>2, <1>3, <1>4
--------------------------------------------------------------------------------
\* No round tripper is nil.
LEMMA NotNil ==
    /\ \A x \in Tripper : x # NoTripper
    /\ \A a, r, m : [auth |-> a, repo |-> r, scope |-> m] # NoTripper
    /\ \A r \in Repo, m \in Scope : Proper(r, m) \in Tripper
  <1>1. \A a, r, m : [auth |-> a, repo |-> r, scope |-> m] # NoTripper
    <2> SUFFICES ASSUME NEW a, NEW r, NEW m, [auth |-> a, repo |-> r, scope |-> m] = NoTripper
                 PROVE  FALSE
      OBVIOUS
    <2>1. "repo" \in DOMAIN [auth |-> a, repo |-> r, scope |-> m]
      OBVIOUS
    <2>2. "repo" \notin DOMAIN NoTripper
      BY DEF NoTripper
    <2>3. QED
      BY <2>1, <2>2
  <1>2. \A x \in Tripper : x # NoTripper
    <2> SUFFICES ASSUME NEW x \in Tripper PROVE x # NoTripper
      OBVIOUS
    <2>1. x = [auth |-> x.auth, repo |-> x.repo, scope |-> x.scope]
      BY DEF Tripper
    <2>2. QED
      BY <1>1, <2>1
  <1>3. \A r \in Repo, m \in Scope : Proper(r, m) \in Tripper
    BY AuthOfType DEF Proper, Tripper
  <1>4. QED
    BY <1>1, <1>2, <1>3

\* Where a goroutine is depends on nothing else.
LEMMA SamePlace ==
    ASSUME UNCHANGED <<pc, at, cand, user, rt, transportAccess, authn, transports, single>>,
           NEW t \in Task, Where(t)
    PROVE  Where(t)'
  BY DEF Where, Op, Target, ScopeOf, IsWrite, Busy, Resolve

\* Those a goroutine came after stay at their end.
LEMMA Follows ==
    ASSUME NEW t \in Task, Where(t), Busy(t), \A u \in Task \ {t} : pc'[u] = pc[u]
    PROVE  \A x \in After[t] : pc'[x] = "done"
  BY ScriptAssumption DEF Where, Busy

\* A goroutine under no mutex has only to know whose registry it uses.
LEMMA Outside ==
    ASSUME TypeOK, NEW t \in Task, Where(t), Busy(t), \A u \in Task \ {t} : pc'[u] = pc[u],
           UNCHANGED <<at, user, single>>, pc'[t] \in {"validate", "lock", "return", "panic"}
    PROVE  Where(t)'
  <1>1. Op(t)' = Op(t)
    BY DEF Op
  <1>2. \A x \in After[t] : pc'[x] = "done"
    BY Follows
  <1>3. QED
    BY <1>1, <1>2 DEF Where, Inside, Busy

\* The steps outside of the mutex.
LEMMA OutsideWhere ==
    ASSUME Inv, NEW t \in Task,
           \/ Begin(t) \/ Finish(t) \/ Compare(t) \/ Validate(t) \/ Clone(t) \/ CloneBasic(t) \/ ClonePanics(t)
           \/ Return(t) \/ Read(t) \/ Write(t)
    PROVE  \A u \in Task : Where(u)'
  <1> USE DEF taskVars, lockVars, storeVars, progressVars
  <1>0. TypeOK /\ Stored /\ Where(t) /\ pc[t] # "done"
    BY DEF Inv, Begin, Finish, Compare, Validate, Clone, CloneBasic, ClonePanics, Return, Read, Write
  <1>1. /\ UNCHANGED <<transportAccess, transports>>
        /\ \A c \in Client, r \in Repo : authn'[c][r] = authn[c][r] \/ c = t
        /\ \A u \in Task \ {t} : single'[u] = single[u]
    BY <1>0 DEF Begin, Finish, Compare, Validate, Clone, CloneBasic, ClonePanics, Return, Read, Write, TypeOK
  <1>2. /\ \A u \in Task \ {t} : /\ pc'[u] = pc[u] /\ at'[u] = at[u] /\ cand'[u] = cand[u]
                                 /\ user'[u] = user[u] /\ rt'[u] = rt[u]
        /\ Where(t)'
    <2>1. CASE Begin(t)
      <3>1. at[t] \in 1..Len(Script[t]) /\ Op(t) = Script[t][at[t]]
        BY <1>0, <2>1, ScriptAssumption DEF Begin, TypeOK, Op
      <3>2. Op(t).client \in {"main", "quiet", "basic"}
        <4>1. Script[t] \in Seq(Operation)
          BY ScriptAssumption
        <4>2. Op(t) \in Operation
          BY <3>1, <4>1
        <4>3. QED
          BY <4>2 DEF Operation
      <3>3. /\ pc' = [pc EXCEPT ![t] = IF Op(t).kind = "mountable" THEN "compare" ELSE "validate"]
            /\ user' = [user EXCEPT ![t] = Op(t).client]
            /\ cand' = [cand EXCEPT ![t] = 1] /\ UNCHANGED <<at, rt>> /\ \A u \in After[t] : pc[u] = "done"
        BY <2>1 DEF Begin, Goto, Ended
      <3>4. /\ pc'[t] = "validate" \/ (pc'[t] = "compare" /\ Op(t).kind = "mountable")
            /\ user'[t] = Op(t).client /\ Op(t)' = Op(t) /\ user'[t] # t
        BY <1>0, <3>2, <3>3, ScheduleAssumption DEF TypeOK, Op
      <3>5. \A u \in After[t] : pc'[u] = "done"
        BY <1>0, <2>1, <3>3, ScriptAssumption DEF Begin, TypeOK
      <3>6. Where(t)'
        BY <3>4, <3>5 DEF Where, Inside
      <3>7. QED
        BY <1>0, <3>3, <3>6 DEF TypeOK
    <2>2. CASE Finish(t) \/ Return(t)
      <3>1. pc'[t] \in {"idle", "done"} /\ UNCHANGED <<cand, user, rt>>
            /\ \A u \in Task \ {t} : pc'[u] = pc[u] /\ at'[u] = at[u]
        BY <1>0, <2>2 DEF Finish, Return, Goto, TypeOK
      <3>2. Where(t)'
        BY <3>1 DEF Where, Busy, Inside
      <3>3. QED
        BY <3>1, <3>2
    <2>3. CASE Validate(t)
      <3>1. Busy(t) /\ UNCHANGED <<at, user, single>>
        BY <2>3 DEF Validate, Busy
      <3>2. CASE Answer(t, FALSE)
        <4>1. Where(t)'
          BY <1>0, <3>1, <3>2, AnswerWhere
        <4>2. \A u \in Task \ {t} : pc'[u] = pc[u] /\ cand'[u] = cand[u] /\ rt'[u] = rt[u]
          BY <1>0, <3>1, <3>2, Answered
        <4>3. QED
          BY <3>1, <4>1, <4>2
      <3>3. CASE pc' = [pc EXCEPT ![t] = "lock"] /\ UNCHANGED <<cand, rt>>
        <4>1. pc'[t] = "lock" /\ \A u \in Task \ {t} : pc'[u] = pc[u]
          BY <1>0, <3>3 DEF TypeOK
        <4>2. QED
          BY <1>0, <3>1, <3>3, <4>1, Outside
      <3>4. QED
        BY <2>3, <3>2, <3>3 DEF Validate, Goto
    <2>8. CASE Compare(t)
      <3>1. /\ pc[t] = "compare" /\ pc'[t] \in {"return", "clone"} /\ UNCHANGED <<at, cand, user, rt, single>>
            /\ \A u \in Task \ {t} : pc'[u] = pc[u]
        BY <1>0, <2>8 DEF Compare, Goto, TypeOK
      <3>2. Busy(t) /\ Op(t)' = Op(t)
        BY <3>1 DEF Busy, Op
      <3>3. Where(t)'
        BY <1>0, <3>1, <3>2, Follows DEF Where, Inside, Busy
      <3>4. QED
        BY <3>1, <3>3
    <2>4. CASE Clone(t)
      <3> DEFINE found == RoundTripper(user[t], Op(t).dest, "pull")
      <3>1. /\ pc[t] = "clone" /\ user[t] # "basic" /\ pc' = [pc EXCEPT ![t] = "validate"]
            /\ user' = [user EXCEPT ![t] = t] /\ UNCHANGED <<at, cand, rt>>
            /\ single' = [single EXCEPT ![t] = [auth |-> AuthOf(Op(t).dest),
                              base |-> IF found = NoTripper THEN Base ELSE found, transport |-> NoTripper]]
        BY <2>4 DEF Clone, Goto
      <3>2. Busy(t) /\ user[t] = Op(t).client
        BY <1>0, <3>1 DEF Busy, Where
      <3>3. user[t] \in Shares /\ Op(t).dest \in Repo
        BY <1>0, <3>1, <3>2, Operations DEF Shares
      <3>4. found # NoTripper => found.auth = AuthOf(Op(t).dest)
        <4>1. "pull" \in Scope
          BY DEF Scope
        <4>2. found # NoTripper => \E k \in Scope : found = Proper(Op(t).dest, k)
          BY <1>0, <3>3, <4>1, RoundTripperShared
        <4>3. QED
          <5> SUFFICES ASSUME found # NoTripper PROVE found.auth = AuthOf(Op(t).dest)
            OBVIOUS
          <5> HIDE DEF found
          <5>1. PICK k \in Scope : found = Proper(Op(t).dest, k)
            BY <4>2
          <5>2. Proper(Op(t).dest, k).auth = AuthOf(Op(t).dest)
            BY DEF Proper
          <5>3. QED
            BY <5>1, <5>2
      <3>5. Op(t).kind = "mountable"
        BY <1>0, <3>1 DEF Where
      <3> HIDE DEF found
      <3>6. pc'[t] = "validate" /\ user'[t] = t /\ Op(t)' = Op(t)
        BY <1>0, <3>1 DEF TypeOK, Op
      <3>7. /\ single'[t].auth = AuthOf(Op(t).dest) /\ single'[t].transport = NoTripper
            /\ single'[t].base # Base => single'[t].base.auth = AuthOf(Op(t).dest)
        BY <1>0, <3>1, <3>4 DEF TypeOK
      <3>8. \A u \in Task \ {t} : pc'[u] = pc[u] /\ user'[u] = user[u]
        BY <1>0, <3>1 DEF TypeOK
      <3>9. Where(t)'
        BY <1>0, <3>2, <3>5, <3>6, <3>7, <3>8, Follows DEF Where, Inside
      <3>10. QED
        BY <3>1, <3>8, <3>9
    <2>5. CASE CloneBasic(t) \/ ClonePanics(t)
      <3>1. /\ Busy(t) /\ pc'[t] \in {"validate", "panic"} /\ UNCHANGED <<at, cand, user, rt, single>>
            /\ \A u \in Task \ {t} : pc'[u] = pc[u]
        BY <1>0, <2>5 DEF CloneBasic, ClonePanics, Goto, TypeOK, Busy
      <3>2. QED
        BY <1>0, <3>1, Outside
    <2>6. CASE Write(t)
      <3>1. PICK ok \in BOOLEAN : Answer(t, ok)
        BY <2>6 DEF Write
      <3>2. Busy(t) /\ UNCHANGED <<at, user, single>>
        BY <2>6 DEF Write, Busy
      <3>3. Where(t)'
        BY <1>0, <3>1, <3>2, AnswerWhere
      <3>4. \A u \in Task \ {t} : pc'[u] = pc[u] /\ cand'[u] = cand[u] /\ rt'[u] = rt[u]
        BY <1>0, <3>1, <3>2, Answered
      <3>5. QED
        BY <3>2, <3>3, <3>4
    <2>7. CASE Read(t)
      <3>1. PICK ok \in BOOLEAN : Responds(t, ok)
        BY <2>7 DEF Read
      <3>2. Busy(t) /\ UNCHANGED <<at, single, transportAccess, authn, transports>>
        BY <2>7 DEF Read, Busy
      <3>3. CASE Answer(t, ok) /\ UNCHANGED user
        <4>1. Where(t)'
          BY <1>0, <3>2, <3>3, AnswerWhere
        <4>2. \A u \in Task \ {t} : pc'[u] = pc[u] /\ cand'[u] = cand[u] /\ rt'[u] = rt[u]
          BY <1>0, <3>2, <3>3, Answered
        <4>3. QED
          BY <3>2, <3>3, <4>1, <4>2
      <3>4. CASE verb' = [verb EXCEPT ![t] = "get"] /\ UNCHANGED <<pc, cand, failed, user, rt>>
        BY <1>0, <3>2, <3>4, SamePlace
      <3>5. CASE /\ Op(t).kind = "mountable" /\ verb' = [verb EXCEPT ![t] = "read"]
                 /\ user' = [user EXCEPT ![t] = Op(t).client] /\ rt' = [rt EXCEPT ![t] = NoTripper]
                 /\ pc' = [pc EXCEPT ![t] = "lock"] /\ UNCHANGED <<cand, failed>>
        <4>1. pc'[t] = "lock" /\ user'[t] = Op(t).client /\ Op(t)' = Op(t) /\ user'[t] # t
          BY <1>0, <3>2, <3>5, Operations, ScheduleAssumption DEF TypeOK, Op
        <4>2. \A u \in Task \ {t} : pc'[u] = pc[u] /\ user'[u] = user[u] /\ rt'[u] = rt[u]
          BY <1>0, <3>5 DEF TypeOK
        <4>3. Where(t)'
          BY <1>0, <3>2, <4>1, <4>2, Follows DEF Where, Inside
        <4>4. QED
          BY <3>2, <3>5, <4>2, <4>3
      <3>6. QED
        BY <3>1, <3>3, <3>4, <3>5, Response
    <2>9. QED
      BY <2>1, <2>2, <2>3, <2>4, <2>5, <2>6, <2>7, <2>8
  <1>3. \A u \in Task \ {t} : Where(u)'
    BY <1>0, <1>1, <1>2, Others DEF Inv
  <1>4. QED
    BY <1>2, <1>3
\* The steps under the mutex.
LEMMA InsideWhere ==
    ASSUME Inv, NEW t \in Task,
           \/ Lock(t) \/ Lookup(t) \/ NoKeychain(t) \/ ResolveAuth(t) \/ CreateRoundTripper(t)
           \/ Pair(t) \/ TransportFails(t)
    PROVE  \A u \in Task : Where(u)'
  <1> USE DEF taskVars, lockVars, storeVars, progressVars
  <1>0. TypeOK /\ Stored /\ Where(t) /\ Busy(t) /\ user[t] \in Client /\ pc[t] # "done"
    BY DEF Inv, TypeOK, Busy, Lock, Lookup, NoKeychain, ResolveAuth, CreateRoundTripper, Pair, TransportFails
  <1>1. Target(t) \in Repo /\ ScopeOf(t) \in Scope /\ (IsWrite(t) <=> ScopeOf(t) = "push")
    BY <1>0, Operations
  <1>2. user[t] \in Shares \cup {"basic", t} /\ t \notin Shares \cup {"basic"} /\ Op(t).client \in Shares \cup {"basic"}
    BY <1>0, Operations, ScheduleAssumption DEF Where, Shares
  <1>3. user[t] \in Task <=> user[t] = t
    BY <1>2, ScheduleAssumption DEF Shares
  <1>4. at' = at /\ user' = user /\ Op(t)' = Op(t) /\ IsWrite(t)' = IsWrite(t) /\ ScopeOf(t)' = ScopeOf(t)
    BY DEF Op, IsWrite, ScopeOf, Lock, Lookup, NoKeychain, ResolveAuth, CreateRoundTripper, Pair, TransportFails
  <1>5. pc[t] \in Inside => transportAccess[user[t]] = t
    BY <1>0 DEF Where
  <1>6. ASSUME \A u \in Task \ {t} : pc'[u] = pc[u] /\ cand'[u] = cand[u] /\ rt'[u] = rt[u] /\ single'[u] = single[u],
               \A c \in Client : transportAccess'[c] = transportAccess[c] \/ transportAccess[c] \in {Free, t},
               \A c \in Client, r \in Repo : authn'[c][r] = authn[c][r] \/ c = t \/ transportAccess[c] = t,
               \A r \in Repo, m \in Scope :
                   \/ transports'[r][m] = transports[r][m]
                   \/ pc[t] = "create" /\ user[t] \in Shares /\ r = Target(t) /\ m = ScopeOf(t),
               Where(t)'
        PROVE  \A u \in Task : Where(u)'
    <2>1. \A u \in Task \ {t} : Where(u)'
      <3>1. \A u \in Task \ {t} : /\ pc'[u] = pc[u] /\ at'[u] = at[u] /\ cand'[u] = cand[u]
                                  /\ user'[u] = user[u] /\ rt'[u] = rt[u] /\ single'[u] = single[u]
        BY <1>4, <1>6
      <3>2. \A u \in Task : Where(u)
        BY DEF Inv
      <3>3. QED
        BY <1>0, <1>6, <3>1, <3>2, Others
    <2>2. QED
      BY <1>6, <2>1
  <1>7. CASE Lock(t)
    <2>1. /\ pc' = [pc EXCEPT ![t] = "lookup"] /\ transportAccess[user[t]] = Free
          /\ transportAccess' = [transportAccess EXCEPT ![user[t]] = t]
          /\ UNCHANGED <<rt, single, authn, transports>>
      BY <1>7 DEF Lock, Goto, TransportFree
    <2>2. \E i : cand' = [cand EXCEPT ![t] = i]
      BY <1>7 DEF Lock
    <2>3. \A u \in Task \ {t} : pc'[u] = pc[u] /\ cand'[u] = cand[u]
      BY <1>0, <2>1, <2>2 DEF TypeOK
    <2>4. pc'[t] = "lookup" /\ transportAccess'[user[t]] = t
      BY <1>0, <2>1 DEF TypeOK
    <2>5. Where(t)'
      BY <1>0, <1>4, <2>1, <2>3, <2>4, Follows DEF Where, Inside, Busy
    <2>6. \A c \in Client : transportAccess'[c] = transportAccess[c] \/ transportAccess[c] \in {Free, t}
      BY <1>0, <2>1 DEF TypeOK
    <2>7. QED
      BY <1>6, <2>1, <2>3, <2>5, <2>6
  <1>8. CASE Lookup(t)
    <2> DEFINE found == RoundTripper(user[t], Target(t), ScopeOf(t))
    <2>1. /\ pc[t] = "lookup" /\ pc' = [pc EXCEPT ![t] = IF found = NoTripper THEN "resolve" ELSE "pair"]
          /\ rt' = [rt EXCEPT ![t] = found] /\ UNCHANGED <<cand, transportAccess, single, authn, transports>>
      BY <1>8 DEF Lookup, Goto
    <2>2. user[t] = "basic" => found = NoTripper
      BY <1>3, <1>2, ScheduleAssumption DEF RoundTripper
    <2>3. user[t] = t => found = single[t].transport
      BY DEF RoundTripper
    <2>4. user[t] \in Shares /\ found = NoTripper => transports[Target(t)][ScopeOf(t)] = NoTripper
      BY <1>0, <1>1, RoundTripperShared
    <2>5. user[t] \in Shares /\ found # NoTripper =>
             \E k \in Scope : found = Proper(Target(t), k) /\ (ScopeOf(t) = "push" => k = "push")
      BY <1>0, <1>1, RoundTripperShared
    <2>6. user[t] = t => Op(t).kind = "mountable" /\ (found # NoTripper => found.auth = AuthOf(Op(t).dest))
      BY <1>0, <2>3 DEF Where
    <2> HIDE DEF found
    <2>7. pc'[t] = (IF found = NoTripper THEN "resolve" ELSE "pair") /\ rt'[t] = found
          /\ \A u \in Task \ {t} : pc'[u] = pc[u] /\ rt'[u] = rt[u]
      BY <1>0, <2>1 DEF TypeOK
    <2>8. Target(t)' = Target(t)
      BY <1>4, <2>1 DEF Target
    <2>9. Where(t)'
      <3>1. \A x \in After[t] : pc'[x] = "done"
        BY <1>0, <2>7, Follows
      <3>2. transportAccess[user[t]] = t
        BY <1>5, <2>1 DEF Inside
      <3>3. CASE found = NoTripper
        BY <1>0, <1>4, <2>1, <2>4, <2>7, <2>8, <3>1, <3>2, <3>3 DEF Where, Inside, Busy
      <3>4. CASE found # NoTripper
        <4>1. user[t] # t /\ user[t] # "basic" =>
                \E m \in Scope : /\ rt'[t] = Proper(Target(t), m) /\ (IsWrite(t) => m = "push")
          BY <1>1, <1>2, <2>5, <2>7, <3>4
        <4>2. QED
          BY <1>0, <1>4, <2>1, <2>6, <2>7, <2>8, <3>1, <3>2, <3>4, <4>1 DEF Where, Inside, Busy
      <3>5. QED
        BY <3>3, <3>4
    <2>10. QED
      BY <1>6, <2>1, <2>7, <2>9
  <1>9. CASE NoKeychain(t)
    <2>1. /\ pc' = [pc EXCEPT ![t] = "request"] /\ user[t] = "basic" /\ pc[t] = "resolve"
          /\ transportAccess' = [transportAccess EXCEPT ![user[t]] = Free]
          /\ UNCHANGED <<rt, cand, single, authn, transports>>
      BY <1>9 DEF NoKeychain, Goto
    <2>2. \A u \in Task \ {t} : pc'[u] = pc[u]
      BY <1>0, <2>1 DEF TypeOK
    <2>3. pc'[t] = "request"
      BY <1>0, <2>1 DEF TypeOK
    <2>4. Where(t)'
      BY <1>0, <1>2, <1>4, <2>1, <2>2, <2>3, Follows DEF Where, Inside, Busy
    <2>5. \A c \in Client : transportAccess'[c] = transportAccess[c] \/ transportAccess[c] \in {Free, t}
      BY <1>0, <1>5, <2>1 DEF TypeOK, Inside
    <2>6. QED
      BY <1>6, <2>1, <2>2, <2>4, <2>5
  <1>10. CASE ResolveAuth(t)
    <2>1. /\ pc' = [pc EXCEPT ![t] = "create"] /\ user[t] # "basic" /\ pc[t] = "resolve"
          /\ authn' = [authn EXCEPT ![user[t]][Target(t)] = Resolve(user[t], Target(t))]
          /\ UNCHANGED <<rt, cand, single, transportAccess, transports>>
      BY <1>10 DEF ResolveAuth, Goto
    <2>2. pc'[t] = "create" /\ \A u \in Task \ {t} : pc'[u] = pc[u]
      BY <1>0, <2>1 DEF TypeOK
    <2>3. Target(t)' = Target(t)
      BY <1>4, <2>1 DEF Target
    <2>4. authn'[user[t]][Target(t)] = Resolve(user[t], Target(t))
          /\ \A c \in Client, r \in Repo : authn'[c][r] = authn[c][r] \/ c = user[t]
      BY <1>0, <1>1, <2>1 DEF TypeOK
    <2>5. Resolve(user[t], Target(t))' = Resolve(user[t], Target(t)) /\ (authn[user[t]][Target(t)])' = authn'[user[t]][Target(t)]
      BY <1>4, <2>1, <2>3 DEF Resolve
    <2>6. Where(t)'
      <3>1. \A x \in After[t] : pc'[x] = "done"
        BY <1>0, <2>2, Follows
      <3>2. transportAccess[user[t]] = t
        BY <1>5, <2>1 DEF Inside
      <3>3. QED
        BY <1>0, <1>4, <2>1, <2>2, <2>3, <2>4, <2>5, <3>1, <3>2 DEF Where, Inside, Busy
    <2>7. transportAccess[user[t]] = t
      BY <1>5, <2>1 DEF Inside
    <2>8. QED
      BY <1>6, <2>1, <2>2, <2>4, <2>6, <2>7
  <1>11. CASE CreateRoundTripper(t)
    <2> DEFINE c == user[t]  r == Target(t)  m == ScopeOf(t)  tripper == Negotiated(c, r, m)
    <2>1. /\ pc[t] = "create" /\ pc' = [pc EXCEPT ![t] = "pair"] /\ rt' = [rt EXCEPT ![t] = tripper]
          /\ UNCHANGED <<cand, transportAccess, authn>>
          /\ IF c \in Task THEN single' = [single EXCEPT ![c].transport = tripper] /\ UNCHANGED transports
             ELSE transports' = [transports EXCEPT ![r][m] = tripper] /\ UNCHANGED single
      BY <1>11 DEF CreateRoundTripper, Goto
    <2>2. c # "basic" /\ authn[c][r] = Resolve(c, r) /\ transportAccess[c] = t
      BY <1>0, <1>5, <2>1 DEF Where, Inside
    <2>3. c \in Shares => tripper = Proper(r, m)
      <3>1. c \in Shares => c \notin Task
        BY <1>2, <1>3
      <3>2. QED
        BY <2>2, <3>1 DEF Negotiated, Proper, Resolve
    <2>4. c = t => tripper # NoTripper /\ tripper.auth = AuthOf(Op(t).dest)
      <3> SUFFICES ASSUME c = t PROVE tripper # NoTripper /\ tripper.auth = AuthOf(Op(t).dest)
        OBVIOUS
      <3>1. single[t].auth = AuthOf(Op(t).dest) /\ authn[c][r] = single[t].auth
            /\ (single[t].base # Base => single[t].base.auth = AuthOf(Op(t).dest))
        BY <1>0, <2>2 DEF Where, Resolve
      <3>2. CASE single[t].base = Base
        <4>1. tripper = [auth |-> authn[c][r], repo |-> r, scope |-> m]
          BY <3>2 DEF Negotiated
        <4>2. QED
          BY <3>1, <4>1, NotNil
      <3>3. CASE single[t].base # Base
        <4>1. single[t].base \in Tripper
          BY <1>0, <3>3 DEF TypeOK
        <4>2. tripper = single[t].base
          BY <3>3 DEF Negotiated
        <4>3. QED
          BY <3>1, <3>3, <4>1, <4>2, NotNil
      <3>4. QED
        BY <3>2, <3>3
    <2>5. c \in Shares => tripper # NoTripper
      BY <2>3, NotNil DEF Proper
    <2> HIDE DEF tripper
    <2>6. /\ pc'[t] = "pair" /\ rt'[t] = tripper
          /\ \A u \in Task \ {t} : pc'[u] = pc[u] /\ rt'[u] = rt[u]
      BY <1>0, <2>1 DEF TypeOK
    <2>7. \A u \in Task \ {t} : single'[u] = single[u]
      BY <1>0, <1>3, <2>1 DEF TypeOK
    <2>8. Target(t)' = Target(t)
      BY <1>4, <2>1 DEF Target
    <2>9. c = t => single'[t].auth = single[t].auth /\ single'[t].base = single[t].base /\ single'[t].transport = tripper
      BY <1>0, <2>1 DEF TypeOK
    <2>10. \A x \in Repo, k \in Scope : transports'[x][k] = transports[x][k] \/ (c \in Shares /\ x = r /\ k = m)
      <3>1. CASE c \in Task
        BY <2>1, <3>1
      <3>2. CASE c \notin Task
        <4>1. transports' = [transports EXCEPT ![r][m] = tripper] /\ c \in Shares
          BY <1>2, <2>1, <2>2, <3>2
        <4>2. QED
          BY <1>0, <4>1 DEF TypeOK
      <3>3. QED
        BY <3>1, <3>2
    <2>11. Where(t)'
      <3>1. \A x \in After[t] : pc'[x] = "done"
        BY <1>0, <2>6, Follows
      <3>2. CASE c = t
        BY <1>0, <1>4, <2>1, <2>2, <2>4, <2>6, <2>9, <3>1, <3>2 DEF Where, Inside, Busy
      <3>3. CASE c \in Shares
        <4>1. rt'[t] = Proper(r, m) /\ rt'[t] # NoTripper /\ user[t] # t
          BY <1>2, <2>3, <2>5, <2>6, <3>3
        <4>2. IsWrite(t) => m = "push"
          BY <1>1
        <4>3. \E k \in Scope : rt'[t] = Proper(Target(t)', k) /\ (IsWrite(t)' => k = "push")
          BY <1>1, <1>4, <2>8, <4>1, <4>2
        <4>4. QED
          BY <1>0, <1>4, <2>1, <2>2, <2>6, <2>8, <3>1, <4>1, <4>3 DEF Where, Inside, Busy
      <3>4. QED
        BY <1>2, <2>2, <3>2, <3>3
    <2>12. QED
      BY <1>6, <2>1, <2>6, <2>7, <2>10, <2>11
  <1>12. CASE Pair(t)
    <2> DEFINE c == user[t]  r == Target(t)
    <2>1. /\ pc[t] = "pair" /\ pc' = [pc EXCEPT ![t] = "request"]
          /\ authn' = [authn EXCEPT ![c][r] = IF @ = "none" THEN Resolve(c, r) ELSE @]
          /\ transportAccess' = [transportAccess EXCEPT ![c] = Free]
          /\ UNCHANGED <<rt, cand, single, transports>>
      BY <1>12 DEF Pair, Goto
    <2>2. pc'[t] = "request" /\ \A u \in Task \ {t} : pc'[u] = pc[u]
      BY <1>0, <2>1 DEF TypeOK
    <2>3. Target(t)' = Target(t) /\ transportAccess[c] = t
      BY <1>4, <1>5, <2>1 DEF Target, Inside
    <2>4. /\ \A x \in Client, y \in Repo : authn'[x][y] = authn[x][y] \/ x = c
          /\ \A x \in Client : transportAccess'[x] = transportAccess[x] \/ x = c
      BY <1>0, <1>1, <2>1 DEF TypeOK
    <2>5. Where(t)'
      <3>1. \A x \in After[t] : pc'[x] = "done"
        BY <1>0, <2>2, Follows
      <3>2. QED
        BY <1>0, <1>4, <2>1, <2>2, <2>3, <3>1 DEF Where, Inside, Busy
    <2>6. QED
      BY <1>6, <2>1, <2>2, <2>3, <2>4, <2>5
  <1>13. CASE TransportFails(t)
    <2>1. Answer(t, FALSE) /\ UNCHANGED <<single, authn, transports>> /\ pc[t] \in Inside
          /\ transportAccess' = [transportAccess EXCEPT ![user[t]] = Free]
      BY <1>13 DEF TransportFails, Unlocked, Inside
    <2>2. Where(t)'
      BY <1>0, <1>4, <2>1, AnswerWhere
    <2>3. \A u \in Task \ {t} : pc'[u] = pc[u] /\ cand'[u] = cand[u] /\ rt'[u] = rt[u]
      BY <1>0, <2>1, Answered
    <2>4. \A x \in Client : transportAccess'[x] = transportAccess[x] \/ transportAccess[x] = t
      BY <1>0, <1>5, <2>1 DEF TypeOK
    <2>5. QED
      BY <1>6, <2>1, <2>2, <2>3, <2>4
  <1>14. QED
    BY <1>7, <1>8, <1>9, <1>10, <1>11, <1>12, <1>13--------------------------------------------------------------------------------
\* What the shared storage has is saved once.
LEMMA StoredStep ==
    ASSUME Inv, [Next]_vars
    PROVE  Stored'
  <1> USE DEF taskVars, lockVars, storeVars, progressVars
  <1>1. CASE UNCHANGED <<transports, negotiated>>
    BY <1>1 DEF Inv, Stored
  <1>2. ASSUME NEW t \in Task, CreateRoundTripper(t)
        PROVE  Stored'
    <2> DEFINE c == user[t]  r == Target(t)  m == ScopeOf(t)  tripper == Negotiated(c, r, m)
    <2>1. TypeOK /\ Stored /\ Where(t) /\ pc[t] = "create" /\ Busy(t)
      BY <1>2 DEF Inv, CreateRoundTripper, Busy
    <2>2. CASE c \in Task
      BY <1>1, <1>2, <2>2 DEF CreateRoundTripper
    <2>3. CASE c \notin Task
      <3>1. c \in Shares
        BY <2>1, <2>3, Operations DEF Where, Shares
      <3>2. /\ transports' = [transports EXCEPT ![r][m] = tripper]
            /\ negotiated' = [negotiated EXCEPT ![r][m] = @ + 1]
        BY <1>2, <2>3 DEF CreateRoundTripper
      <3>3. transports[r][m] = NoTripper /\ authn[c][r] = AuthOf(r)
        BY <2>1, <2>3, <3>1 DEF Where, Resolve
      <3>4. tripper = Proper(r, m)
        BY <2>3, <3>3 DEF Negotiated, Proper
      <3>5. tripper # NoTripper
        BY <3>4, NotNil DEF Proper
      <3>6. r \in Repo /\ m \in Scope
        BY <2>1, Operations
      <3>7. negotiated[r][m] = 0
        BY <2>1, <3>3, <3>6 DEF Stored
      <3> HIDE DEF tripper
      <3>8. transports'[r][m] = tripper /\ negotiated'[r][m] = 1
        BY <2>1, <3>2, <3>6, <3>7 DEF TypeOK
      <3>9. \A x \in Repo, k \in Scope : x # r \/ k # m =>
               transports'[x][k] = transports[x][k] /\ negotiated'[x][k] = negotiated[x][k]
        BY <2>1, <3>2, <3>6 DEF TypeOK
      <3> SUFFICES ASSUME NEW x \in Repo, NEW k \in Scope
                   PROVE  /\ transports'[x][k] \in {NoTripper, Proper(x, k)}
                          /\ negotiated'[x][k] <= 1
                          /\ transports'[x][k] = NoTripper => negotiated'[x][k] = 0
        BY DEF Stored, Proper, AuthOf, Answers, EnvResolve, CustomResolve
      <3>10. CASE x = r /\ k = m
        BY <3>4, <3>5, <3>8, <3>10
      <3>11. CASE x # r \/ k # m
        BY <2>1, <3>9, <3>11 DEF Stored
      <3>12. QED
        BY <3>10, <3>11
    <2>4. QED
      BY <2>2, <2>3
  <1>3. ASSUME NEW t \in Task, Step(t) \/ ReaderEnds(t), ~CreateRoundTripper(t)
        PROVE  UNCHANGED <<transports, negotiated>>
    BY <1>3 DEF Step, Begin, Finish, Compare, Validate, Clone, CloneBasic, ClonePanics, Lock, Lookup, NoKeychain,
                ResolveAuth, TransportFails, RetryKeychain, Pair, Read, Send, Write, Return, ReaderEnds
  <1>4. CASE UNCHANGED vars
    BY <1>1, <1>4 DEF vars
  <1>5. QED
    BY <1>1, <1>2, <1>3, <1>4 DEF Next, Terminated

LEMMA InitInv == Init => Inv
  <1> SUFFICES ASSUME Init PROVE Inv
    OBVIOUS
  <1>1. TypeOK
    <2>1. \A t \in Task : Script[t] \in Seq(Operation) /\ Len(Script[t]) \in Nat
      BY ScriptAssumption
    <2>2. \A t \in Task : at[t] = 1 /\ pc[t] = "idle"
      BY DEF Init
    <2>3. \A t \in Task : at[t] \in 1..(Len(Script[t]) + 1)
      BY <2>1, <2>2
    <2>4. /\ transports \in [Repo -> [Scope -> Tripper \cup {NoTripper}]]
          /\ negotiated \in [Repo -> [Scope -> Nat]]
          /\ authn \in [Client -> [Repo -> Auth \cup {"none"}]]
      BY DEF Init
    <2>5. single \in [Task -> [auth : Auth \cup {"none"}, base : Tripper \cup {Base},
                               transport : Tripper \cup {NoTripper}]]
      BY DEF Init, NoClone
    <2>6. /\ faults \in 0..MaxFaults /\ tries \in [Task -> 0..(Tries - 1)] /\ sent \in [Task -> 0..MaxUpdates]
      BY NamesAssumption, CredentialsAssumption DEF Init
    <2>7. user \in [Task -> Client]
      BY DEF Init, Client
    <2>8. QED
      BY <2>2, <2>3, <2>4, <2>5, <2>6, <2>7 DEF Init, TypeOK
  <1>2. Stored
    BY DEF Init, Stored
  <1>3. \A t \in Task : Where(t)
    BY DEF Init, Where, Busy, Inside
  <1>4. QED
    BY <1>1, <1>2, <1>3 DEF Inv

LEMMA InvStep == Inv /\ [Next]_vars => Inv'
  <1> SUFFICES ASSUME Inv, [Next]_vars PROVE Inv'
    OBVIOUS
  <1>1. Stored'
    BY StoredStep
  <1>2. ASSUME NEW t \in Task, Step(t) \/ ReaderEnds(t)
        PROVE  TypeOK' /\ \A u \in Task : Where(u)'
    <2>1. TypeOK /\ Stored /\ \A u \in Task : Where(u)
      BY DEF Inv
    <2>2. CASE Begin(t) \/ Finish(t) \/ Compare(t) \/ CloneBasic(t) \/ ClonePanics(t) \/ Return(t)
      BY <2>1, <2>2, MovesTypes, OutsideWhere
    <2>3. CASE Send(t) \/ ReaderEnds(t) \/ RetryKeychain(t)
      <3>1. UNCHANGED <<pc, at, cand, user, rt, transportAccess, authn, transports, single>>
        BY <2>3 DEF Send, ReaderEnds, RetryKeychain, taskVars, lockVars, storeVars, progressVars
      <3>2. \A u \in Task : Where(u)'
        BY <2>1, <3>1, SamePlace
      <3>3. QED
        BY <2>1, <2>3, <3>2, MovesTypes
    <2>4. CASE Clone(t)
      BY <2>1, <2>4, TransportTypes, OutsideWhere
    <2>5. CASE \/ Lock(t) \/ Lookup(t) \/ NoKeychain(t) \/ ResolveAuth(t) \/ CreateRoundTripper(t) \/ Pair(t)
      BY <2>1, <2>5, TransportTypes, InsideWhere
    <2>6. CASE TransportFails(t)
      BY <2>1, <2>6, RequestTypes, InsideWhere
    <2>7. CASE Validate(t) \/ Read(t) \/ Write(t)
      BY <2>1, <2>7, RequestTypes, OutsideWhere
    <2>8. QED
      BY <1>2, <2>2, <2>3, <2>4, <2>5, <2>6, <2>7 DEF Step
  <1>3. CASE UNCHANGED vars
    <2>1. UNCHANGED <<pc, at, cand, user, rt, transportAccess, authn, transports, single>>
      BY <1>3 DEF vars, taskVars, lockVars, storeVars
    <2>2. \A u \in Task : Where(u)'
      BY <2>1, SamePlace DEF Inv
    <2>3. TypeOK'
      BY <1>3 DEF Inv, TypeOK, vars, taskVars, lockVars, storeVars, progressVars, Op
    <2>4. QED
      BY <1>1, <2>2, <2>3 DEF Inv
  <1>4. QED
    BY <1>1, <1>2, <1>3 DEF Inv, Next, Terminated

LEMMA Invariance == Spec => []Inv
  BY InitInv, InvStep, PTL DEF Spec

\* The variables of the client keep their types.
THEOREM TypesCorrect == Spec => []TypeOK
  <1>1. Inv => TypeOK
    BY DEF Inv
  <1>2. QED
    BY <1>1, Invariance, PTL

\* Every request goes out with what was negotiated for it (SimpleRegistry.transport):
\* credentials that match its repository, of those with one host the ones with the longest
\* path (EnvKeychain.collect, Resolve), the right to push for a write, and the destination's
\* credentials for the check whether an image can be mounted.
THEOREM Authorised == Spec => []RequestsAuthorised
  <1>1. Inv => RequestsAuthorised
    <2> SUFFICES ASSUME Inv, NEW t \in Task, pc[t] = "request", user[t] # "basic"
                 PROVE  IF user[t] \in Task THEN IsBest(rt[t].auth, Op(t).dest)
                        ELSE /\ IsBest(rt[t].auth, Target(t))
                             /\ IsWrite(t) => rt[t].scope = "push"
                             /\ \A i \in DOMAIN Op(t).repos : rt[t].repo = Op(t).repos[i] \/ Op(t).kind # "multiwrite"
      BY DEF RequestsAuthorised
    <2>1. TypeOK /\ Where(t) /\ Busy(t)
      BY DEF Inv, Busy
    <2>2. Op(t).dest \in Repo /\ Target(t) \in Repo /\ Op(t).client \notin Task
          /\ at[t] \in DOMAIN Script[t] /\ Op(t) = Script[t][at[t]]
          /\ cand[t] \in DOMAIN Op(t).repos /\ Target(t) = Op(t).repos[cand[t]]
      BY <2>1, Operations, ScheduleAssumption, ScriptAssumption
    <2>3. CASE user[t] \in Task
      <3>1. user[t] = t
        BY <2>1, <2>2, <2>3 DEF Where
      <3>2. rt[t].auth = AuthOf(Op(t).dest)
        BY <2>1, <3>1 DEF Where
      <3>3. QED
        BY <2>2, <2>3, <3>2, AuthOfIsBest
    <2>4. CASE user[t] \notin Task
      <3>1. PICK m \in Scope : rt[t] = Proper(Target(t), m) /\ (IsWrite(t) => m = "push")
        BY <2>1, <2>4 DEF Where
      <3>2. rt[t].auth = AuthOf(Target(t)) /\ rt[t].repo = Target(t) /\ rt[t].scope = m
        BY <3>1 DEF Proper
      <3>3. Op(t).kind = "multiwrite" => \A i \in DOMAIN Op(t).repos : Op(t).repos[i] = Target(t)
        BY <2>2, ScriptAssumption
      <3>4. QED
        BY <2>2, <2>4, <3>1, <3>2, <3>3, AuthOfIsBest
    <2>5. QED
      BY <2>3, <2>4
  <1>2. QED
    BY <1>1, Invariance, PTL

\* "We can only retrieve 1 RoundTripper at a time to ensure that we do not create the same
\* RoundTripper multiple times" (SimpleRegistry.transport): for every repository and scope
\* the shared storage negotiates once.
THEOREM Once == Spec => []NegotiatedOnce
  <1>1. Inv => NegotiatedOnce
    BY DEF Inv, Stored, NegotiatedOnce
  <1>2. QED
    BY <1>1, Invariance, PTL
================================================================================
