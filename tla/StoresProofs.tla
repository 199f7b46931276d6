---------------------------- MODULE StoresProofs ----------------------------
(***************************************************************************)
(* What the stores of a process promise, for any goroutines, keys, limits  *)
(* and times: the revocation feed, the single use of a login state and of  *)
(* a DPoP proof, the memo of access decisions, the limits of all these,    *)
(* the order of a manifest's resources, a grant that is polled for, and    *)
(* the writes that are asked for once.                                     *)
(***************************************************************************)
EXTENDS Stores, SequenceTheorems, FiniteSetTheorems, TLAPS

-----------------------------------------------------------------------------
(* The revocation feed. *)

Fetching(p) == pc[p] \in {"fetch", "fetched"}

(* A fetch is under way within fetchMu, and within its timeout. *)
Serialized ==
    \A p \in Callers : Fetching(p) =>
        fetchMu = p /\ started[p] <= now /\ now <= started[p] + MaxFetch

(* What a fetch brought is at least as recent as what is cached, and no older
   than the request. *)
DocsAreNewer ==
    \A p \in Callers : pc[p] = "fetched" =>
        \/ doc[p] = Never
        \/ entries <= doc[p] /\ started[p] <= doc[p] /\ doc[p] <= now

(* Unless it failed, the latest attempt brought the cached document, which is at
   most one fetch older than the end of that attempt. *)
CacheAge ==
    /\ entries <= now /\ lastAttempt <= now
    /\ ~failed => lastAttempt <= entries + MaxFetch

(* A caller about to answer found, or made, an attempt recent enough. *)
ReadersAreRecent ==
    \A p \in Callers :
        /\ began[p] <= now
        /\ pc[p] = "read" => began[p] < lastAttempt + Interval

IInv == TypeOK /\ Serialized /\ DocsAreNewer /\ CacheAge /\ ReadersAreRecent

-----------------------------------------------------------------------------
LEMMA InitIInv == Init => IInv
<1> SUFFICES ASSUME Init PROVE IInv
  OBVIOUS
<1> USE FeedConstants DEF Init, Never
<1>1. TypeOK
  <2>1. failed \in BOOLEAN /\ direct \subseteq Callers
    OBVIOUS
  <2> QED
    BY <2>1 DEF TypeOK, Times
<1>2. Serialized /\ DocsAreNewer
  BY DEF Serialized, DocsAreNewer, Fetching
<1>3. CacheAge /\ ReadersAreRecent
  BY DEF CacheAge, ReadersAreRecent
<1> QED
  BY <1>1, <1>2, <1>3 DEF IInv

LEMMA CallIInv ==
  ASSUME IInv, NEW p \in Callers, Call(p)
  PROVE  IInv'
<1> USE FeedConstants DEF IInv, TypeOK, Times, Call, Goto, Never
<1>1. TypeOK'
  OBVIOUS
<1>2. Serialized' /\ DocsAreNewer' /\ CacheAge'
  BY DEF Serialized, DocsAreNewer, CacheAge, Fetching
<1>3. ReadersAreRecent'
  BY DEF ReadersAreRecent, Recent
<1> QED
  BY <1>1, <1>2, <1>3

LEMMA CallRefreshIInv ==
  ASSUME IInv, NEW p \in Callers, CallRefresh(p)
  PROVE  IInv'
<1> USE FeedConstants DEF IInv, TypeOK, Times, CallRefresh, Goto, Never
<1>1. TypeOK'
  OBVIOUS
<1>2. Serialized' /\ DocsAreNewer' /\ CacheAge'
  BY DEF Serialized, DocsAreNewer, CacheAge, Fetching
<1>3. ReadersAreRecent'
  BY DEF ReadersAreRecent
<1> QED
  BY <1>1, <1>2, <1>3

LEMMA StartFetchIInv ==
  ASSUME IInv, NEW p \in Callers, StartFetch(p)
  PROVE  IInv'
<1> USE FeedConstants DEF IInv, TypeOK, Times, StartFetch, Goto, Never
<1>1. TypeOK'
  OBVIOUS
<1>2. Serialized'
  BY DEF Serialized, Fetching
<1>3. DocsAreNewer'
  BY DEF Serialized, DocsAreNewer, Fetching
<1>4. CacheAge' /\ ReadersAreRecent'
  BY DEF CacheAge, ReadersAreRecent
<1> QED
  BY <1>1, <1>2, <1>3, <1>4

LEMMA FetchedIInv ==
  ASSUME IInv, NEW p \in Callers, Fetched(p)
  PROVE  IInv'
<1> USE FeedConstants DEF IInv, TypeOK, Times, Fetched, Render, FetchFails, Goto, Never
<1>1. TypeOK'
  OBVIOUS
<1>2. Serialized'
  BY DEF Serialized, Fetching
<1>3. DocsAreNewer'
  BY DEF Serialized, DocsAreNewer, Fetching, CacheAge
<1>4. CacheAge' /\ ReadersAreRecent'
  BY DEF CacheAge, ReadersAreRecent
<1> QED
  BY <1>1, <1>2, <1>3, <1>4

(* Only the holder of fetchMu updates the cache, so no other fetch's document
   can be overtaken. *)
LEMMA UpdateIInv ==
  ASSUME IInv, NEW p \in Callers, Update(p)
  PROVE  IInv' /\ entries' >= entries
<1> USE FeedConstants DEF IInv, TypeOK, Times, Update, Cache, Record, Release, AfterFetch, Goto, Never
<1>1. entries' >= entries
  BY DEF DocsAreNewer
<1>2. TypeOK'
  OBVIOUS
<1>3. \A q \in Callers : Fetching(q)' => FALSE
  BY DEF Serialized, Fetching
<1>4. Serialized' /\ DocsAreNewer'
  BY <1>3 DEF Serialized, DocsAreNewer, Fetching
<1>5. CacheAge'
  <2>1. now <= started[p] + MaxFetch
    BY DEF Serialized, Fetching
  <2>2. entries' <= now' /\ lastAttempt' <= now'
    BY DEF CacheAge, DocsAreNewer
  <2>3. CASE doc[p] = Never
    BY <2>2, <2>3 DEF CacheAge
  <2>4. CASE doc[p] # Never
    BY <2>1, <2>2, <2>4 DEF CacheAge, DocsAreNewer
  <2> QED
    BY <2>3, <2>4
<1>6. ReadersAreRecent'
  BY DEF ReadersAreRecent, CacheAge
<1> QED
  BY <1>1, <1>2, <1>4, <1>5, <1>6

LEMMA NextIInv == IInv /\ [Next]_vars => IInv' /\ entries' >= entries
<1> SUFFICES ASSUME IInv, [Next]_vars PROVE IInv' /\ entries' >= entries
  OBVIOUS
<1>0. UNCHANGED entries => entries' >= entries
  BY DEF IInv, TypeOK, Times
<1>1. ASSUME NEW p \in Callers, Call(p) PROVE IInv' /\ entries' >= entries
  BY <1>0, <1>1, CallIInv DEF Call
<1>2. ASSUME NEW p \in Callers, CallRefresh(p) PROVE IInv' /\ entries' >= entries
  BY <1>0, <1>2, CallRefreshIInv DEF CallRefresh
<1>3. ASSUME NEW p \in Callers, StartFetch(p) PROVE IInv' /\ entries' >= entries
  BY <1>0, <1>3, StartFetchIInv DEF StartFetch
<1>4. ASSUME NEW p \in Callers, Fetched(p) PROVE IInv' /\ entries' >= entries
  BY <1>0, <1>4, FetchedIInv DEF Fetched, Render, FetchFails
<1>5. ASSUME NEW p \in Callers, Update(p) PROVE IInv' /\ entries' >= entries
  BY <1>5, UpdateIInv
<1> USE FeedConstants DEF IInv, TypeOK, Times, Serialized, DocsAreNewer, CacheAge,
        ReadersAreRecent, Fetching
<1>6. ASSUME NEW p \in Callers, Answer(p) PROVE IInv' /\ entries' >= entries
  BY <1>6 DEF Answer, Goto, Never
<1>7. CASE Revoke
  BY <1>7 DEF Revoke
<1>8. CASE Tick
  BY <1>8 DEF Tick
<1>9. CASE UNCHANGED vars
  BY <1>9 DEF vars
<1> QED
  BY <1>1, <1>2, <1>3, <1>4, <1>5, <1>6, <1>7, <1>8, <1>9 DEF Next, Progress

LEMMA Inductive == Spec => []IInv
  BY InitIInv, NextIInv, PTL DEF Spec

(* The variables keep their types. *)
THEOREM TypeCorrect == Spec => []TypeOK
<1>1. IInv => TypeOK
  BY DEF IInv
<1> QED
  BY <1>1, Inductive, PTL

(* The cache never goes back to an older document (feed.go:206-207). *)
THEOREM SetNeverForgets == Spec => NeverForgets
<1>1. IInv /\ [Next]_vars => [entries' >= entries]_vars
  BY NextIInv
<1> QED
  BY <1>1, Inductive, PTL DEF Spec, NeverForgets

(* Unless the latest fetch failed, a session revoked one interval and one fetch
   before a call began is reported to it (feed.go:196-205). *)
THEOREM AnswersAreTimely == Spec => []TimelyAnswer
<1>1. IInv => TimelyAnswer
  <2> SUFFICES ASSUME IInv, NEW p \in Callers, pc[p] = "read", ~failed, revoked # Never,
                      revoked + Interval + MaxFetch <= began[p]
               PROVE  Listed
    BY DEF TimelyAnswer
  <2> USE FeedConstants DEF IInv, TypeOK, Times, Never
  <2>1. began[p] < lastAttempt + Interval /\ lastAttempt <= entries + MaxFetch
    BY DEF ReadersAreRecent, CacheAge
  <2>2. revoked <= entries
    BY <2>1
  <2> QED
    BY <2>2 DEF Listed
<1> QED
  BY <1>1, Inductive, PTL

-----------------------------------------------------------------------------
(* The stores in use one at a time. *)

(* The steps of the other stores end a behavior's interest in this one. *)
LEMMA FocusIsKept == [StoresNext]_stores => focus' = focus
  BY DEF StoresNext, FeedStep, FeedRests, MemoStep, JtiStep, LoginStep, PollStep, RemoteStep, OrderStep, stores

-----------------------------------------------------------------------------
(* An entry dates from its login; it is gone once a callback got past the
   store, and otherwise stays until the TTL is over. *)
EntryOfLogin ==
    \A s \in States :
        /\ startedAt[s] = 0 => held[s] = 0 /\ entered[s] = 0
        /\ held[s] # 0 => held[s] = startedAt[s] + StateTTL /\ entered[s] = 0
        /\ startedAt[s] # 0 /\ held[s] = 0 => entered[s] = 1 \/ now > startedAt[s] + StateTTL

(* The strengthening of LoginsOnce. *)
LInv == focus = "login" => Login!TypeOK /\ Login!OneCallback /\ EntryOfLogin

LEMMA InitLInv == StoresInit => LInv
<1> SUFFICES ASSUME StoresInit PROVE Login!TypeOK /\ Login!OneCallback /\ EntryOfLogin
  BY DEF LInv
<1> QED
  BY StoresConstants DEF StoresInit, Login!LInit, Login!TypeOK, Login!OneCallback, EntryOfLogin,
     Login!LoginConstants, Login!Free

LEMMA NextLInv == LInv /\ [StoresNext]_stores => LInv'
<1> SUFFICES ASSUME LInv, [StoresNext]_stores, focus = "login" PROVE LInv'
  BY FocusIsKept DEF LInv
<1> USE StoresConstants DEF LInv, Login!TypeOK, Login!OneCallback, EntryOfLogin, Login!LoginConstants
<1>1. focus' = "login"
  BY FocusIsKept
<1>2. CASE Login!LTick
  BY <1>1, <1>2 DEF Login!LTick
<1>3. ASSUME NEW s \in States, Login!Login(s) PROVE LInv'
  BY <1>1, <1>3 DEF Login!Login, Login!Swept
<1>4. ASSUME NEW h \in Callers, NEW s \in States, Login!Callback(h, s) PROVE LInv'
  <2>1. CASE Login!Usable(s)
    BY <1>1, <1>4, <2>1 DEF Login!Callback, Login!Consumed, Login!Usable
  <2>2. CASE ~Login!Usable(s)
    BY <1>1, <1>4, <2>2 DEF Login!Callback, Login!Consumed, Login!Usable
  <2> QED
    BY <2>1, <2>2
<1>5. ASSUME NEW h \in Callers, Login!Exchanged(h) PROVE LInv'
  BY <1>1, <1>5 DEF Login!Exchanged
<1>6. CASE UNCHANGED stores
  BY <1>1, <1>6 DEF stores, logins
<1> QED
  BY <1>2, <1>3, <1>4, <1>5, <1>6
     DEF StoresNext, FeedStep, FeedRests, MemoStep, JtiStep, LoginStep, PollStep, RemoteStep, OrderStep, Login!LNext

LEMMA InductiveLInv == StoresSpec => []LInv
  BY InitLInv, NextLInv, PTL DEF StoresSpec

(* However often a callback is delivered, and however many handlers serve it
   at once, one of them redeems the code (middleware/oidc_login.go). *)
THEOREM LoginsServedOnce == StoresSpec => []LoginsOnce
<1>1. LInv => LoginsOnce
  BY DEF LInv, LoginsOnce
<1> QED
  BY <1>1, InductiveLInv, PTL

(* The one that does comes within the TTL, and the first that comes within the
   TTL is the one (oidc_state.go). *)
THEOREM LoginsServedInTime == StoresSpec => LoginsInTime
<1>1. ASSUME LInv, [StoresNext]_stores PROVE [Login!InTime /\ Login!FirstInTimeServed]_stores
  <2> SUFFICES ASSUME StoresNext PROVE Login!InTime /\ Login!FirstInTimeServed
    BY <1>1
  <2> USE StoresConstants DEF Login!InTime, Login!FirstInTimeServed, Login!LoginConstants
  <2>1. CASE UNCHANGED logins
    BY <2>1 DEF logins
  <2>2. CASE LoginStep
    <3> USE <1>1, <2>2 DEF LInv, LoginStep, Login!TypeOK, EntryOfLogin
    <3>1. ASSUME NEW h \in Callers, NEW s \in States, Login!Callback(h, s)
          PROVE Login!InTime /\ Login!FirstInTimeServed
      BY <3>1 DEF Login!Callback, Login!Usable
    <3>2. CASE Login!LTick \/ (\E s \in States : Login!Login(s)) \/ \E h \in Callers : Login!Exchanged(h)
      BY <3>2 DEF Login!LTick, Login!Login, Login!Exchanged
    <3> QED
      BY <3>1, <3>2 DEF Login!LNext
  <2> QED
    BY <2>1, <2>2 DEF StoresNext, FeedStep, FeedRests, MemoStep, JtiStep, PollStep, RemoteStep, OrderStep
<1> QED
  BY <1>1, InductiveLInv, PTL DEF StoresSpec, LoginsInTime

-----------------------------------------------------------------------------
(* A goroutine claims the jti of a proof that verified, by a clock that was
   read; an accepted jti keeps its entry while its proof is fresh. *)
ClaimsAreProven ==
    /\ \A v \in Callers : claiming[v] # Jti!Free =>
          claiming[v].jti \in proven /\ claiming[v].clock <= now
    /\ \A j \in accepted : now < IatOf[j] + Leeway => seen[j] = IatOf[j] + Leeway

(* The strengthening of ProofsOnce. *)
JInv == focus = "jti" => Jti!TypeOK /\ Jti!NotBurnt /\ ClaimsAreProven

(* Pruning takes no entry that the clock it goes by finds alive. *)
LEMMA PruningSpares ==
  ASSUME seen \in [Jtis -> Nat], NEW clock \in Nat
  PROVE  /\ Jti!Pruned(clock) \in [Jtis -> Nat]
         /\ \A j \in Jtis : \/ Jti!Pruned(clock)[j] = seen[j]
                            \/ (Jti!Pruned(clock)[j] = 0 /\ seen[j] <= clock)
<1>1. CASE Cardinality(Jti!Held(seen)) > PruneAbove
  BY <1>1 DEF Jti!Pruned
<1>2. CASE ~(Cardinality(Jti!Held(seen)) > PruneAbove)
  BY <1>2 DEF Jti!Pruned
<1> QED
  BY <1>1, <1>2

LEMMA InitJInv == StoresInit => JInv
<1> SUFFICES ASSUME StoresInit PROVE Jti!TypeOK /\ Jti!NotBurnt /\ ClaimsAreProven
  BY DEF JInv
<1> QED
  BY StoresConstants DEF StoresInit, Jti!JInit, Jti!TypeOK, Jti!NotBurnt, Jti!Held, ClaimsAreProven,
     Jti!JtiConstants, Jti!Free

LEMMA NextJInv == JInv /\ [StoresNext]_stores => JInv'
<1> SUFFICES ASSUME JInv, [StoresNext]_stores, focus = "jti" PROVE JInv'
  BY FocusIsKept DEF JInv
<1> USE StoresConstants DEF JInv, Jti!TypeOK, Jti!NotBurnt, Jti!Held, ClaimsAreProven, Jti!JtiConstants
<1>1. focus' = "jti"
  BY FocusIsKept
<1>2. CASE Jti!JTick
  BY <1>1, <1>2 DEF Jti!JTick
<1>3. ASSUME NEW v \in Callers, NEW j \in Jtis, NEW sound \in BOOLEAN, Jti!VerifyProof(v, j, sound)
      PROVE JInv'
  BY <1>1, <1>3 DEF Jti!VerifyProof, Jti!MayClaim, Jti!Free
<1>4. ASSUME NEW v \in Callers, Jti!ReadClock(v) PROVE JInv'
  BY <1>1, <1>4 DEF Jti!ReadClock, Jti!Free
<1>5. ASSUME NEW v \in Callers, Jti!Claim(v) PROVE JInv'
  <2> DEFINE j == claiming[v].jti
             clock == claiming[v].clock
             store == Jti!Pruned(clock)
  <2>1. claiming[v] # Jti!Free /\ j \in Jtis /\ clock \in Nat /\ clock <= now /\ j \in proven
    BY <1>5 DEF Jti!Claim, Jti!Free
  <2>2. /\ store \in [Jtis -> Nat]
        /\ \A i \in Jtis : store[i] = seen[i] \/ (store[i] = 0 /\ seen[i] <= clock)
    <3>1. seen \in [Jtis -> Nat] /\ clock \in Nat
      BY <2>1
    <3> HIDE DEF clock, JInv, Jti!TypeOK, Jti!NotBurnt, Jti!Held, ClaimsAreProven
    <3> QED
      BY <3>1, PruningSpares
  <2>3. /\ now' = now /\ proven' = proven
        /\ claiming' = [claiming EXCEPT ![v] = Jti!Free]
    BY <1>5 DEF Jti!Claim
  <2>4. \/ /\ seen' = store /\ accepted' = accepted
        \/ /\ seen' = [store EXCEPT ![j] = IatOf[j] + Leeway]
           /\ accepted' = accepted \union {j}
    BY <1>5 DEF Jti!Claim, Jti!Expiry
  <2> HIDE DEF j, clock, store
  <2>5. IatOf[j] + Leeway \in Nat
    BY <2>1
  <2> QED
    BY <1>1, <2>1, <2>2, <2>3, <2>4, <2>5
<1>6. CASE UNCHANGED stores
  BY <1>1, <1>6 DEF stores, jtis
<1> QED
  BY <1>2, <1>3, <1>4, <1>5, <1>6
     DEF StoresNext, FeedStep, FeedRests, MemoStep, JtiStep, LoginStep, PollStep, RemoteStep, OrderStep, Jti!JNext

(* The store knows the jti of a proof it accepted as long as the proof is fresh, but
   for the last instant of that, which ClaimHolds excepts; and a jti whose proof did
   not verify is never spent (internal/dpop/dpop.go). *)
THEOREM ProofsAcceptedOnce == StoresSpec => []ProofsOnce
<1>1. JInv => ProofsOnce
  <2>1. ASSUME Jti!TypeOK, ClaimsAreProven,
               NEW j \in accepted, now <= IatOf[j] + Leeway, ~Jti!LastInstant(j)
        PROVE  seen[j] > now
    <3>1. now \in Nat /\ IatOf[j] + Leeway \in Nat /\ now # IatOf[j] + Leeway
      BY <2>1, StoresConstants DEF Jti!JtiConstants, Jti!TypeOK, Jti!LastInstant, Jti!Expiry
    <3>2. now < IatOf[j] + Leeway
      BY <2>1, <3>1
    <3>3. seen[j] = IatOf[j] + Leeway
      BY <2>1, <3>2 DEF ClaimsAreProven
    <3> QED
      BY <3>1, <3>2, <3>3
  <2> QED
    BY <2>1 DEF JInv, ProofsOnce, Jti!ClaimHolds
<1>2. StoresSpec => []JInv
  BY InitJInv, NextJInv, PTL DEF StoresSpec
<1> QED
  BY <1>1, <1>2, PTL

-----------------------------------------------------------------------------
(* The memo of access decisions. *)

(* A list that holds the entries of a map, each once. *)
Lists(q, e) ==
    /\ q \in Seq(Keys)
    /\ \A i, j \in 1 .. Len(q) : q[i] = q[j] => i = j
    /\ \A i \in 1 .. Len(q) : e[q[i]] # Memo!Absent
    /\ \A k \in Keys : e[k] # Memo!Absent => \E i \in 1 .. Len(q) : q[i] = k

(* ... and the older ones first. *)
Sorted(q, e) ==
    \A i, j \in 1 .. Len(q) : i <= j => e[q[i]].storedAt <= e[q[j]].storedAt

(* An entry was stored by now, and the server gave its answer no longer before
   that than a request takes. *)
EntriesStamped ==
    \A k \in Keys :
        /\ changedAt[k] <= now
        /\ Memo!Present(k) =>
              /\ 1 <= memoized[k].storedAt /\ memoized[k].storedAt <= now
              /\ memoized[k].allowed # truth[k] => memoized[k].storedAt <= changedAt[k] + MaxFlight

Asked == [at : {"idle"}] \union [at : {"sent"}, key : Keys, since : Nat]
           \union [at : {"judged"}, key : Keys, since : Nat, allowed : BOOLEAN]

(* A request is under way within its time, and an answer that no longer holds
   stopped holding after the request was sent. *)
RequestsStamped ==
    /\ ask \in [Callers -> Asked]
    /\ \A a \in Callers : ask[a].at # "idle" =>
          /\ ask[a].since <= now /\ now <= ask[a].since + MaxFlight
          /\ ask[a].at = "judged" /\ ask[a].allowed # truth[ask[a].key] =>
                ask[a].since <= changedAt[ask[a].key]

MemoInv ==
    /\ Memo!TypeOK /\ EntriesStamped /\ RequestsStamped
    /\ Lists(order, memoized) /\ Sorted(order, memoized) /\ Len(order) <= MaxEntries

(* The strengthening of MemoHolds. *)
MInv == focus = "memo" => MemoInv

(* A sequence without one of its elements. *)
LEMMA RemoveAtIs ==
  ASSUME NEW S, NEW s \in Seq(S), NEW n \in 1 .. Len(s)
  PROVE  /\ Memo!RemoveAt(s, n) \in Seq(S)
         /\ Len(Memo!RemoveAt(s, n)) = Len(s) - 1
         /\ \A i \in 1 .. Len(s) - 1 :
               Memo!RemoveAt(s, n)[i] = IF i < n THEN s[i] ELSE s[i + 1]
<1> DEFINE f == SubSeq(s, 1, n - 1)
           g == SubSeq(s, n + 1, Len(s))
<1>0. Len(s) \in Nat /\ n \in Int /\ \A i \in 1 .. Len(s) : s[i] \in S
  OBVIOUS
<1>1. /\ f \in Seq(S) /\ Len(f) = n - 1
      /\ \A i \in 1 .. n - 1 : f[i] = s[i]
  <2>1. \A i \in 1 .. n - 1 : s[i] \in S
    BY <1>0
  <2>2. /\ f \in Seq(S)
        /\ Len(f) = IF 1 <= n - 1 THEN n - 1 - 1 + 1 ELSE 0
        /\ \A i \in 1 .. n - 1 - 1 + 1 : f[i] = s[1 + i - 1]
    BY <1>0, <2>1, SubSeqProperties
  <2> HIDE DEF f
  <2>3. Len(f) = n - 1
    BY <1>0, <2>2
  <2>4. ASSUME NEW i \in 1 .. n - 1 PROVE f[i] = s[i]
    <3>1. i \in 1 .. n - 1 - 1 + 1 /\ 1 + i - 1 = i
      BY <1>0
    <3> QED
      BY <2>2, <3>1
  <2> QED
    BY <2>2, <2>3, <2>4
<1>2. /\ g \in Seq(S) /\ Len(g) = Len(s) - n
      /\ \A i \in 1 .. Len(s) - n : g[i] = s[n + i]
  <2>1. \A i \in n + 1 .. Len(s) : s[i] \in S
    BY <1>0
  <2>2. /\ g \in Seq(S)
        /\ Len(g) = IF n + 1 <= Len(s) THEN Len(s) - (n + 1) + 1 ELSE 0
        /\ \A i \in 1 .. Len(s) - (n + 1) + 1 : g[i] = s[n + 1 + i - 1]
    BY <1>0, <2>1, SubSeqProperties
  <2> HIDE DEF g
  <2> QED
    BY <1>0, <2>2
<1>3. Memo!RemoveAt(s, n) = f \o g
  BY DEF Memo!RemoveAt
<1> HIDE DEF f, g
<1>4. /\ f \o g \in Seq(S) /\ Len(f \o g) = Len(f) + Len(g)
      /\ \A i \in 1 .. Len(f) + Len(g) : (f \o g)[i] = IF i <= Len(f) THEN f[i] ELSE g[i - Len(f)]
  BY <1>1, <1>2, ConcatProperties
<1>5. ASSUME NEW i \in 1 .. Len(s) - 1 PROVE (f \o g)[i] = IF i < n THEN s[i] ELSE s[i + 1]
  <2>1. CASE i < n
    BY <1>0, <1>1, <1>2, <1>4, <2>1
  <2>2. CASE ~(i < n)
    <3>1. /\ i \in 1 .. Len(f) + Len(g) /\ ~(i <= Len(f))
          /\ i - Len(f) \in 1 .. Len(s) - n /\ n + (i - Len(f)) = i + 1
      BY <1>0, <1>1, <1>2, <2>2
    <3>2. (f \o g)[i] = g[i - Len(f)]
      BY <1>4, <3>1
    <3> QED
      BY <1>2, <2>2, <3>1, <3>2
  <2> QED
    BY <2>1, <2>2
<1>6. Len(f \o g) = Len(s) - 1
  BY <1>0, <1>1, <1>2, <1>4
<1> QED
  BY <1>3, <1>4, <1>5, <1>6

(* The list without the element of a key has all the others, in their order. *)
LEMMA WithoutIs ==
  ASSUME Lists(order, memoized), NEW k \in Keys
  PROVE  /\ Memo!Without(k) \in Seq(Keys)
         /\ Len(Memo!Without(k)) <= Len(order)
         /\ \A i \in 1 .. Len(Memo!Without(k)) : Memo!Without(k)[i] # k
         /\ \A j \in Keys : memoized[j] # Memo!Absent /\ j # k =>
               \E i \in 1 .. Len(Memo!Without(k)) : Memo!Without(k)[i] = j
         /\ \A i, j \in 1 .. Len(Memo!Without(k)) : i <= j =>
               \E m, n \in 1 .. Len(order) :
                  /\ m <= n /\ (i < j => m < n)
                  /\ order[m] = Memo!Without(k)[i] /\ order[n] = Memo!Without(k)[j]
<1> DEFINE w == Memo!Without(k)
<1>0. order \in Seq(Keys) /\ Len(order) \in Nat /\ DOMAIN order = 1 .. Len(order)
  BY DEF Lists
<1>1. CASE memoized[k] = Memo!Absent
  <2>1. w = order
    BY <1>1 DEF Memo!Without, Memo!Present
  <2>2. \A i \in 1 .. Len(order) : order[i] # k
    BY <1>1 DEF Lists
  <2>3. \A j \in Keys : memoized[j] # Memo!Absent => \E i \in 1 .. Len(order) : order[i] = j
    BY DEF Lists
  <2> HIDE DEF w
  <2> QED
    BY <1>0, <2>1, <2>2, <2>3 DEF w
<1>2. CASE memoized[k] # Memo!Absent
  <2> DEFINE p == CHOOSE i \in DOMAIN order : order[i] = k
  <2>1. p \in 1 .. Len(order) /\ order[p] = k
    BY <1>0, <1>2 DEF Lists
  <2>2. w = Memo!RemoveAt(order, p)
    BY <1>2 DEF Memo!Without, Memo!Present
  <2> HIDE DEF p, w
  <2>3. /\ w \in Seq(Keys) /\ Len(w) = Len(order) - 1
        /\ \A i \in 1 .. Len(order) - 1 : w[i] = IF i < p THEN order[i] ELSE order[i + 1]
    BY <1>0, <2>1, <2>2, RemoveAtIs
  <2>4. \A i \in 1 .. Len(order) : order[i] = k => i = p
    BY <2>1 DEF Lists
  <2> DEFINE Old(i) == IF i < p THEN i ELSE i + 1
  <2>5. \A i \in 1 .. Len(w) : Old(i) \in 1 .. Len(order) /\ Old(i) # p /\ order[Old(i)] = w[i]
    BY <1>0, <2>1, <2>3
  <2>6. \A i, j \in 1 .. Len(w) : (i <= j => Old(i) <= Old(j)) /\ (i < j => Old(i) < Old(j))
    BY <1>0, <2>1, <2>3
  <2>7. ASSUME NEW j \in Keys, memoized[j] # Memo!Absent, j # k
        PROVE  \E i \in 1 .. Len(w) : w[i] = j
    <3>1. PICK i \in 1 .. Len(order) : order[i] = j
      BY <2>7 DEF Lists
    <3>2. i # p
      BY <2>1, <2>7, <3>1
    <3>3. CASE i < p
      BY <1>0, <2>1, <2>3, <3>1, <3>3
    <3>4. CASE p < i
      <4>1. i - 1 \in 1 .. Len(w) /\ ~(i - 1 < p) /\ (i - 1) + 1 = i
        BY <1>0, <2>1, <2>3, <3>4
      <4> QED
        BY <2>3, <3>1, <4>1
    <3> QED
      BY <1>0, <2>1, <3>2, <3>3, <3>4
  <2>8. \A i \in 1 .. Len(w) : w[i] # k
    BY <2>4, <2>5
  <2> HIDE DEF Old
  <2>9. \A i, j \in 1 .. Len(w) : i <= j =>
           \E m, n \in 1 .. Len(order) :
              m <= n /\ (i < j => m < n) /\ order[m] = w[i] /\ order[n] = w[j]
    BY <2>5, <2>6
  <2>10. Len(w) <= Len(order)
    BY <1>0, <2>3
  <2> QED
    BY <2>3, <2>7, <2>8, <2>9, <2>10 DEF w
<1> QED
  BY <1>1, <1>2

(* A list changed in step with its map. *)
LEMMA QueuedIs ==
  ASSUME MemoInv, NEW a \in Callers, Memo!Answer(a)
  PROVE  LET k == ask[a].key
             w == Memo!Without(k)
             e == [allowed |-> ask[a].allowed, storedAt |-> now]
         IN  /\ k \in Keys /\ ask[a].allowed \in BOOLEAN /\ ask[a].since \in Nat
             /\ \/ /\ Len(w) < MaxEntries
                   /\ order' = Append(w, k)
                   /\ memoized' = [memoized EXCEPT ![k] = e]
                \/ /\ Len(w) = MaxEntries /\ w[1] \in Keys /\ w[1] # k
                   /\ order' = Tail(Append(w, k))
                   /\ memoized' = [memoized EXCEPT ![k] = e, ![w[1]] = Memo!Absent]
<1> DEFINE k == ask[a].key
           w == Memo!Without(k)
           e == [allowed |-> ask[a].allowed, storedAt |-> now]
           queue == Append(w, k)
<1>1. k \in Keys /\ ask[a].allowed \in BOOLEAN /\ ask[a].since \in Nat
  BY DEF MemoInv, RequestsStamped, Asked, Memo!Answer
<1>2. MaxEntries \in Nat /\ MaxEntries # 0
  BY StoresConstants DEF Memo!MemoConstants
<1>3. /\ w \in Seq(Keys) /\ Len(w) <= Len(order) /\ Len(order) <= MaxEntries
      /\ \A i \in 1 .. Len(w) : w[i] # k
  <2>1. Lists(order, memoized) /\ Len(order) <= MaxEntries
    BY DEF MemoInv
  <2> HIDE DEF k
  <2> QED
    BY <1>1, <2>1, WithoutIs
<1>4. /\ memoized \in [Keys -> [allowed : BOOLEAN, storedAt : 0 .. MemoTime]]
      /\ Len(order) \in Nat
  BY DEF MemoInv, Memo!TypeOK
<1>5. Memo!Queued(k) = queue
  BY DEF Memo!Queued
<1>6. /\ queue \in Seq(Keys) /\ Len(queue) = Len(w) + 1 /\ Len(w) \in Nat
      /\ \A i \in 1 .. Len(w) : queue[i] = w[i]
  <2> HIDE DEF w, k
  <2> QED
    BY <1>1, <1>3
<1>7. CASE Len(w) < MaxEntries
  <2>1. ~(Len(queue) > MaxEntries)
    BY <1>2, <1>6, <1>7
  <2>2. order' = queue /\ memoized' = [j \in Keys |-> IF j = k THEN e ELSE memoized[j]]
    BY <1>5, <2>1 DEF Memo!Answer
  <2> HIDE DEF w, k, e
  <2>3. memoized' = [memoized EXCEPT ![k] = e]
    BY <1>1, <1>4, <2>2
  <2> QED
    BY <1>1, <1>7, <2>2, <2>3 DEF k, w, e
<1>8. CASE ~(Len(w) < MaxEntries)
  <2>1. Len(w) = MaxEntries /\ Len(queue) > MaxEntries
    BY <1>2, <1>3, <1>4, <1>6, <1>8
  <2>2. 1 \in 1 .. Len(w)
    BY <1>2, <1>6, <2>1
  <2>3. w[1] \in Keys /\ w[1] # k
    BY <1>3, <2>2
  <2>4. Head(queue) = w[1]
    <3> HIDE DEF w, k
    <3> QED
      BY <1>6, <2>2
  <2>5. order' = Tail(queue)
    BY <1>5, <2>1 DEF Memo!Answer
  <2>6. memoized' = [j \in Keys |-> CASE j \in {Head(queue)} -> Memo!Absent
                                     [] j = k -> e
                                     [] OTHER -> memoized[j]]
    BY <1>5, <2>1, SMTT(20) DEF Memo!Answer
  <2> HIDE DEF w, k, e, queue
  <2>7. memoized' = [j \in Keys |-> IF j = w[1] THEN Memo!Absent ELSE IF j = k THEN e ELSE memoized[j]]
    BY <2>3, <2>4, <2>6
  <2>8. memoized' = [memoized EXCEPT ![k] = e, ![w[1]] = Memo!Absent]
    BY <1>1, <1>4, <2>3, <2>7
  <2> QED
    BY <1>1, <2>1, <2>3, <2>5, <2>8 DEF k, w, e, queue
<1> QED
  BY <1>7, <1>8

Entries == [Keys -> [allowed : BOOLEAN, storedAt : Nat]]

LEMMA AbsentIsAnEntry == Memo!Absent \in [allowed : BOOLEAN, storedAt : Nat]
  BY DEF Memo!Absent

(* What leaves the list and the map together, ... *)
LEMMA DropLists ==
  ASSUME memoized \in Entries, Lists(order, memoized), Sorted(order, memoized), NEW k \in Keys
  PROVE  LET w == Memo!Without(k)
             m == [memoized EXCEPT ![k] = Memo!Absent]
         IN  Lists(w, m) /\ Sorted(w, m) /\ m \in Entries
<1> DEFINE w == Memo!Without(k)
           m == [memoized EXCEPT ![k] = Memo!Absent]
<1>1. /\ w \in Seq(Keys)
      /\ \A i \in 1 .. Len(w) : w[i] # k
      /\ \A j \in Keys : memoized[j] # Memo!Absent /\ j # k => \E i \in 1 .. Len(w) : w[i] = j
      /\ \A i, j \in 1 .. Len(w) : i <= j =>
            \E f, g \in 1 .. Len(order) :
               f <= g /\ (i < j => f < g) /\ order[f] = w[i] /\ order[g] = w[j]
  BY WithoutIs
<1>2. m \in Entries /\ m[k] = Memo!Absent /\ \A j \in Keys \ {k} : m[j] = memoized[j]
  BY AbsentIsAnEntry DEF Entries
<1> HIDE DEF w, m
<1>3. Len(w) \in Nat /\ \A i \in 1 .. Len(w) : w[i] \in Keys \ {k}
  BY <1>1
<1>4. ASSUME NEW i \in 1 .. Len(w), NEW j \in 1 .. Len(w), i < j PROVE w[i] # w[j]
  <2>1. PICK f \in 1 .. Len(order), g \in 1 .. Len(order) : f < g /\ order[f] = w[i] /\ order[g] = w[j]
    BY <1>1, <1>3, <1>4
  <2>2. f # g
    BY <2>1
  <2> QED
    BY <2>1, <2>2 DEF Lists
<1>5. \A i, j \in 1 .. Len(w) : w[i] = w[j] => i = j
  BY <1>3, <1>4
<1>6. ASSUME NEW i \in 1 .. Len(w) PROVE m[w[i]] # Memo!Absent
  <2>1. i <= i
    BY <1>3
  <2>2. PICK f \in 1 .. Len(order) : order[f] = w[i]
    BY <1>1, <2>1
  <2> QED
    BY <1>2, <1>3, <2>2 DEF Lists
<1>7. ASSUME NEW j \in Keys, m[j] # Memo!Absent PROVE \E i \in 1 .. Len(w) : w[i] = j
  BY <1>1, <1>2, <1>7
<1>8. ASSUME NEW i \in 1 .. Len(w), NEW j \in 1 .. Len(w), i <= j
      PROVE  m[w[i]].storedAt <= m[w[j]].storedAt
  <2>1. PICK f \in 1 .. Len(order), g \in 1 .. Len(order) : f <= g /\ order[f] = w[i] /\ order[g] = w[j]
    BY <1>1, <1>8
  <2>2. memoized[order[f]].storedAt <= memoized[order[g]].storedAt
    BY <2>1 DEF Sorted
  <2> QED
    BY <1>2, <1>3, <2>1, <2>2
<1>9. Lists(w, m)
  BY <1>1, <1>5, <1>6, <1>7 DEF Lists
<1>10. Sorted(w, m)
  BY <1>8 DEF Sorted
<1> QED
  BY <1>2, <1>9, <1>10 DEF w, m

(* ... joins them at the end, as the youngest, ... *)
LEMMA PushLists ==
  ASSUME NEW q, NEW m \in Entries, Lists(q, m), Sorted(q, m), NEW k \in Keys, m[k] = Memo!Absent,
         NEW v \in [allowed : BOOLEAN, storedAt : Nat], v # Memo!Absent,
         \A j \in Keys : m[j].storedAt <= v.storedAt
  PROVE  LET r == Append(q, k)
             n == [m EXCEPT ![k] = v]
         IN  Lists(r, n) /\ Sorted(r, n) /\ n \in Entries
<1> DEFINE r == Append(q, k)
           n == [m EXCEPT ![k] = v]
<1>1. /\ q \in Seq(Keys) /\ Len(q) \in Nat
      /\ r \in Seq(Keys) /\ Len(r) = Len(q) + 1 /\ r[Len(q) + 1] = k
      /\ \A i \in 1 .. Len(q) : r[i] = q[i]
  BY DEF Lists
<1>2. n \in Entries /\ n[k] = v /\ \A j \in Keys \ {k} : n[j] = m[j]
  BY DEF Entries
<1> HIDE DEF r, n
<1>3. \A i \in 1 .. Len(q) : q[i] \in Keys \ {k}
  BY <1>1 DEF Lists
<1>4. \A i \in 1 .. Len(r) : i \in 1 .. Len(q) \/ i = Len(q) + 1
  BY <1>1
<1>5. \A i, j \in 1 .. Len(r) : r[i] = r[j] => i = j
  BY <1>1, <1>3, <1>4 DEF Lists
<1>6. \A i \in 1 .. Len(r) : n[r[i]] # Memo!Absent
  BY <1>1, <1>2, <1>3, <1>4 DEF Lists
<1>7. ASSUME NEW j \in Keys, n[j] # Memo!Absent PROVE \E i \in 1 .. Len(r) : r[i] = j
  <2>1. CASE j = k
    BY <1>1, <2>1
  <2>2. CASE j # k
    <3>1. PICK i \in 1 .. Len(q) : q[i] = j
      BY <1>2, <1>7, <2>2 DEF Lists
    <3>2. i \in 1 .. Len(r)
      BY <1>1
    <3> QED
      BY <1>1, <3>1, <3>2
  <2> QED
    BY <2>1, <2>2
<1>8. ASSUME NEW i \in 1 .. Len(r), NEW j \in 1 .. Len(r), i <= j
      PROVE  n[r[i]].storedAt <= n[r[j]].storedAt
  <2>0. v.storedAt \in Nat
    OBVIOUS
  <2>1. CASE j \in 1 .. Len(q)
    <3>1. i \in 1 .. Len(q)
      BY <1>1, <1>8, <2>1
    <3>2. m[q[i]].storedAt <= m[q[j]].storedAt
      BY <1>8, <2>1, <3>1 DEF Sorted
    <3> QED
      BY <1>1, <1>2, <1>3, <2>1, <3>1, <3>2
  <2>2. CASE j = Len(q) + 1
    <3>1. n[r[j]].storedAt = v.storedAt
      BY <1>1, <1>2, <2>2
    <3>2. CASE i \in 1 .. Len(q)
      BY <1>1, <1>2, <1>3, <3>1, <3>2
    <3>3. CASE i = Len(q) + 1
      BY <1>1, <1>2, <2>0, <3>1, <3>3
    <3> QED
      BY <1>4, <3>2, <3>3
  <2> QED
    BY <1>4, <2>1, <2>2
<1>9. Lists(r, n)
  BY <1>1, <1>5, <1>6, <1>7 DEF Lists
<1>10. Sorted(r, n)
  BY <1>8 DEF Sorted
<1> QED
  BY <1>2, <1>9, <1>10 DEF r, n

(* ... or goes at the front, as the oldest. *)
LEMMA PopLists ==
  ASSUME NEW q, NEW m \in Entries, Lists(q, m), Sorted(q, m), q # <<>>
  PROVE  LET r == Tail(q)
             n == [m EXCEPT ![q[1]] = Memo!Absent]
         IN  /\ Lists(r, n) /\ Sorted(r, n) /\ n \in Entries /\ Len(r) = Len(q) - 1
             /\ \A j \in Keys : m[j] # Memo!Absent => m[q[1]].storedAt <= m[j].storedAt
<1> DEFINE r == Tail(q)
           n == [m EXCEPT ![q[1]] = Memo!Absent]
<1>1. /\ q \in Seq(Keys) /\ Len(q) \in Nat /\ Len(q) # 0
      /\ r \in Seq(Keys) /\ Len(r) = Len(q) - 1
      /\ \A i \in 1 .. Len(r) : r[i] = q[i + 1]
  <2>1. q \in Seq(Keys)
    BY DEF Lists
  <2> QED
    BY <2>1, HeadTailProperties, EmptySeq
<1>2. 1 \in 1 .. Len(q) /\ q[1] \in Keys
  BY <1>1
<1>3. n \in Entries /\ n[q[1]] = Memo!Absent /\ \A j \in Keys \ {q[1]} : n[j] = m[j]
  BY <1>2, AbsentIsAnEntry DEF Entries
<1> HIDE DEF r, n
<1>4. \A i \in 1 .. Len(r) : i + 1 \in 1 .. Len(q) /\ i + 1 # 1
  BY <1>1
<1>5. \A i \in 1 .. Len(r) : q[i + 1] \in Keys \ {q[1]}
  BY <1>1, <1>2, <1>4 DEF Lists
<1>6. \A i, j \in 1 .. Len(r) : r[i] = r[j] => i = j
  <2> SUFFICES ASSUME NEW i \in 1 .. Len(r), NEW j \in 1 .. Len(r), r[i] = r[j] PROVE i = j
    OBVIOUS
  <2>1. i + 1 = j + 1
    BY <1>1, <1>4 DEF Lists
  <2> QED
    BY <1>1, <2>1
<1>7. \A i \in 1 .. Len(r) : n[r[i]] # Memo!Absent
  BY <1>1, <1>3, <1>4, <1>5 DEF Lists
<1>8. ASSUME NEW j \in Keys, n[j] # Memo!Absent PROVE \E i \in 1 .. Len(r) : r[i] = j
  <2>1. j # q[1]
    BY <1>3, <1>8
  <2>2. PICK i \in 1 .. Len(q) : q[i] = j
    BY <1>3, <1>8, <2>1 DEF Lists
  <2>3. i - 1 \in 1 .. Len(r) /\ (i - 1) + 1 = i
    BY <1>1, <2>1, <2>2
  <2> QED
    BY <1>1, <2>2, <2>3
<1>9. ASSUME NEW i \in 1 .. Len(r), NEW j \in 1 .. Len(r), i <= j
      PROVE  n[r[i]].storedAt <= n[r[j]].storedAt
  <2>1. i + 1 <= j + 1
    BY <1>1, <1>9
  <2>2. m[q[i + 1]].storedAt <= m[q[j + 1]].storedAt
    BY <1>4, <2>1 DEF Sorted
  <2> QED
    BY <1>1, <1>3, <1>5, <2>2
<1>10. ASSUME NEW j \in Keys, m[j] # Memo!Absent PROVE m[q[1]].storedAt <= m[j].storedAt
  <2>1. PICK i \in 1 .. Len(q) : q[i] = j
    BY <1>10 DEF Lists
  <2>2. 1 <= i
    BY <1>1
  <2> QED
    BY <1>2, <2>1, <2>2 DEF Sorted
<1>11. Lists(r, n)
  BY <1>1, <1>6, <1>7, <1>8 DEF Lists
<1>12. Sorted(r, n)
  BY <1>9 DEF Sorted
<1> QED
  BY <1>1, <1>3, <1>10, <1>11, <1>12 DEF r, n

Listing ==
    Lists(order, memoized) /\ Sorted(order, memoized) /\ Len(order) <= MaxEntries

(* An answer that is stored finds room, at the expense of the oldest entry. *)
LEMMA AnswerListing ==
  ASSUME MemoInv, NEW a \in Callers, Memo!Answer(a)
  PROVE  /\ Listing'
         /\ memoized' \in Entries
         /\ \A j \in Keys :
               \/ memoized'[j] = memoized[j]
               \/ memoized'[j] = Memo!Absent
               \/ j = ask[a].key /\ memoized'[j] = [allowed |-> ask[a].allowed, storedAt |-> now]
         /\ Memo!EvictsOldest
<1> DEFINE k == ask[a].key
           w == Memo!Without(k)
           v == [allowed |-> ask[a].allowed, storedAt |-> now]
           m == [memoized EXCEPT ![k] = Memo!Absent]
           n == [memoized EXCEPT ![k] = v]
           q == Append(w, k)
<1>0. /\ memoized \in Entries /\ now \in Nat /\ 1 <= now /\ Lists(order, memoized) /\ Sorted(order, memoized)
      /\ \A j \in Keys : memoized[j].storedAt <= now
  <2>1. /\ memoized \in [Keys -> [allowed : BOOLEAN, storedAt : 0 .. MemoTime]] /\ now \in 1 .. MemoTime
        /\ MemoTime \in Nat
    BY StoresConstants DEF MemoInv, Memo!TypeOK, Memo!MemoConstants
  <2>2. \A j \in Keys : memoized[j] # Memo!Absent => memoized[j].storedAt <= now
    BY DEF MemoInv, EntriesStamped, Memo!Present
  <2>3. Memo!Absent.storedAt <= now
    BY <2>1 DEF Memo!Absent
  <2>4. memoized \in Entries
    BY <2>1 DEF Entries
  <2> QED
    BY <2>1, <2>2, <2>3, <2>4 DEF MemoInv
<1>1. /\ k \in Keys /\ ask[a].allowed \in BOOLEAN
      /\ \/ /\ Len(w) < MaxEntries /\ order' = q /\ memoized' = n
         \/ /\ Len(w) = MaxEntries /\ w[1] \in Keys /\ w[1] # k
            /\ order' = Tail(q) /\ memoized' = [n EXCEPT ![w[1]] = Memo!Absent]
  BY QueuedIs
<1>2. Lists(w, m) /\ Sorted(w, m) /\ m \in Entries
  <2> HIDE DEF k
  <2> QED
    BY <1>0, <1>1, DropLists
<1>3. v \in [allowed : BOOLEAN, storedAt : Nat] /\ v # Memo!Absent
  BY <1>0, <1>1 DEF Memo!Absent
<1>4. m[k] = Memo!Absent /\ (\A j \in Keys : m[j].storedAt <= v.storedAt) /\ [m EXCEPT ![k] = v] = n
  <2>1. memoized \in [Keys -> [allowed : BOOLEAN, storedAt : Nat]] /\ k \in Keys
    BY <1>0, <1>1 DEF Entries
  <2>2. Memo!Absent.storedAt = 0 /\ v.storedAt = now
    BY DEF Memo!Absent
  <2> HIDE DEF k
  <2>3. m[k] = Memo!Absent
    BY <2>1
  <2>4. \A j \in Keys : m[j].storedAt <= v.storedAt
    BY <1>0, <2>1, <2>2
  <2>5. [m EXCEPT ![k] = v] = n
    BY <2>1
  <2> QED
    BY <2>3, <2>4, <2>5
<1> HIDE DEF k, v, w, m
<1>5. Lists(q, n) /\ Sorted(q, n) /\ n \in Entries
  BY <1>1, <1>2, <1>3, <1>4, PushLists
<1>6. w \in Seq(Keys) /\ Len(q) = Len(w) + 1 /\ Len(w) \in Nat /\ MaxEntries \in Nat \ {0}
  BY <1>1, <1>2, StoresConstants DEF Lists, Memo!MemoConstants
<1>7. n[k] = v /\ \A j \in Keys \ {k} : n[j] = memoized[j]
  BY <1>0, <1>1 DEF Entries
<1>8. CASE Len(w) < MaxEntries
  <2>1. order' = q /\ memoized' = n
    BY <1>1, <1>6, <1>8
  <2>2. Len(order') <= MaxEntries
    BY <1>6, <1>8, <2>1
  <2> HIDE DEF n, q
  <2>3. \A j \in Keys : Memo!Present(j) => Memo!Present(j)'
    BY <1>3, <1>7, <2>1 DEF Memo!Present
  <2> QED
    BY <1>5, <1>7, <2>1, <2>2, <2>3 DEF Listing, Memo!EvictsOldest, k, v
<1>9. CASE ~(Len(w) < MaxEntries)
  <2>1. /\ Len(w) = MaxEntries /\ w[1] \in Keys /\ w[1] # k
        /\ order' = Tail(q) /\ memoized' = [n EXCEPT ![w[1]] = Memo!Absent]
    BY <1>1, <1>9
  <2>2. q # <<>> /\ q[1] = w[1]
    BY <1>1, <1>6, <2>1
  <2> HIDE DEF n, q
  <2>3. /\ Lists(order', memoized') /\ Sorted(order', memoized') /\ memoized' \in Entries
        /\ Len(order') = Len(q) - 1
        /\ \A j \in Keys : n[j] # Memo!Absent => n[w[1]].storedAt <= n[j].storedAt
    BY <1>5, <2>1, <2>2, PopLists
  <2>4. Len(order') <= MaxEntries
    BY <1>6, <2>1, <2>3
  <2>5. \A j \in Keys \ {w[1]} : memoized'[j] = n[j]
    BY <1>5, <2>1 DEF Entries
  <2>6. memoized'[w[1]] = Memo!Absent
    BY <1>5, <2>1 DEF Entries
  <2>7. Memo!EvictsOldest
    <3> SUFFICES ASSUME NEW g \in Keys, NEW j \in Keys, Memo!Present(g), ~Memo!Present(g)',
                        Memo!Present(j), memoized'[j] = memoized[j]
                 PROVE  memoized[g].storedAt <= memoized[j].storedAt
      BY DEF Memo!EvictsOldest
    <3>1. g = w[1]
      BY <1>3, <1>7, <2>5 DEF Memo!Present
    <3>2. n[g] = memoized[g]
      BY <1>7, <2>1, <3>1
    <3>3. j # w[1]
      BY <2>6 DEF Memo!Present
    <3>4. n[j] = memoized[j]
      BY <2>5, <3>3
    <3> QED
      BY <2>3, <3>1, <3>2, <3>4 DEF Memo!Present
  <2>8. \A j \in Keys :
           \/ memoized'[j] = memoized[j]
           \/ memoized'[j] = Memo!Absent
           \/ j = k /\ memoized'[j] = v
    BY <1>7, <2>5, <2>6
  <2> QED
    BY <2>3, <2>4, <2>7, <2>8 DEF Listing, k, v
<1> QED
  BY <1>8, <1>9

LEMMA InitMInv == StoresInit => MInv
<1> SUFFICES ASSUME StoresInit PROVE MemoInv
  BY DEF MInv
<1> USE StoresConstants DEF StoresInit, Memo!MInit, Memo!MemoConstants, Memo!Absent
<1>1. order = <<>> /\ Lists(order, memoized) /\ Sorted(order, memoized) /\ Len(order) <= MaxEntries
  BY DEF Lists, Sorted
<1>2. Memo!TypeOK
  BY DEF Memo!TypeOK, Memo!Resting
<1>3. EntriesStamped
  BY DEF EntriesStamped, Memo!Present
<1>4. RequestsStamped
  BY DEF RequestsStamped, Asked, Memo!Resting
<1> QED
  BY <1>1, <1>2, <1>3, <1>4 DEF MemoInv

LEMMA NextMInv ==
  ASSUME MemoInv, Memo!MNext
  PROVE  MemoInv' /\ (order' # <<>> => Memo!EvictsOldest)
<1> USE StoresConstants DEF Memo!MemoConstants
<1>0. /\ now \in 1 .. MemoTime /\ MemoTime \in Nat /\ MaxFlight \in Nat
      /\ truth \in [Keys -> BOOLEAN] /\ changedAt \in [Keys -> 1 .. MemoTime]
      /\ memoized \in [Keys -> [allowed : BOOLEAN, storedAt : 0 .. MemoTime]]
      /\ ask \in [Callers -> Asked]
  BY DEF MemoInv, Memo!TypeOK, RequestsStamped
<1>1. UNCHANGED <<memoized, order>> => Listing' /\ Memo!EvictsOldest
  BY DEF MemoInv, Listing, Lists, Sorted, Memo!EvictsOldest, Memo!Present
<1>2. ASSUME NEW k \in Disputed, Memo!Change(k) PROVE MemoInv' /\ Memo!EvictsOldest
  <2>1. Memo!TypeOK'
    BY <1>0, <1>2 DEF Memo!Change, Memo!TypeOK, MemoInv, Memo!memo
  <2>2. EntriesStamped'
    BY <1>0, <1>2 DEF Memo!Change, EntriesStamped, MemoInv, Memo!Present, Memo!memo
  <2>3. RequestsStamped'
    BY <1>0, <1>2 DEF Memo!Change, RequestsStamped, MemoInv, Asked
  <2> QED
    BY <1>1, <1>2, <2>1, <2>2, <2>3 DEF MemoInv, Listing, Memo!Change, Memo!memo
<1>3. ASSUME NEW a \in Callers, NEW k \in Keys, Memo!Check(a, k) PROVE MemoInv' /\ Memo!EvictsOldest
  <2>1. /\ now' = now /\ truth' = truth /\ changedAt' = changedAt
        /\ memoized' = [memoized EXCEPT ![k] = Memo!Absent] /\ order' = Memo!Without(k)
        /\ ask' = [ask EXCEPT ![a] = Memo!Sent(k)] /\ ~Memo!Live(k)
    BY <1>3 DEF Memo!Check, Memo!server
  <2>2. memoized \in Entries /\ Lists(order, memoized) /\ Sorted(order, memoized)
    BY <1>0 DEF Entries, MemoInv
  <2>3. Lists(order', memoized') /\ Sorted(order', memoized')
    BY <2>1, <2>2, DropLists
  <2>4. Len(order') <= MaxEntries
    <3>1. Len(Memo!Without(k)) <= Len(order) /\ Memo!Without(k) \in Seq(Keys)
      BY <2>2, WithoutIs
    <3>2. Len(order) \in Nat /\ Len(order) <= MaxEntries /\ MaxEntries \in Nat
      BY DEF MemoInv, Memo!TypeOK
    <3>3. Len(Memo!Without(k)) \in Nat
      BY <3>1
    <3> QED
      BY <2>1, <3>1, <3>2, <3>3
  <2>5. \A j \in Keys : memoized'[j] = memoized[j] \/ (j = k /\ memoized'[j] = Memo!Absent)
    BY <1>0, <2>1
  <2>6. Memo!TypeOK'
    <3>1. memoized' \in [Keys -> [allowed : BOOLEAN, storedAt : 0 .. MemoTime]]
      BY <1>0, <2>1 DEF Memo!Absent
    <3>2. order' \in Seq(Keys)
      BY <2>3 DEF Lists
    <3>3. \A b \in Callers : ask'[b].at \in {"idle", "sent", "judged"}
      BY <1>0, <2>1 DEF Memo!Sent, Asked
    <3> QED
      BY <1>0, <2>1, <3>1, <3>2, <3>3 DEF Memo!TypeOK
  <2>7. EntriesStamped'
    BY <2>1, <2>5 DEF EntriesStamped, MemoInv, Memo!Present
  <2>8. RequestsStamped'
    <3>1. Memo!Sent(k) \in Asked /\ Memo!Sent(k).at = "sent" /\ Memo!Sent(k).since = now
      BY <1>0 DEF Asked, Memo!Sent
    <3>2. ask' \in [Callers -> Asked]
      BY <1>0, <2>1, <3>1
    <3>3. \A b \in Callers : ask'[b] = ask[b] \/ ask'[b] = Memo!Sent(k)
      BY <1>0, <2>1
    <3>4. ASSUME NEW b \in Callers, ask'[b].at # "idle"
          PROVE  /\ ask'[b].since <= now /\ now <= ask'[b].since + MaxFlight
                 /\ ask'[b].at = "judged" /\ ask'[b].allowed # truth[ask'[b].key] =>
                       ask'[b].since <= changedAt[ask'[b].key]
      <4>1. CASE ask'[b] = ask[b]
        BY <3>4, <4>1 DEF RequestsStamped, MemoInv
      <4>2. CASE ask'[b] = Memo!Sent(k)
        BY <1>0, <3>1, <4>2
      <4> QED
        BY <3>3, <4>1, <4>2
    <3> QED
      BY <2>1, <3>2, <3>4 DEF RequestsStamped
  <2>9. Memo!EvictsOldest
    BY <2>1, <2>5 DEF Memo!EvictsOldest, Memo!Present
  <2> QED
    BY <2>3, <2>4, <2>6, <2>7, <2>8, <2>9 DEF MemoInv
<1>4. ASSUME NEW a \in Callers, Memo!Judge(a) PROVE MemoInv' /\ Memo!EvictsOldest
  <2>1. /\ UNCHANGED <<now, truth, changedAt, memoized, order>>
        /\ ask' = [ask EXCEPT ![a] = Memo!Judged(ask[a].key, ask[a].since)]
        /\ ask[a].at = "sent"
    BY <1>0, <1>4 DEF Memo!Judge, Memo!server, Memo!memo
  <2>2. ask[a].key \in Keys /\ ask[a].since \in Nat
    BY <1>0, <2>1 DEF Asked
  <2>3. Memo!TypeOK'
    BY <1>0, <2>1 DEF Memo!TypeOK, MemoInv, Memo!Judged, Asked
  <2>4. EntriesStamped'
    BY <2>1 DEF EntriesStamped, MemoInv, Memo!Present
  <2>5. RequestsStamped'
    BY <1>0, <2>1, <2>2 DEF RequestsStamped, MemoInv, Asked, Memo!Judged
  <2> QED
    BY <1>1, <2>1, <2>3, <2>4, <2>5 DEF MemoInv, Listing
<1>5. ASSUME NEW a \in Callers, Memo!Answer(a) PROVE MemoInv' /\ Memo!EvictsOldest
  <2>1. /\ now' = now /\ truth' = truth /\ changedAt' = changedAt
        /\ ask' = [ask EXCEPT ![a] = Memo!Resting] /\ ask[a].at = "judged"
    BY <1>5 DEF Memo!Answer, Memo!server
  <2>2. /\ Listing' /\ memoized' \in Entries /\ Memo!EvictsOldest
        /\ \A j \in Keys :
               \/ memoized'[j] = memoized[j]
               \/ memoized'[j] = Memo!Absent
               \/ j = ask[a].key /\ memoized'[j] = [allowed |-> ask[a].allowed, storedAt |-> now]
    BY <1>5, AnswerListing
  <2>3. Memo!TypeOK'
    <3>1. \A j \in Keys : memoized'[j] \in [allowed : BOOLEAN, storedAt : 0 .. MemoTime]
      <4> SUFFICES ASSUME NEW j \in Keys PROVE memoized'[j].storedAt \in 0 .. MemoTime
        BY <2>2 DEF Entries
      <4> QED
        BY <1>0, <2>2 DEF Memo!Absent
    <3>2. memoized' \in [Keys -> [allowed : BOOLEAN, storedAt : 0 .. MemoTime]]
      BY <2>2, <3>1 DEF Entries
    <3>3. order' \in Seq(Keys)
      BY <2>2 DEF Listing, Lists
    <3>4. \A b \in Callers : ask'[b].at \in {"idle", "sent", "judged"}
      BY <1>0, <2>1 DEF Memo!Resting, Asked
    <3> QED
      BY <1>0, <2>1, <3>2, <3>3, <3>4 DEF Memo!TypeOK
  <2>4. EntriesStamped'
    <3> SUFFICES ASSUME NEW j \in Keys
                 PROVE  /\ changedAt[j] <= now
                        /\ memoized'[j] # Memo!Absent =>
                              /\ 1 <= memoized'[j].storedAt /\ memoized'[j].storedAt <= now
                              /\ memoized'[j].allowed # truth[j] =>
                                    memoized'[j].storedAt <= changedAt[j] + MaxFlight
      BY <2>1 DEF EntriesStamped, Memo!Present
    <3>1. EntriesStamped /\ RequestsStamped
      BY DEF MemoInv
    <3>2. CASE memoized'[j] = memoized[j]
      BY <3>1, <3>2 DEF EntriesStamped, Memo!Present
    <3>3. CASE memoized'[j] = Memo!Absent
      BY <3>1, <3>3 DEF EntriesStamped
    <3>4. CASE j = ask[a].key /\ memoized'[j] = [allowed |-> ask[a].allowed, storedAt |-> now]
      <4>1. /\ ask[a].since \in Nat /\ now <= ask[a].since + MaxFlight
            /\ ask[a].allowed # truth[j] => ask[a].since <= changedAt[j]
        BY <1>0, <2>1, <3>1, <3>4 DEF RequestsStamped, Asked
      <4>2. changedAt[j] <= now /\ changedAt[j] \in Nat
        BY <1>0, <3>1 DEF EntriesStamped
      <4> QED
        BY <1>0, <3>4, <4>1, <4>2
    <3> QED
      BY <2>2, <3>2, <3>3, <3>4
  <2>5. RequestsStamped'
    BY <1>0, <2>1 DEF RequestsStamped, MemoInv, Asked, Memo!Resting
  <2> QED
    BY <2>2, <2>3, <2>4, <2>5 DEF MemoInv, Listing
<1>6. ASSUME NEW a \in Callers, Memo!Fail(a) PROVE MemoInv' /\ Memo!EvictsOldest
  <2>1. /\ UNCHANGED <<now, truth, changedAt, memoized, order>>
        /\ ask' = [ask EXCEPT ![a] = Memo!Resting]
    BY <1>6 DEF Memo!Fail, Memo!server, Memo!memo
  <2>2. Memo!TypeOK'
    BY <1>0, <2>1 DEF Memo!TypeOK, MemoInv, Memo!Resting, Asked
  <2>3. EntriesStamped'
    BY <2>1 DEF EntriesStamped, MemoInv, Memo!Present
  <2>4. RequestsStamped'
    BY <1>0, <2>1 DEF RequestsStamped, MemoInv, Asked, Memo!Resting
  <2> QED
    BY <1>1, <2>1, <2>2, <2>3, <2>4 DEF MemoInv, Listing
<1>7. CASE Memo!Clear
  <2>1. /\ UNCHANGED <<now, truth, changedAt, ask>>
        /\ memoized' = [k \in Keys |-> Memo!Absent] /\ order' = <<>>
    BY <1>7 DEF Memo!Clear, Memo!server
  <2>2. Lists(order', memoized') /\ Sorted(order', memoized') /\ Len(order') <= MaxEntries
    BY <2>1 DEF Lists, Sorted
  <2>3. Memo!TypeOK'
    BY <1>0, <2>1 DEF Memo!TypeOK, MemoInv, Memo!Absent
  <2>4. EntriesStamped'
    BY <2>1 DEF EntriesStamped, MemoInv, Memo!Present
  <2>5. RequestsStamped'
    BY <2>1 DEF RequestsStamped, MemoInv
  <2> QED
    BY <2>1, <2>2, <2>3, <2>4, <2>5 DEF MemoInv
<1>8. CASE Memo!MTick
  <2>1. /\ UNCHANGED <<truth, changedAt, memoized, order, ask>>
        /\ now' = now + 1 /\ now < MemoTime
        /\ \A a \in Callers : ask[a] # Memo!Resting => now < ask[a].since + MaxFlight
    BY <1>8 DEF Memo!MTick, Memo!server, Memo!memo
  <2>2. Memo!TypeOK'
    BY <1>0, <2>1 DEF Memo!TypeOK, MemoInv
  <2>3. EntriesStamped'
    BY <1>0, <2>1 DEF EntriesStamped, MemoInv, Memo!Present
  <2>4. RequestsStamped'
    <3> SUFFICES ASSUME NEW a \in Callers, ask[a].at # "idle"
                 PROVE  /\ ask[a].since <= now + 1 /\ now + 1 <= ask[a].since + MaxFlight
                        /\ ask[a].at = "judged" /\ ask[a].allowed # truth[ask[a].key] =>
                              ask[a].since <= changedAt[ask[a].key]
      BY <1>0, <2>1 DEF RequestsStamped
    <3>1. ask[a].since \in Nat
      BY <1>0 DEF Asked
    <3>2. ask[a] # Memo!Resting
      BY DEF Memo!Resting
    <3>3. /\ ask[a].since <= now /\ now < ask[a].since + MaxFlight
          /\ ask[a].at = "judged" /\ ask[a].allowed # truth[ask[a].key] =>
                ask[a].since <= changedAt[ask[a].key]
      BY <2>1, <3>2 DEF RequestsStamped, MemoInv
    <3>4. ask[a].since <= now + 1 /\ now + 1 <= ask[a].since + MaxFlight
      BY <1>0, <3>1, <3>3
    <3> QED
      BY <3>3, <3>4
  <2> QED
    BY <1>1, <2>1, <2>2, <2>3, <2>4 DEF MemoInv, Listing
<1> QED
  BY <1>2, <1>3, <1>4, <1>5, <1>6, <1>7, <1>8 DEF Memo!MNext

LEMMA StepMInv == MInv /\ [StoresNext]_stores => MInv'
<1> SUFFICES ASSUME MInv, [StoresNext]_stores, focus = "memo" PROVE MemoInv'
  BY FocusIsKept DEF MInv
<1>1. MemoInv
  BY DEF MInv
<1>2. CASE Memo!MNext
  BY <1>1, <1>2, NextMInv
<1>3. CASE UNCHANGED stores
  BY <1>1, <1>3 DEF stores, memo, MemoInv, Memo!TypeOK, EntriesStamped, RequestsStamped, Lists, Sorted, Memo!Present
<1> QED
  BY <1>2, <1>3 DEF StoresNext, FeedStep, MemoStep, JtiStep, LoginStep, PollStep, RemoteStep, OrderStep

LEMMA InductiveMInv == StoresSpec => []MInv
  BY InitMInv, StepMInv, PTL DEF StoresSpec

(* However many goroutines ask, and whatever is replaced, expires on read, is
   evicted or cleared, the memo's map and its list hold the same entries, each once
   and no more than the limit; and an answer the server would no longer give is old by
   at most the TTL and the time a request takes (decision_memo.go, authz.go). *)
THEOREM MemoKeepsItsBounds == StoresSpec => []MemoHolds
<1>1. MemoInv => Memo!TypeOK /\ Memo!MapAgreesWithList /\ Memo!StalenessBounded
  <2> SUFFICES ASSUME MemoInv PROVE Memo!TypeOK /\ Memo!MapAgreesWithList /\ Memo!StalenessBounded
    OBVIOUS
  <2>1. Memo!TypeOK /\ order \in Seq(Keys) /\ DOMAIN order = 1 .. Len(order)
    BY DEF MemoInv, Memo!TypeOK
  <2>2. Memo!MapAgreesWithList
    <3>1. Memo!IsInjective(order)
      BY <2>1 DEF MemoInv, Lists, Memo!IsInjective
    <3>2. Memo!Range(order) = {k \in Keys : Memo!Present(k)}
      BY <2>1 DEF MemoInv, Lists, Memo!Range, Memo!Present
    <3> QED
      BY <3>1, <3>2 DEF Memo!MapAgreesWithList, MemoInv
  <2>3. ASSUME NEW k \in Keys, Memo!Live(k), memoized[k].allowed # truth[k]
        PROVE  now < changedAt[k] + MaxFlight + MemoTTL
    <3>1. /\ memoized[k].storedAt \in Nat /\ now \in Nat /\ changedAt[k] \in Nat
          /\ MaxFlight \in Nat /\ MemoTTL \in Nat
      BY StoresConstants DEF MemoInv, Memo!TypeOK, Memo!MemoConstants
    <3>2. memoized[k].storedAt <= changedAt[k] + MaxFlight
      BY <2>3 DEF MemoInv, EntriesStamped, Memo!Live
    <3>3. now - memoized[k].storedAt < MemoTTL
      BY <2>3 DEF Memo!Live
    <3> QED
      BY <3>1, <3>2, <3>3
  <2> QED
    BY <2>1, <2>2, <2>3 DEF Memo!StalenessBounded
<1>2. MInv => MemoHolds
  BY <1>1 DEF MInv, MemoHolds
<1> QED
  BY <1>2, InductiveMInv, PTL

-----------------------------------------------------------------------------
(* What the stores give up at their limits. *)

(* What the module of the jtis counts is what the theorems about finite sets count. *)
LEMMA JtisCounted == \A S : (Jti!IsFiniteSet(S) <=> IsFiniteSet(S)) /\ Jti!Cardinality(S) = Cardinality(S)
<1> SUFFICES ASSUME NEW S PROVE (Jti!IsFiniteSet(S) <=> IsFiniteSet(S)) /\ Jti!Cardinality(S) = Cardinality(S)
  OBVIOUS
<1>1. Jti!IsFiniteSet(S) <=> IsFiniteSet(S)
  BY DEF Jti!IsFiniteSet, IsFiniteSet
<1>2. Jti!Cardinality(S) = Cardinality(S)
  BY DEF Jti!Cardinality, Cardinality
<1> QED
  BY <1>1, <1>2

(* A claim adds a jti to what was held, or to what pruning left of it. *)
LEMMA ClaimBounds ==
  ASSUME JInv, focus = "jti", NEW v \in Callers, claiming[v].clock # 0, Jti!Claim(v)
  PROVE  Cardinality(Jti!Held(seen')) <=
            PruneAbove + 1 + Cardinality({j \in Jti!Held(seen) : seen[j] > claiming[v].clock})
<1> DEFINE c == claiming[v].clock
           j == claiming[v].jti
           fresh == {i \in Jti!Held(seen) : seen[i] > c}
           left == Jti!Held(Jti!Pruned(c))
<1>1. IsFiniteSet(Jtis) /\ PruneAbove \in Nat /\ seen \in [Jtis -> Nat] /\ c \in Nat
  <2>1. claiming[v] \in {Jti!Free} \union [jti : Jtis, clock : 0 .. JtiTime]
    BY DEF JInv, Jti!TypeOK
  <2>2. claiming[v].clock \in Nat
    BY <2>1, StoresConstants DEF Jti!Free, Jti!JtiConstants
  <2> QED
    BY <2>2, StoresConstants, JtisCounted DEF Jti!JtiConstants, JInv, Jti!TypeOK
<1>2. fresh \subseteq Jtis /\ left \subseteq Jtis /\ Jti!Held(seen) \subseteq Jtis /\ Jti!Held(seen') \subseteq left \union {j}
  <2>1. \/ seen' = Jti!Pruned(c)
        \/ seen' = [Jti!Pruned(c) EXCEPT ![j] = Jti!Expiry(j)]
    BY DEF Jti!Claim
  <2>2. Jti!Pruned(c) \in [Jtis -> Nat]
    BY <1>1, PruningSpares
  <2> HIDE DEF c, j
  <2> QED
    BY <2>1, <2>2 DEF Jti!Held
<1>3. /\ IsFiniteSet(fresh) /\ IsFiniteSet(left) /\ IsFiniteSet(left \union {j})
      /\ Cardinality(fresh) \in Nat /\ Cardinality(left) \in Nat
      /\ Cardinality(left \union {j}) \in Nat /\ Cardinality(left \union {j}) <= Cardinality(left) + 1
      /\ Cardinality(Jti!Held(seen)) \in Nat /\ Cardinality(Jti!Held(seen')) \in Nat
      /\ Cardinality(Jti!Held(seen')) <= Cardinality(left \union {j})
  <2> HIDE DEF c, j, fresh, left
  <2>1. IsFiniteSet(fresh) /\ IsFiniteSet(left) /\ IsFiniteSet(Jti!Held(seen))
    BY <1>1, <1>2, FS_Subset
  <2>2. /\ IsFiniteSet(left \union {j})
        /\ Cardinality(left \union {j}) = Cardinality(left) \/ Cardinality(left \union {j}) = Cardinality(left) + 1
    BY <2>1, FS_AddElement
  <2>3. IsFiniteSet(Jti!Held(seen')) /\ Cardinality(Jti!Held(seen')) <= Cardinality(left \union {j})
    BY <1>2, <2>2, FS_Subset
  <2>4. /\ Cardinality(fresh) \in Nat /\ Cardinality(left) \in Nat /\ Cardinality(left \union {j}) \in Nat
        /\ Cardinality(Jti!Held(seen)) \in Nat /\ Cardinality(Jti!Held(seen')) \in Nat
    BY <2>1, <2>2, <2>3, FS_CardinalityType
  <2>5. Cardinality(left \union {j}) <= Cardinality(left) + 1
    BY <2>2, <2>4
  <2> QED
    BY <2>1, <2>2, <2>3, <2>4, <2>5
<1>4. Cardinality(left) <= PruneAbove \/ left = fresh
  <2>1. CASE Cardinality(Jti!Held(seen)) > PruneAbove
    <3>1. Jti!Pruned(c) = [i \in Jtis |-> IF seen[i] > c THEN seen[i] ELSE 0]
      BY <2>1, JtisCounted DEF Jti!Pruned
    <3> HIDE DEF c
    <3>2. left = fresh
      BY <1>1, <3>1 DEF Jti!Held
    <3> QED
      BY <3>2
  <2>2. CASE ~(Cardinality(Jti!Held(seen)) > PruneAbove)
    <3>1. left = Jti!Held(seen)
      BY <2>2, JtisCounted DEF Jti!Pruned
    <3> HIDE DEF left
    <3> QED
      BY <1>1, <1>3, <2>2, <3>1
  <2> QED
    BY <2>1, <2>2
<1> HIDE DEF fresh, left, j
<1>5. Cardinality(Jti!Held(seen')) <= PruneAbove + 1 + Cardinality(fresh)
  BY <1>1, <1>3, <1>4
<1> QED
  BY <1>5 DEF fresh

(* A call of the guard that waits for a fetch has found the latest attempt an
   interval old, or seen another made. *)
QueuedForCause ==
    /\ now \in Nat /\ lastAttempt \in Nat /\ attempted = lastAttempt /\ lastAttempt <= now
    /\ pc \in [Callers -> {"idle", "queue", "fetch", "fetched", "read"}]
    /\ began \in [Callers -> Nat]
    /\ \A p \in Callers :
          /\ began[p] <= now
          /\ pc[p] = "queue" /\ p \notin direct =>
                attempted = Never \/ attempted >= began[p] \/ began[p] >= attempted + Interval

(* The strengthening of AttemptsSpaced. *)
QInv == focus = "feed" => QueuedForCause

LEMMA InitQInv == StoresInit => QInv
  BY DEF StoresInit, Init, QInv, QueuedForCause, Never

LEMMA NextQInv == QInv /\ [StoresNext]_stores => QInv'
<1> SUFFICES ASSUME QInv, [StoresNext]_stores, focus = "feed" PROVE QueuedForCause'
  BY FocusIsKept DEF QInv
<1> USE FeedConstants DEF QInv, QueuedForCause, Never, Goto
<1>1. ASSUME NEW p \in Callers, Call(p) PROVE QueuedForCause'
  BY <1>1 DEF Call, Recent
<1>2. ASSUME NEW p \in Callers, CallRefresh(p) PROVE QueuedForCause'
  BY <1>2 DEF CallRefresh
<1>3. ASSUME NEW p \in Callers, StartFetch(p) \/ Fetched(p) PROVE QueuedForCause'
  BY <1>3 DEF StartFetch, Fetched, Render, FetchFails
<1>4. ASSUME NEW p \in Callers, Update(p) PROVE QueuedForCause'
  BY <1>4 DEF Update, Record, AfterFetch
<1>5. ASSUME NEW p \in Callers, Answer(p) PROVE QueuedForCause'
  BY <1>5 DEF Answer
<1>6. CASE Revoke \/ Tick
  BY <1>6 DEF Revoke, Tick
<1>7. CASE UNCHANGED stores
  BY <1>7 DEF stores, feed
<1> QED
  BY <1>1, <1>2, <1>3, <1>4, <1>5, <1>6, <1>7
     DEF StoresNext, FeedStep, FeedRests, MemoStep, JtiStep, LoginStep, PollStep, RemoteStep, OrderStep, Next, Progress

(* The memo evicts its oldest decision and no other, a claim leaves the jtis that were
   fresh and few more, and a guard whose call began less than an interval after an
   attempt of the feed does not make it ask again, which says nothing of the guards
   that attempt kept waiting (decision_memo.go, internal/dpop/dpop.go, internal/revocation/feed.go). *)
THEOREM StoresKeepTheirLimits == StoresSpec => LimitsKept
<1>1. ASSUME MInv, JInv, [StoresNext]_stores
      PROVE  [(focus = "memo" /\ order' # <<>> => Memo!EvictsOldest) /\ Jti!Bounded]_stores
  <2> SUFFICES ASSUME StoresNext
               PROVE  (focus = "memo" /\ order' # <<>> => Memo!EvictsOldest) /\ Jti!Bounded
    BY <1>1
  <2>1. focus = "memo" /\ order' # <<>> => Memo!EvictsOldest
    <3>1. focus = "memo" => Memo!MNext
      BY DEF StoresNext, FeedStep, MemoStep, JtiStep, LoginStep, PollStep, RemoteStep, OrderStep
    <3> QED
      BY <1>1, <3>1, NextMInv DEF MInv
  <2>2. CASE claiming' = claiming
    BY <2>1, <2>2 DEF Jti!Bounded, Jti!Free
  <2>3. CASE JtiStep
    <3>1. ASSUME NEW v \in Callers, claiming[v].clock # 0, claiming'[v] = Jti!Free
          PROVE  Jti!Claim(v)
      <4>1. claiming \in [Callers -> {Jti!Free} \union [jti : Jtis, clock : 0 .. JtiTime]] /\ now \in 1 .. JtiTime
        BY <1>1, <2>3 DEF JtiStep, JInv, Jti!TypeOK
      <4>2. claiming[v] # Jti!Free
        BY <3>1 DEF Jti!Free
      <4>3. ~Jti!JTick
        BY <3>1, <4>2 DEF Jti!JTick
      <4>4. \A u \in Callers, j \in Jtis, sound \in BOOLEAN : ~Jti!VerifyProof(u, j, sound)
        BY <3>1, <4>1, <4>2 DEF Jti!VerifyProof
      <4>5. ASSUME NEW u \in Callers, Jti!ReadClock(u) PROVE FALSE
        BY <3>1, <4>1, <4>2, <4>5 DEF Jti!ReadClock, Jti!Free
      <4>6. ASSUME NEW u \in Callers, Jti!Claim(u) PROVE u = v
        BY <3>1, <4>1, <4>2, <4>6 DEF Jti!Claim
      <4> QED
        BY <2>3, <4>3, <4>4, <4>5, <4>6 DEF JtiStep, Jti!JNext
    <3>2. focus = "jti"
      BY <2>3 DEF JtiStep
    <3>3. Jti!Bounded
      BY <1>1, <3>1, <3>2, ClaimBounds, JtisCounted DEF Jti!Bounded
    <3> QED
      BY <2>1, <3>3
  <2> QED
    BY <2>1, <2>2, <2>3
       DEF StoresNext, FeedStep, FeedRests, MemoStep, LoginStep, PollStep, RemoteStep, OrderStep, jtis
<1> DEFINE Spaced ==
      \A p \in Callers \ direct :
         pc[p] # "fetch" /\ pc'[p] = "fetch" =>
             attempted = Never \/ attempted >= began[p] \/ began[p] >= attempted + Interval
<1>2. ASSUME QInv, [StoresNext]_stores PROVE [Spaced]_vars
  <2>1. CASE pc' = pc
    BY <2>1
  <2>2. CASE FeedStep
    <3> SUFFICES ASSUME NEW p \in Callers \ direct, pc[p] # "fetch", pc'[p] = "fetch"
                 PROVE  attempted = Never \/ attempted >= began[p] \/ began[p] >= attempted + Interval
      OBVIOUS
    <3>1. QueuedForCause
      BY <1>2, <2>2 DEF QInv, FeedStep
    <3>2. pc[p] = "queue"
      BY <2>2, <3>1 DEF FeedStep, QueuedForCause, Next, Progress, Fetched, Call, CallRefresh, StartFetch, Render,
         FetchFails, Update, AfterFetch, Answer, Revoke, Tick, Goto
    <3> QED
      BY <3>1, <3>2 DEF QueuedForCause
  <2> QED
    BY <1>2, <2>1, <2>2
       DEF StoresNext, MemoStep, JtiStep, LoginStep, PollStep, RemoteStep, OrderStep, stores, feed
<1>3. StoresSpec => []JInv
  BY InitJInv, NextJInv, PTL DEF StoresSpec
<1>4. StoresSpec => []QInv
  BY InitQInv, NextQInv, PTL DEF StoresSpec
<1> QED
  BY <1>1, <1>2, <1>3, <1>4, InductiveMInv, PTL DEF StoresSpec, LimitsKept, AttemptsSpaced

-----------------------------------------------------------------------------
(* The order of a manifest's resources. *)

Placed == Order!Placed
Passed == Order!Passed

(* How far the map of the parents has been read. *)
Read == IF stage = "reading" THEN index - 1 ELSE Len(declared)

(* The map says what some declaration says, and what every one says if no key
   is declared twice. *)
MapFollows ==
    /\ index <= Len(declared) + 1
    /\ stage = "reading" => sorted = <<>> /\ chain = <<>> /\ verdict = "none" /\ cursor = NoParent
    /\ \A k \in ResourceKeys :
         parents[k] # NoParent =>
           \E i \in 1 .. Read : declared[i].key = k /\ declared[i].parent = parents[k]
    /\ ~Order!DuplicateKeys =>
         \A i \in 1 .. Read : parents[declared[i].key] = declared[i].parent

(* What has its place has its parent before it, and no other place. *)
SortedSoFar ==
    /\ \A i \in DOMAIN sorted : parents[sorted[i]] # NoParent =>
         \E j \in DOMAIN sorted : j < i /\ sorted[j] = parents[sorted[i]]
    /\ \A i, j \in DOMAIN sorted : i # j => sorted[i] # sorted[j]
    /\ \A K \in SUBSET Placed : (\A k \in K : parents[k] \in K) => K = {}

(* The chain leads upwards, to the cursor and then to what has its place. *)
ChainLinked ==
    stage \in {"climbing", "placing"} =>
        /\ \A j \in 1 .. Len(chain) - 1 : parents[chain[j]] = chain[j + 1]
        /\ stage = "climbing" /\ chain # <<>> => parents[chain[Len(chain)]] = cursor
        /\ stage = "placing" /\ chain # <<>> => parents[chain[Len(chain)]] \in Placed \cup {NoParent}

(* No declaration the walk went by is forgotten. *)
NoneForgotten ==
    /\ stage = "next" => \A i \in 1 .. index - 1 : declared[i].key \in Placed
    /\ stage \in {"climbing", "placing"} =>
         /\ index > 1
         /\ \A i \in 1 .. index - 2 : declared[i].key \in Placed
         /\ \/ declared[index - 1].key \in Placed \cup Passed
            \/ stage = "climbing" /\ chain = <<>> /\ cursor = declared[index - 1].key
    /\ verdict = "ordered" => \A i \in DOMAIN declared : declared[i].key \in Placed

(* Nothing comes from anywhere but the declarations. *)
NoneInvented ==
    ~Order!Dangling => Placed \cup Passed \cup ({cursor} \ {NoParent}) \subseteq Order!DeclaredKeys

(* The strengthening of ManifestsOrdered. *)
Walk ==
    /\ Order!TypeOK /\ (stage = "done" <=> verdict # "none")
    /\ MapFollows /\ SortedSoFar /\ ChainLinked /\ NoneForgotten /\ NoneInvented
    /\ Order!CyclesFound
OInv == focus = "manifest" => Walk

-----------------------------------------------------------------------------
(* Closed sets of keys bear witness to a cycle. *)
LEMMA CycleWitness ==
  ASSUME NEW K \in SUBSET ResourceKeys, K # {}, \A k \in K : parents[k] \in K
  PROVE  Order!Cyclic
  BY DEF Order!Cyclic

LEMMA InitOInv == StoresInit => Walk
<1> SUFFICES ASSUME StoresInit PROVE Walk
  OBVIOUS
<1>1. Order!OInit
  BY DEF StoresInit
<1>2. declared \in Seq(Order!Declarations)
  BY <1>1 DEF Order!OInit, Order!Manifests
<1>3. Placed = {} /\ Passed = {}
  BY <1>1 DEF Order!OInit, Placed, Passed, Order!Placed, Order!Passed, Order!Members
<1>4. Len(declared) \in Nat
  BY <1>2
<1> QED
  BY <1>1, <1>2, <1>3, <1>4, StoresConstants
     DEF Walk, Order!OInit, Order!TypeOK, MapFollows, Read, SortedSoFar, ChainLinked, NoneForgotten,
         NoneInvented, Order!CyclesFound

-----------------------------------------------------------------------------
(* The sequences as functions. *)
LEMMA AsFunctions ==
  ASSUME Order!TypeOK
  PROVE  /\ Len(declared) \in Nat /\ DOMAIN declared = 1 .. Len(declared)
         /\ \A i \in 1 .. Len(declared) : /\ declared[i].key \in ResourceKeys \cap Order!DeclaredKeys
                                         /\ declared[i].parent \in ResourceKeys \cup {NoParent}
         /\ Len(chain) \in Nat /\ DOMAIN chain = 1 .. Len(chain)
         /\ \A i \in 1 .. Len(chain) : chain[i] \in ResourceKeys \cap Passed
         /\ Passed = {chain[i] : i \in 1 .. Len(chain)}
         /\ Len(sorted) \in Nat /\ DOMAIN sorted = 1 .. Len(sorted)
         /\ \A i \in 1 .. Len(sorted) : sorted[i] \in ResourceKeys \cap Placed
         /\ Placed = {sorted[i] : i \in 1 .. Len(sorted)}
<1>1. /\ Len(declared) \in Nat /\ DOMAIN declared = 1 .. Len(declared)
      /\ \A i \in 1 .. Len(declared) : declared[i] \in Order!Declarations
  BY DEF Order!TypeOK
<1>2. /\ Len(chain) \in Nat /\ DOMAIN chain = 1 .. Len(chain)
      /\ \A i \in 1 .. Len(chain) : chain[i] \in ResourceKeys
  BY DEF Order!TypeOK
<1>3. /\ Len(sorted) \in Nat /\ DOMAIN sorted = 1 .. Len(sorted)
      /\ \A i \in 1 .. Len(sorted) : sorted[i] \in ResourceKeys
  BY DEF Order!TypeOK
<1> QED
  BY <1>1, <1>2, <1>3
     DEF Order!Declarations, Order!DeclaredKeys, Placed, Passed, Order!Placed, Order!Passed, Order!Members

(* What a step does not touch stays as it is. *)
LEMMA Kept ==
  ASSUME UNCHANGED <<declared, parents>>
  PROVE  /\ Order!DuplicateKeys' = Order!DuplicateKeys /\ Order!Dangling' = Order!Dangling
         /\ Order!DeclaredKeys' = Order!DeclaredKeys /\ Order!Cyclic' = Order!Cyclic
         /\ sorted' = sorted => Placed' = Placed
         /\ chain' = chain => Passed' = Passed
  BY DEF Order!DuplicateKeys, Order!Dangling, Order!DeclaredKeys, Order!Cyclic,
     Placed, Passed, Order!Placed, Order!Passed, Order!Members

LEMMA ReadParentWalk == Walk /\ Order!ReadParent => Walk'
<1> SUFFICES ASSUME Walk, Order!ReadParent PROVE Walk'
  OBVIOUS
<1> USE StoresConstants DEF Walk, Order!OrderConstants
<1>1. /\ stage = "reading" /\ index <= Len(declared) /\ index' = index + 1
      /\ parents' = [parents EXCEPT ![declared[index].key] = declared[index].parent]
      /\ UNCHANGED <<declared, stage, cursor, chain, sorted, verdict>>
  BY DEF Order!ReadParent
<1>2. /\ declared[index].key \in ResourceKeys
      /\ declared[index].parent \in ResourceKeys \cup {NoParent}
      /\ index \in 1 .. Len(declared) /\ Len(declared) \in Nat
  <2>1. index \in Nat \ {0} /\ Len(declared) \in Nat
    BY DEF Order!TypeOK
  <2>2. index \in 1 .. Len(declared)
    BY <1>1, <2>1
  <2> QED
    BY <2>1, <2>2, AsFunctions
<1>3. Order!TypeOK' /\ (stage = "done" <=> verdict # "none")'
  BY <1>1, <1>2 DEF Order!TypeOK
<1>4. sorted = <<>> /\ chain = <<>> /\ verdict = "none" /\ cursor = NoParent
  BY <1>1 DEF MapFollows
<1>5. Placed' = {} /\ Passed' = {}
  BY <1>1, <1>4 DEF Placed, Passed, Order!Placed, Order!Passed, Order!Members
<1>6. Read = index - 1 /\ Read' = index
  BY <1>1, <1>2 DEF Read
<1>7. ~Order!DuplicateKeys => \A i \in 1 .. index - 1 : declared[i].key # declared[index].key
  BY <1>2 DEF Order!DuplicateKeys
<1>8. MapFollows'
  <2>1. \A k \in ResourceKeys :
          parents'[k] # NoParent =>
            \E i \in 1 .. index : declared[i].key = k /\ declared[i].parent = parents'[k]
    BY <1>1, <1>2, <1>6 DEF MapFollows, Order!TypeOK
  <2>2. ~Order!DuplicateKeys => \A i \in 1 .. index : parents'[declared[i].key] = declared[i].parent
    BY <1>1, <1>2, <1>6, <1>7 DEF MapFollows, Order!TypeOK
  <2>3. Order!DuplicateKeys' = Order!DuplicateKeys
    BY <1>1 DEF Order!DuplicateKeys
  <2> QED
    BY <1>1, <1>2, <1>4, <1>6, <2>1, <2>2, <2>3 DEF MapFollows
<1> QED
  BY <1>1, <1>3, <1>4, <1>5, <1>8
     DEF SortedSoFar, ChainLinked, NoneForgotten, NoneInvented, Order!CyclesFound

LEMMA AllReadWalk == Walk /\ Order!AllRead => Walk'
<1> SUFFICES ASSUME Walk, Order!AllRead PROVE Walk'
  OBVIOUS
<1> USE StoresConstants DEF Walk, Order!OrderConstants
<1>1. /\ stage = "reading" /\ index > Len(declared) /\ index' = 1 /\ stage' = "next"
      /\ UNCHANGED <<declared, parents, cursor, chain, sorted, verdict>>
  BY DEF Order!AllRead
<1>2. Len(declared) \in Nat /\ index \in Nat
  BY DEF Order!TypeOK
<1>3. Read' = Read
  BY <1>1, <1>2 DEF Read, MapFollows
<1> QED
  BY <1>1, <1>2, <1>3, Kept
     DEF Order!TypeOK, MapFollows, SortedSoFar, ChainLinked, NoneForgotten, NoneInvented, Order!CyclesFound

LEMMA NextResourceWalk == Walk /\ Order!NextResource => Walk'
<1> SUFFICES ASSUME Walk, Order!NextResource PROVE Walk'
  OBVIOUS
<1> USE StoresConstants DEF Walk, Order!OrderConstants
<1>1. /\ stage = "next" /\ index <= Len(declared) /\ index' = index + 1 /\ stage' = "climbing"
      /\ cursor' = declared[index].key /\ chain' = <<>>
      /\ UNCHANGED <<declared, parents, sorted, verdict>>
  BY DEF Order!NextResource
<1>2. /\ declared[index].key \in ResourceKeys \cap Order!DeclaredKeys
      /\ index \in 1 .. Len(declared) /\ Len(declared) \in Nat
  <2>1. index \in Nat \ {0} /\ Len(declared) \in Nat
    BY DEF Order!TypeOK
  <2>2. index \in 1 .. Len(declared)
    BY <1>1, <2>1
  <2> QED
    BY <2>1, <2>2, AsFunctions
<1>3. Read' = Read /\ Passed' = {}
  BY <1>1 DEF Read, Passed, Order!Passed, Order!Members
<1>4. Order!TypeOK' /\ (stage = "done" <=> verdict # "none")'
  BY <1>1, <1>2 DEF Order!TypeOK
<1>5. MapFollows'
  BY <1>1, <1>2, <1>3, Kept DEF MapFollows
<1>6. SortedSoFar' /\ ChainLinked' /\ Order!CyclesFound'
  BY <1>1, <1>2, Kept DEF SortedSoFar, ChainLinked, Order!CyclesFound
<1>7. NoneForgotten'
  BY <1>1, <1>2, <1>4, Kept DEF NoneForgotten, Order!TypeOK
<1>8. NoneInvented'
  BY <1>1, <1>2, <1>3, Kept DEF NoneInvented
<1> QED
  BY <1>4, <1>5, <1>6, <1>7, <1>8

LEMMA ClimbWalk == Walk /\ Order!Climb => Walk'
<1> SUFFICES ASSUME Walk, Order!Climb PROVE Walk'
  OBVIOUS
<1> USE StoresConstants DEF Walk, Order!OrderConstants
<1>1. /\ stage = "climbing" /\ cursor \notin Placed \cup Passed \cup {NoParent}
      /\ chain' = Append(chain, cursor) /\ cursor' = parents[cursor]
      /\ UNCHANGED <<declared, stage, index, parents, sorted, verdict>>
  BY DEF Order!Climb, Placed, Passed
<1>2. cursor \in ResourceKeys /\ cursor' \in ResourceKeys \cup {NoParent}
  BY <1>1 DEF Order!TypeOK
<1>3. /\ Len(chain') = Len(chain) + 1 /\ chain'[Len(chain) + 1] = cursor
      /\ \A i \in 1 .. Len(chain) : chain'[i] = chain[i]
  BY <1>1, <1>2 DEF Order!TypeOK
<1>4. Order!TypeOK' /\ (stage = "done" <=> verdict # "none")'
  BY <1>1, <1>2 DEF Order!TypeOK
<1>5. Passed' = Passed \cup {cursor} /\ Placed' = Placed
  <2>1. DOMAIN chain' = 1 .. Len(chain) + 1 /\ Len(chain) \in Nat
    BY <1>1, <1>2 DEF Order!TypeOK
  <2>2. Passed' = {chain'[i] : i \in 1 .. Len(chain) + 1}
    BY <2>1 DEF Passed, Order!Passed, Order!Members
  <2>3. Passed = {chain[i] : i \in 1 .. Len(chain)}
    BY AsFunctions
  <2>4. Passed' = Passed \cup {cursor}
    BY <1>3, <2>1, <2>2, <2>3
  <2> QED
    BY <1>1, <2>4, Kept
<1>6. MapFollows'
  BY <1>1, Kept DEF MapFollows, Read
<1>7. SortedSoFar' /\ Order!CyclesFound'
  BY <1>1, Kept DEF SortedSoFar, Order!CyclesFound
<1>8. ChainLinked'
  BY <1>1, <1>3, AsFunctions DEF ChainLinked
<1>9. NoneForgotten'
  BY <1>1, <1>2, <1>5, AsFunctions DEF NoneForgotten
<1>10. NoneInvented'
  <2>1. ~Order!Dangling => parents[cursor] \in Order!DeclaredKeys \cup {NoParent}
    BY <1>2, AsFunctions DEF MapFollows, Read, Order!Dangling, Order!TypeOK
  <2> QED
    BY <1>1, <1>2, <1>5, <2>1, Kept DEF NoneInvented
<1> QED
  BY <1>4, <1>6, <1>7, <1>8, <1>9, <1>10

LEMMA CycleWalk == Walk /\ Order!Cycle => Walk'
<1> SUFFICES ASSUME Walk, Order!Cycle PROVE Walk'
  OBVIOUS
<1> USE StoresConstants DEF Walk, Order!OrderConstants
<1>1. /\ stage = "climbing" /\ cursor \in Passed \ Placed
      /\ stage' = "done" /\ verdict' = "cycle"
      /\ UNCHANGED <<declared, index, parents, cursor, chain, sorted>>
  BY DEF Order!Cycle, Placed, Passed
<1>2. Order!Cyclic
  <2>1. Passed \in SUBSET ResourceKeys /\ Passed # {}
    BY <1>1, AsFunctions
  <2>2. \A i \in 1 .. Len(chain) : parents[chain[i]] \in Passed
    <3> SUFFICES ASSUME NEW i \in 1 .. Len(chain) PROVE parents[chain[i]] \in Passed
      OBVIOUS
    <3>1. CASE i = Len(chain)
      BY <1>1, <3>1, AsFunctions DEF ChainLinked
    <3>2. CASE i < Len(chain)
      BY <1>1, <3>2, AsFunctions DEF ChainLinked
    <3> QED
      BY <3>1, <3>2, AsFunctions
  <2>3. \A k \in Passed : parents[k] \in Passed
    BY <2>2, AsFunctions
  <2> QED
    BY <2>1, <2>3, CycleWitness
<1>3. Order!TypeOK' /\ (stage = "done" <=> verdict # "none")'
  BY <1>1 DEF Order!TypeOK
<1>4. MapFollows' /\ SortedSoFar' /\ NoneInvented'
  BY <1>1, Kept DEF MapFollows, Read, SortedSoFar, NoneInvented
<1> QED
  BY <1>1, <1>2, <1>3, <1>4, Kept DEF ChainLinked, NoneForgotten, Order!CyclesFound

LEMMA ArrivedWalk == Walk /\ Order!Arrived => Walk'
<1> SUFFICES ASSUME Walk, Order!Arrived PROVE Walk'
  OBVIOUS
<1> USE StoresConstants DEF Walk, Order!OrderConstants
<1>1. /\ stage = "climbing" /\ cursor \in Placed \cup {NoParent} /\ stage' = "placing"
      /\ UNCHANGED <<declared, index, parents, cursor, chain, sorted, verdict>>
  BY DEF Order!Arrived, Placed
<1>2. Order!TypeOK' /\ (stage = "done" <=> verdict # "none")'
  BY <1>1 DEF Order!TypeOK
<1>3. MapFollows' /\ SortedSoFar' /\ NoneInvented' /\ ChainLinked' /\ Order!CyclesFound'
  BY <1>1, Kept DEF MapFollows, Read, SortedSoFar, NoneInvented, ChainLinked, Order!CyclesFound
<1>4. NoneForgotten'
  <2>1. index - 1 \in 1 .. Len(declared)
    BY <1>1, AsFunctions DEF NoneForgotten, MapFollows, Order!TypeOK
  <2>2. declared[index - 1].key # NoParent
    BY <2>1, AsFunctions
  <2> QED
    BY <1>1, <2>2, Kept DEF NoneForgotten
<1> QED
  BY <1>2, <1>3, <1>4

LEMMA AllPlacedWalk == Walk /\ Order!AllPlaced => Walk'
<1> SUFFICES ASSUME Walk, Order!AllPlaced PROVE Walk'
  OBVIOUS
<1> USE StoresConstants DEF Walk, Order!OrderConstants
<1>1. /\ stage = "placing" /\ chain = <<>> /\ stage' = "next"
      /\ UNCHANGED <<declared, index, parents, cursor, chain, sorted, verdict>>
  BY DEF Order!AllPlaced
<1>2. Order!TypeOK' /\ (stage = "done" <=> verdict # "none")'
  BY <1>1 DEF Order!TypeOK
<1>3. Passed = {}
  BY <1>1 DEF Passed, Order!Passed, Order!Members
<1>4. MapFollows' /\ SortedSoFar' /\ NoneInvented' /\ ChainLinked' /\ Order!CyclesFound'
  BY <1>1, Kept DEF MapFollows, Read, SortedSoFar, NoneInvented, ChainLinked, Order!CyclesFound
<1>5. NoneForgotten'
  BY <1>1, <1>3, Kept DEF NoneForgotten, Order!TypeOK
<1> QED
  BY <1>2, <1>4, <1>5
(* Placing a key whose parent has its place closes no set of placed keys. *)
LEMMA NoneClosed ==
  ASSUME NEW P \in SUBSET ResourceKeys, NEW c \in ResourceKeys, c \notin P,
         parents[c] \in P \cup {NoParent},
         \A k \in P : parents[k] \in P \cup {NoParent},
         \A K \in SUBSET P : (\A k \in K : parents[k] \in K) => K = {},
         NEW K \in SUBSET (P \cup {c}), \A k \in K : parents[k] \in K
  PROVE  K = {}
<1> USE StoresConstants DEF Order!OrderConstants
<1>1. CASE c \notin K
  BY <1>1
<1>2. CASE c \in K
  <2>1. K \ {c} \in SUBSET P /\ parents[c] \in K \ {c}
    BY <1>2
  <2>2. \A k \in K \ {c} : parents[k] \in K \ {c}
    BY <2>1
  <2> QED
    BY <2>1, <2>2
<1> QED
  BY <1>1, <1>2

(* What is left of a sequence without its last element. *)
LEMMA ChainButLast ==
  ASSUME NEW S, NEW s \in Seq(S), s # <<>>
  PROVE  /\ SubSeq(s, 1, Len(s) - 1) \in Seq(S) /\ Len(SubSeq(s, 1, Len(s) - 1)) = Len(s) - 1
         /\ DOMAIN SubSeq(s, 1, Len(s) - 1) = 1 .. Len(s) - 1
         /\ \A i \in 1 .. Len(s) - 1 : SubSeq(s, 1, Len(s) - 1)[i] = s[i]
<1> DEFINE n == Len(s) - 1
           t == SubSeq(s, 1, n)
<1>1. n \in Nat /\ n \in Int /\ \A i \in 1 .. n : s[i] \in S
  OBVIOUS
<1>2. /\ t \in Seq(S) /\ Len(t) = (IF 1 <= n THEN n - 1 + 1 ELSE 0)
      /\ \A i \in 1 .. n - 1 + 1 : t[i] = s[1 + i - 1]
  <2> HIDE DEF n
  <2> QED
    BY <1>1, SubSeqProperties
<1>3. Len(t) = n /\ \A i \in 1 .. n : t[i] = s[i]
  <2> HIDE DEF n, t
  <2> QED
    BY <1>1, <1>2
<1>4. DOMAIN t = 1 .. n
  BY <1>2, <1>3
<1> QED
  BY <1>2, <1>3, <1>4

(* The order so far, of the sequence a step leaves. *)
LEMMA SortedIs ==
  ASSUME NEW k, parents' = parents, DOMAIN sorted' = 1 .. k,
         \A i \in 1 .. k : parents[sorted'[i]] # NoParent =>
            \E j \in 1 .. k : j < i /\ sorted'[j] = parents[sorted'[i]],
         \A i, j \in 1 .. k : i # j => sorted'[i] # sorted'[j],
         \A K \in SUBSET Placed' : (\A q \in K : parents[q] \in K) => K = {}
  PROVE  SortedSoFar'
  BY DEF SortedSoFar

LEMMA PlaceWalk == Walk /\ Order!Place => Walk'
<1> SUFFICES ASSUME Walk, Order!Place PROVE Walk'
  OBVIOUS
<1> USE StoresConstants DEF Walk, Order!OrderConstants
<1> DEFINE n == Len(chain)
           m == Len(sorted)
           c == chain[n]
<1>1. /\ stage = "placing" /\ chain # <<>> /\ chain' = SubSeq(chain, 1, n - 1)
      /\ sorted' = IF c \in Placed THEN sorted ELSE Append(sorted, c)
      /\ UNCHANGED <<declared, stage, index, parents, cursor, verdict>>
  BY DEF Order!Place, Order!Topmost, Placed
<1>2. n \in Nat \ {0} /\ m \in Nat /\ c \in ResourceKeys \cap Passed
  <2>1. n \in Nat \ {0} /\ m \in Nat
    BY <1>1 DEF Order!TypeOK
  <2> QED
    BY <2>1, AsFunctions
<1>3. parents[c] \in Placed \cup {NoParent} /\ parents[c] \in ResourceKeys \cup {NoParent}
  BY <1>1, <1>2 DEF ChainLinked, Order!TypeOK
<1>4. /\ chain' \in Seq(ResourceKeys) /\ Len(chain') = n - 1
      /\ DOMAIN chain' = 1 .. n - 1 /\ \A i \in 1 .. n - 1 : chain'[i] = chain[i]
  BY <1>1, ChainButLast DEF Order!TypeOK
<1>5. Passed \subseteq Passed' \cup {c} /\ Passed' \subseteq Passed
  <2>1. Passed' = {chain'[i] : i \in 1 .. n - 1}
    BY <1>4 DEF Passed, Order!Passed, Order!Members
  <2>2. Passed = {chain[i] : i \in 1 .. n}
    BY AsFunctions
  <2> QED
    BY <1>2, <1>4, <2>1, <2>2
<1>6. CASE c \in Placed
  <2>1. sorted' = sorted /\ Placed' = Placed
    BY <1>1, <1>6, Kept
  <2>2. Order!TypeOK' /\ (stage = "done" <=> verdict # "none")'
    BY <1>1, <1>4, <2>1 DEF Order!TypeOK
  <2>3. MapFollows' /\ SortedSoFar' /\ Order!CyclesFound'
    BY <1>1, <2>1, Kept DEF MapFollows, Read, SortedSoFar, Order!CyclesFound
  <2> HIDE DEF n, m
  <2>4. ChainLinked'
    <3>1. \A j \in 1 .. (n - 1) - 1 : parents[chain'[j]] = chain'[j + 1]
      BY <1>1, <1>2, <1>4 DEF ChainLinked, n
    <3>2. chain' # <<>> => parents[chain'[n - 1]] = c
      BY <1>1, <1>2, <1>4 DEF ChainLinked, n
    <3> QED
      BY <1>1, <1>4, <1>6, <2>1, <3>1, <3>2 DEF ChainLinked
  <2>5. NoneForgotten' /\ NoneInvented'
    BY <1>1, <1>5, <1>6, <2>1, Kept DEF NoneForgotten, NoneInvented
  <2> QED
    BY <2>2, <2>3, <2>4, <2>5
<1>7. CASE c \notin Placed
  <2>1. sorted' = Append(sorted, c)
    BY <1>1, <1>7
  <2>2. /\ sorted' \in Seq(ResourceKeys) /\ Len(sorted') = m + 1 /\ DOMAIN sorted' = 1 .. m + 1
        /\ sorted'[m + 1] = c /\ \A i \in 1 .. m : sorted'[i] = sorted[i]
    BY <1>2, <2>1 DEF Order!TypeOK
  <2>3. Placed = {sorted[i] : i \in 1 .. m} /\ DOMAIN sorted = 1 .. m
    BY AsFunctions
  <2>4. Placed' = Placed \cup {c}
    <3>1. Placed' = {sorted'[i] : i \in 1 .. m + 1}
      BY <2>2 DEF Placed, Order!Placed, Order!Members
    <3> QED
      BY <1>2, <2>2, <2>3, <3>1
  <2>5. Order!TypeOK' /\ (stage = "done" <=> verdict # "none")'
    BY <1>1, <1>4, <2>2 DEF Order!TypeOK
  <2>6. MapFollows' /\ Order!CyclesFound'
    BY <1>1, Kept DEF MapFollows, Read, Order!CyclesFound
  <2> HIDE DEF n, m, c
  <2>7. SortedSoFar'
    <3>1. \A i \in 1 .. m + 1 : parents[sorted'[i]] # NoParent =>
            \E j \in 1 .. m + 1 : j < i /\ sorted'[j] = parents[sorted'[i]]
      <4>1. parents[c] # NoParent => \E j \in 1 .. m : sorted[j] = parents[c]
        BY <1>3, <2>3
      <4>2. \A i \in 1 .. m : parents[sorted[i]] # NoParent =>
              \E j \in 1 .. m : j < i /\ sorted[j] = parents[sorted[i]]
        BY <2>3 DEF SortedSoFar
      <4> QED
        BY <1>2, <2>2, <4>1, <4>2
    <3>2. \A i, j \in 1 .. m + 1 : i # j => sorted'[i] # sorted'[j]
      <4>1. \A i \in 1 .. m : sorted[i] # c
        BY <1>7, <2>3
      <4>2. \A i, j \in 1 .. m : i # j => sorted[i] # sorted[j]
        BY <2>3 DEF SortedSoFar
      <4> QED
        BY <1>2, <2>2, <4>1, <4>2
    <3>3. \A K \in SUBSET Placed' : (\A k \in K : parents[k] \in K) => K = {}
      <4>1. \A k \in Placed : parents[k] \in Placed \cup {NoParent}
        BY <2>3 DEF SortedSoFar
      <4>2. Placed \in SUBSET ResourceKeys
        BY AsFunctions
      <4>3. \A K \in SUBSET Placed : (\A k \in K : parents[k] \in K) => K = {}
        BY DEF SortedSoFar
      <4>4. parents[c] \in Placed \cup {NoParent} /\ c \notin Placed /\ c \in ResourceKeys
        BY <1>2, <1>3, <1>7
      <4>5. ASSUME NEW K \in SUBSET (Placed \cup {c}), \A k \in K : parents[k] \in K PROVE K = {}
        BY <4>1, <4>2, <4>3, <4>4, <4>5, NoneClosed
      <4> QED
        BY <2>4, <4>5
    <3>4. parents' = parents /\ DOMAIN sorted' = 1 .. m + 1
      BY <1>1, <2>2
    <3> QED
      BY <3>1, <3>2, <3>3, <3>4, SortedIs
  <2>8. ChainLinked'
    <3>1. \A j \in 1 .. (n - 1) - 1 : parents[chain'[j]] = chain'[j + 1]
      BY <1>1, <1>2, <1>4 DEF ChainLinked, n
    <3>2. chain' # <<>> => parents[chain'[n - 1]] = c
      BY <1>1, <1>2, <1>4 DEF ChainLinked, n, c
    <3> QED
      BY <1>1, <1>4, <2>4, <3>1, <3>2 DEF ChainLinked
  <2>9. NoneForgotten'
    BY <1>1, <1>5, <2>4 DEF NoneForgotten
  <2>10. NoneInvented'
    BY <1>1, <1>2, <1>5, <2>4, Kept DEF NoneInvented
  <2> QED
    BY <2>5, <2>6, <2>7, <2>8, <2>9, <2>10
<1> QED
  BY <1>6, <1>7

LEMMA OrderedWalk == Walk /\ Order!Ordered => Walk'
<1> SUFFICES ASSUME Walk, Order!Ordered PROVE Walk'
  OBVIOUS
<1> USE StoresConstants DEF Walk, Order!OrderConstants
<1>1. /\ stage = "next" /\ index > Len(declared) /\ stage' = "done" /\ verdict' = "ordered"
      /\ UNCHANGED <<declared, index, parents, cursor, chain, sorted>>
  BY DEF Order!Ordered
<1>2. index \in Nat /\ Len(declared) \in Nat /\ DOMAIN declared = 1 .. Len(declared)
  BY AsFunctions DEF Order!TypeOK
<1>3. \A i \in 1 .. Len(declared) : declared[i].key \in Placed
  BY <1>1, <1>2 DEF NoneForgotten, MapFollows
<1>4. ~Order!Cyclic
  <2> SUFFICES ASSUME NEW K \in SUBSET ResourceKeys, \A k \in K : parents[k] \in K PROVE K = {}
    BY DEF Order!Cyclic
  <2>1. \A k \in K : k \in Placed
    BY <1>1, <1>3 DEF MapFollows, Read
  <2> QED
    BY <2>1 DEF SortedSoFar
<1>5. Order!TypeOK' /\ (stage = "done" <=> verdict # "none")'
  BY <1>1 DEF Order!TypeOK
<1>6. MapFollows' /\ SortedSoFar' /\ NoneInvented'
  BY <1>1, Kept DEF MapFollows, Read, SortedSoFar, NoneInvented
<1>7. NoneForgotten'
  BY <1>1, <1>2, <1>3, Kept DEF NoneForgotten
<1> QED
  BY <1>1, <1>4, <1>5, <1>6, <1>7, Kept DEF ChainLinked, Order!CyclesFound

LEMMA RestWalk == Walk /\ UNCHANGED manifest => Walk'
<1> SUFFICES ASSUME Walk, UNCHANGED manifest PROVE Walk'
  OBVIOUS
<1>1. UNCHANGED <<declared, stage, index, parents, cursor, chain, sorted, verdict>>
  BY DEF manifest
<1> QED
  BY <1>1, Kept DEF Walk, Order!TypeOK, MapFollows, Read, SortedSoFar, ChainLinked, NoneForgotten,
     NoneInvented, Order!CyclesFound

LEMMA NextOInv == OInv /\ [StoresNext]_stores => OInv'
<1> SUFFICES ASSUME OInv, [StoresNext]_stores, focus = "manifest" PROVE Walk'
  BY FocusIsKept DEF OInv
<1>1. Walk
  BY DEF OInv
<1>2. CASE OrderStep
  BY <1>1, <1>2, ReadParentWalk, AllReadWalk, NextResourceWalk, ClimbWalk, CycleWalk, ArrivedWalk,
     PlaceWalk, AllPlacedWalk, OrderedWalk DEF OrderStep, Order!ONext
<1>3. CASE UNCHANGED stores
  BY <1>1, <1>3, RestWalk DEF stores
<1> QED
  BY <1>2, <1>3 DEF StoresNext, FeedStep, MemoStep, JtiStep, LoginStep, PollStep, RemoteStep

LEMMA InductiveOInv == StoresSpec => []OInv
<1>1. StoresInit => OInv
  BY InitOInv DEF OInv
<1> QED
  BY <1>1, NextOInv, PTL DEF StoresSpec

LEMMA WalkOrders == Walk => Order!OrderHolds
<1> SUFFICES ASSUME Walk, Order!Accepted PROVE Order!ParentsFirst
  BY DEF Walk, Order!OrderHolds, Order!ParentsFirst
<1> USE DEF Walk
<1>1. verdict = "ordered" /\ stage = "done" /\ ~Order!DuplicateKeys /\ ~Order!Dangling
  BY DEF Order!Accepted, Order!TypeOK
<1>2. Placed = Order!DeclaredKeys
  BY <1>1 DEF NoneForgotten, NoneInvented, Order!DeclaredKeys
<1>3. ASSUME NEW i \in DOMAIN declared, declared[i].parent # NoParent
      PROVE  Order!Before(declared[i].parent, declared[i].key)
  <2>1. parents[declared[i].key] = declared[i].parent
    BY <1>1, AsFunctions DEF MapFollows, Read
  <2>2. PICK j \in DOMAIN sorted : sorted[j] = declared[i].key
    BY <1>1, AsFunctions DEF NoneForgotten
  <2>3. PICK h \in DOMAIN sorted : h < j /\ sorted[h] = declared[i].parent
    BY <1>3, <2>1, <2>2 DEF SortedSoFar
  <2> QED
    BY <2>2, <2>3 DEF Order!Before
<1> QED
  BY <1>2, <1>3 DEF Order!ParentsFirst, SortedSoFar, Placed

(* Whatever the resources, a cycle is reported where there is one and nowhere
   else, and an accepted manifest's resources are placed once each, parents
   before children (topologicalOrder, management_manifest.go). *)
THEOREM ManifestsAreOrdered == StoresSpec => []ManifestsOrdered
<1>1. OInv => ManifestsOrdered
  BY WalkOrders DEF OInv, ManifestsOrdered
<1> QED
  BY <1>1, InductiveOInv, PTL

-----------------------------------------------------------------------------
(* Waiting for a decision taken elsewhere. *)

(* What the waits have used up is no more than the time that passed; and a CIBA
   token response is the end of its loop. *)
GrantKept ==
    /\ phase # "done" => deadline <= now + remaining
    /\ kind = "ciba" /\ granted => phase = "done"

(* Where a loop keeps the time the server named. *)
AdviceKept ==
    /\ phase \in {"opened", "sending"} => readyAt <= now
    /\ phase = "looping" => readyAt <= now + floor
    /\ phase = "retrying" => readyAt <= now + advice

Waits == Poll!TypeOK /\ GrantKept /\ AdviceKept

(* The strengthening of PollsInTime. *)
PInv == focus = "poll" => Waits

LEMMA InitPInv == StoresInit => PInv
<1> SUFFICES ASSUME StoresInit, focus = "poll" PROVE Waits
  BY DEF PInv
<1> USE StoresConstants DEF StoresInit, Poll!PInit, Poll!PollingConstants
<1>1. PICK e \in Expiries : deadline = now + e /\ remaining = e
  BY DEF Poll!PInit
<1>2. PICK i \in Intervals : interval = Poll!StartInterval(i)
  BY DEF Poll!PInit
<1>3. interval \in Nat \ {0}
  BY <1>2 DEF Poll!StartInterval
<1>4. now \in Nat /\ deadline \in Nat /\ remaining \in 0 .. deadline /\ deadline <= now + remaining
  BY <1>1
<1>5. granted \in BOOLEAN /\ ~granted
  OBVIOUS
<1>6. Poll!TypeOK
  BY <1>3, <1>4, <1>5 DEF Poll!TypeOK
<1> QED
  BY <1>4, <1>5, <1>6 DEF Waits, GrantKept, AdviceKept

(* The wait before a retry is a time, and no shorter than what the server asked. *)
LEMMA DelaysAreTimes ==
  ASSUME advice \in Nat, NEW wait \in Poll!Delays
  PROVE  wait \in Nat /\ advice <= wait
<1>1. PICK j \in 0 .. Poll!Smaller(MaxDelay, Poll!backoffFor[attempt]) : wait = Poll!Larger(advice, j)
  BY Zenon DEF Poll!Delays
<1>2. j \in Nat
  BY <1>1
<1> QED
  BY <1>1, <1>2 DEF Poll!Larger

LEMMA BeginWaits == Waits /\ Poll!Begin => Waits' /\ Poll!Punctual
  BY StoresConstants DEF Poll!PollingConstants, Waits, Poll!TypeOK, GrantKept, AdviceKept, Poll!Begin,
     Poll!grant, Poll!schedule, Poll!Punctual, Poll!Sends, Poll!NothingPastDeadline, Poll!HonoursRetryAfter,
     Poll!CibaAsksNotAgain, Poll!NoEarlyExpiry

LEMMA LoopWaits == Waits /\ (Poll!Abandon \/ Poll!Wait \/ Poll!Expire \/ Poll!Cancelled) => Waits' /\ Poll!Punctual
<1> USE StoresConstants DEF Poll!PollingConstants, Waits, Poll!TypeOK, GrantKept, AdviceKept,
        Poll!grant, Poll!schedule, Poll!Punctual, Poll!Sends, Poll!NothingPastDeadline, Poll!HonoursRetryAfter,
        Poll!CibaAsksNotAgain, Poll!NoEarlyExpiry, Poll!Finish
<1>1. Waits /\ Poll!Abandon => Waits' /\ Poll!Punctual
  BY DEF Poll!Abandon
<1>2. Waits /\ Poll!Wait => Waits' /\ Poll!Punctual
  BY DEF Poll!Wait, Poll!OutOfTime, Poll!Step, Poll!Spent, Poll!Larger
<1>3. Waits /\ Poll!Expire => Waits' /\ Poll!Punctual
  BY DEF Poll!Expire, Poll!OutOfTime, Poll!Step, Poll!Larger
<1>4. Waits /\ Poll!Cancelled => Waits' /\ Poll!Punctual
  BY DEF Poll!Cancelled
<1> QED
  BY <1>1, <1>2, <1>3, <1>4

LEMMA AnswerWaits ==
  ASSUME Waits, NEW d \in 0 .. MaxTrip, Poll!Answer(d)
  PROVE  Waits' /\ Poll!Punctual
<1> USE StoresConstants DEF Poll!PollingConstants, Waits, Poll!TypeOK, GrantKept, AdviceKept,
        Poll!grant, Poll!schedule, Poll!Punctual, Poll!Sends, Poll!NothingPastDeadline, Poll!HonoursRetryAfter,
        Poll!CibaAsksNotAgain, Poll!NoEarlyExpiry, Poll!Finish, Poll!Answered, Poll!LoopAgain
<1>1. Poll!AuthorizationPending(d) => Waits' /\ Poll!Punctual
  BY DEF Poll!AuthorizationPending
<1>2. Poll!SlowDown(d) => Waits' /\ Poll!Punctual
  BY DEF Poll!SlowDown
<1>3. Poll!Terminal(d) => Waits' /\ Poll!Punctual
  BY DEF Poll!Terminal
<1>8. Poll!Token(d) => Waits' /\ Poll!Punctual
  BY DEF Poll!Token
<1>4. Poll!Unusable(d) => Waits' /\ Poll!Punctual
  BY DEF Poll!Unusable, Poll!SurvivesNetworkError
<1>5. ASSUME NEW r \in RetryAfters, Poll!RateLimited(d, r) PROVE Waits' /\ Poll!Punctual
  BY <1>5 DEF Poll!RateLimited, Poll!Larger
<1>6. ASSUME NEW r \in RetryAfters, Poll!Throttled(d, r) PROVE Waits' /\ Poll!Punctual
  BY <1>6 DEF Poll!Throttled, Poll!Larger
<1>7. ASSUME NEW r \in RetryAfters, Poll!Unavailable(d, r) PROVE Waits' /\ Poll!Punctual
  BY <1>7 DEF Poll!Unavailable, Poll!Larger
<1> QED
  BY <1>1, <1>2, <1>3, <1>4, <1>5, <1>6, <1>7, <1>8 DEF Poll!Answer

LEMMA RetryWaits == Waits /\ (Poll!Retry \/ Poll!RetryMeetsDeadline \/ Poll!Exhausted) => Waits' /\ Poll!Punctual
<1> USE StoresConstants DEF Poll!PollingConstants, Waits, Poll!TypeOK, GrantKept, AdviceKept,
        Poll!grant, Poll!schedule, Poll!Punctual, Poll!Sends, Poll!NothingPastDeadline, Poll!HonoursRetryAfter,
        Poll!CibaAsksNotAgain, Poll!NoEarlyExpiry, Poll!Finish, Poll!LoopAgain, Poll!Left
<1>1. ASSUME Waits, Poll!Retry PROVE Waits' /\ Poll!Punctual
  <2>1. advice \in Nat
    BY <1>1
  <2>2. PICK wait \in Poll!Delays : wait < Poll!Left /\ now' = now + wait
    BY <1>1 DEF Poll!Retry
  <2>3. wait \in Nat /\ advice <= wait
    BY <2>1, <2>2, DelaysAreTimes
  <2> QED
    BY <1>1, <2>2, <2>3 DEF Poll!Retry
<1>2. Waits /\ Poll!RetryMeetsDeadline => Waits' /\ Poll!Punctual
  BY DEF Poll!RetryMeetsDeadline
<1>3. Waits /\ Poll!Exhausted => Waits' /\ Poll!Punctual
  BY DEF Poll!Exhausted
<1> QED
  BY <1>1, <1>2, <1>3

LEMMA NextPInv ==
  PInv /\ [StoresNext]_stores => PInv' /\ [focus = "poll" => Poll!Punctual]_stores
<1> SUFFICES ASSUME PInv, [StoresNext]_stores, focus = "poll"
             PROVE  Waits' /\ [focus = "poll" => Poll!Punctual]_stores
  BY FocusIsKept DEF PInv
<1>0. Waits
  BY DEF PInv
<1>1. CASE PollStep
  BY <1>0, <1>1, BeginWaits, LoopWaits, AnswerWaits, RetryWaits DEF PollStep, Poll!PNext
<1>2. CASE UNCHANGED stores
  BY <1>0, <1>2 DEF stores, grants, Waits, Poll!TypeOK, GrantKept, AdviceKept
<1> QED
  BY <1>1, <1>2 DEF StoresNext, FeedStep, MemoStep, JtiStep, LoginStep, RemoteStep, OrderStep

(* A polling loop sends nothing at or after the deadline of its grant and comes back
   no earlier than the server asked, as far as the loop was told (Exhausted); nothing
   follows a token response in the CIBA loop, where in the device loop something may;
   and no grant is given up that another request could still have got
   (oidc_device.go:73-93, oidc_ciba.go:679-683). *)
THEOREM GrantsPolledInTime == StoresSpec => PollsInTime
  BY InitPInv, NextPInv, PTL DEF StoresSpec, PollsInTime

-----------------------------------------------------------------------------
(* What must not be asked for twice. *)

Histories ==
    [Callers -> [op : Remote!Writes \cup {"none"}, n : Nat, landed : Nat, alone : BOOLEAN,
                 end : {"none", "ok", "refused", "unsure"}, read : {"none", "ok", "refused", "unsure"}]]
Registrations == [there : BOOLEAN, version : Nat, extra : BOOLEAN]

(* A write has a number of its own, which its process has not gone beyond: until
   it ends it has not taken effect, its process reads nothing, and a request given
   up is the only one that still can take effect. *)
Numbered ==
    /\ \A w \in Callers : write[w].n <= calls
    /\ \A w \in Callers : sent[w].op \in Remote!Writes =>
          /\ sent[w].n = write[w].n /\ sent[w].op = write[w].op
          /\ write[w].end = "none" /\ write[w].landed = 0 /\ write[w].read = "none"
    /\ \A r \in late :
          /\ r.request.op \in Remote!Writes /\ r.request.n <= write[r.from].n
          /\ r.request.n = write[r.from].n => write[r.from].landed = 0 /\ write[r.from].end = "unsure"
    /\ \A r, q \in late : r.from = q.from /\ r.request.n = q.request.n => r = q

(* A process asks with the token it holds, which is the current one as long as
   nobody, itself included, wrote the registration since its last write began. *)
TokensCurrent ==
    \A w \in Callers :
        /\ sent[w].op \in Remote!RegistrationOps => sent[w].token = token[w]
        /\ write[w].op \in Remote!RegistrationOps /\ write[w].alone /\ write[w].landed = 0
             => reg.there /\ token[w] = reg.version

(* The registration an update is made from is the one its token came with. *)
BuiltOnToken ==
    /\ reg.extra = TRUE
    /\ \A w \in Callers : copy[w].extra = TRUE /\ (copy[w].known => copy[w].base = token[w])
    /\ \A w \in Callers : sent[w].body.extra = TRUE /\ (sent[w].op = "update" => sent[w].body.base = sent[w].token)
    /\ \A r \in late :
          r.request.body.extra = TRUE /\ (r.request.op = "update" => r.request.body.base = r.request.token)

Books == Numbered /\ TokensCurrent /\ BuiltOnToken /\ Remote!VerdictsTrue /\ Remote!AtMostOnce /\ Remote!LossIsFoundOut

(* The strengthening of WritesOnce. *)
WInv == focus = "remote" => Remote!TypeOK /\ Books

LEMMA InitWInv == StoresInit => WInv
<1> SUFFICES ASSUME StoresInit PROVE Remote!TypeOK /\ Books
  BY DEF WInv
<1> USE StoresConstants DEF StoresInit, Remote!WInit, Remote!RemoteConstants, Remote!Waiting, Remote!Opening, Remote!NoCopy
<1>1. Remote!TypeOK
  BY DEF Remote!TypeOK, Remote!Copies, Remote!Requests
<1>2. Numbered /\ TokensCurrent /\ BuiltOnToken
  BY DEF Numbered, TokensCurrent, BuiltOnToken, Remote!Writes, Remote!RegistrationOps
<1>3. Remote!VerdictsTrue /\ Remote!AtMostOnce /\ Remote!LossIsFoundOut
  BY DEF Remote!VerdictsTrue, Remote!AtMostOnce, Remote!LossIsFoundOut
<1> QED
  BY <1>1, <1>2, <1>3 DEF Books

(* What the histories say once a request is carried out ... *)
NotedAs(h, w, m) ==
    /\ h \in Histories
    /\ \A x \in Callers :
         /\ h[x].op = write[x].op /\ h[x].n = write[x].n /\ h[x].end = write[x].end /\ h[x].read = write[x].read
         /\ h[x].landed = IF m.op \in Remote!Writes /\ x = w /\ m.n = write[x].n THEN write[x].landed + 1
                          ELSE write[x].landed
         /\ h[x].alone => write[x].alone
         /\ h[x].alone /\ m.op \in Remote!Writes /\ m.op \in Remote!RegistrationOps => x = w /\ m.n = write[x].n

LEMMA NotedIs ==
  ASSUME write \in Histories, NEW w \in Callers, NEW m
  PROVE  NotedAs(Remote!Noted(w, m), w, m)
<1>1. CASE m.op \notin Remote!Writes
  BY <1>1 DEF Remote!Noted, Histories, NotedAs
<1>2. CASE m.op \in Remote!Writes
  <2> DEFINE H(x) == IF x = w /\ m.n = write[x].n THEN [write[x] EXCEPT !.landed = write[x].landed + 1]
                     ELSE [write[x] EXCEPT !.alone = write[x].alone /\ m.op \notin Remote!RegistrationOps]
  <2>1. Remote!Noted(w, m) = [x \in Callers |-> H(x)]
    BY <1>2 DEF Remote!Noted
  <2>2. ASSUME NEW x \in Callers
        PROVE  /\ H(x) \in [op : Remote!Writes \cup {"none"}, n : Nat, landed : Nat, alone : BOOLEAN,
                            end : {"none", "ok", "refused", "unsure"}, read : {"none", "ok", "refused", "unsure"}]
               /\ H(x).op = write[x].op /\ H(x).n = write[x].n /\ H(x).end = write[x].end /\ H(x).read = write[x].read
               /\ H(x).landed = IF x = w /\ m.n = write[x].n THEN write[x].landed + 1 ELSE write[x].landed
               /\ H(x).alone => write[x].alone
               /\ H(x).alone /\ m.op \in Remote!RegistrationOps => x = w /\ m.n = write[x].n
    <3>1. CASE x = w /\ m.n = write[x].n
      <4>1. H(x) = [write[x] EXCEPT !.landed = write[x].landed + 1]
        BY <3>1
      <4> HIDE DEF H
      <4> QED
        BY <3>1, <4>1 DEF Histories
    <3>2. CASE ~(x = w /\ m.n = write[x].n)
      <4>1. PICK b \in BOOLEAN : b = (write[x].alone /\ m.op \notin Remote!RegistrationOps)
        OBVIOUS
      <4>2. H(x) = [write[x] EXCEPT !.alone = b]
        BY <3>2, <4>1
      <4> HIDE DEF H
      <4>3. /\ H(x) \in [op : Remote!Writes \cup {"none"}, n : Nat, landed : Nat, alone : BOOLEAN,
                         end : {"none", "ok", "refused", "unsure"}, read : {"none", "ok", "refused", "unsure"}]
            /\ H(x).op = write[x].op /\ H(x).n = write[x].n /\ H(x).end = write[x].end /\ H(x).read = write[x].read
            /\ H(x).landed = write[x].landed /\ H(x).alone = b
        BY <4>2 DEF Histories
      <4> QED
        BY <3>2, <4>1, <4>3
    <3> QED
      BY <3>1, <3>2
  <2> HIDE DEF H
  <2> QED
    BY <1>2, <2>1, <2>2 DEF Histories, NotedAs
<1> QED
  BY <1>1, <1>2

(* ... and once a call has ended. *)
EndedAs(e, h, w, how) ==
    /\ e \in Histories
    /\ \A x \in Callers :
         /\ e[x].op = h[x].op /\ e[x].n = h[x].n /\ e[x].landed = h[x].landed /\ e[x].alone = h[x].alone
         /\ e[x].end = IF x = w /\ sent[w].op \in Remote!Writes THEN how ELSE h[x].end
         /\ e[x].read = IF x = w /\ sent[w].op = "read" THEN how ELSE h[x].read

LEMMA EndedIs ==
  ASSUME NEW h \in Histories, NEW w \in Callers, NEW how \in {"ok", "refused", "unsure"}
  PROVE  EndedAs(Remote!Ended(h, w, how), h, w, how)
<1> DEFINE e == Remote!Ended(h, w, how)
<1> USE DEF Histories, Remote!Writes, EndedAs
<1>1. CASE sent[w].op \in Remote!Writes
  <2>1. e = [h EXCEPT ![w].end = how]
    BY <1>1 DEF Remote!Ended
  <2> HIDE DEF e
  <2>2. EndedAs(e, h, w, how)
    BY <1>1, <2>1
  <2> QED
    BY <2>2 DEF e
<1>2. CASE sent[w].op = "read"
  <2>1. e = [h EXCEPT ![w].read = how]
    BY <1>2 DEF Remote!Ended
  <2> HIDE DEF e
  <2>2. EndedAs(e, h, w, how)
    BY <1>2, <2>1
  <2> QED
    BY <2>2 DEF e
<1>3. CASE sent[w].op \notin Remote!Writes /\ sent[w].op # "read"
  <2>1. e = h
    BY <1>3 DEF Remote!Ended
  <2> HIDE DEF e
  <2>2. EndedAs(e, h, w, how)
    BY <1>3, <2>1
  <2> QED
    BY <2>2 DEF e
<1> QED
  BY <1>1, <1>2, <1>3

LEMMA CarriedOutIs ==
  ASSUME reg \in Registrations, NEW m \in Remote!Requests
  PROVE  /\ Remote!CarriedOut(m) \in Registrations
         /\ Remote!CarriedOut(m).there => reg.there
         /\ m.op # "delete" => Remote!CarriedOut(m).there = reg.there
         /\ Remote!CarriedOut(m).version = IF m.op = "update" THEN reg.version + 1 ELSE reg.version
         /\ Remote!CarriedOut(m).extra = IF m.op = "update" THEN m.body.extra ELSE reg.extra
<1>1. CASE m.op = "update"
  <2>1. Remote!CarriedOut(m) = [reg EXCEPT !.version = @ + 1, !.extra = m.body.extra]
    BY <1>1 DEF Remote!CarriedOut
  <2>2. m.body.extra \in BOOLEAN
    BY DEF Remote!Requests, Remote!Copies
  <2> DEFINE x == m.body.extra
             v == reg.version + 1
  <2>3. PICK e : e = [reg EXCEPT !.version = v, !.extra = x]
    OBVIOUS
  <2>4. e \in Registrations /\ e.there = reg.there /\ e.version = v /\ e.extra = x
    <3>1. v \in Nat /\ x \in BOOLEAN
      BY <2>2 DEF Registrations
    <3> HIDE DEF v, x
    <3> QED
      BY <2>3, <3>1 DEF Registrations
  <2>5. Remote!CarriedOut(m) = e
    BY <2>1, <2>3
  <2> QED
    BY <1>1, <2>4, <2>5
<1>2. CASE m.op = "delete"
  BY <1>2 DEF Remote!CarriedOut, Registrations
<1>3. CASE m.op \notin {"update", "delete"}
  BY <1>3 DEF Remote!CarriedOut
<1> QED
  BY <1>1, <1>2, <1>3

LEMMA BeginBooks ==
  ASSUME Remote!TypeOK, Books, NEW w \in Callers, NEW op \in Remote!Operations, Remote!Begin(w, op)
  PROVE  Remote!TypeOK' /\ Books'
<1> DEFINE body == IF op = "update" THEN copy[w] ELSE Remote!NoCopy
           m == Remote!Waiting(op, calls + 1, token[w], body)
           alone == reg.there /\ token[w] = reg.version
           o == Remote!Opening(op, calls + 1, alone)
<1> USE DEF Remote!Writes, Remote!RegistrationOps
<1>0. /\ reg \in Registrations /\ token \in [Callers -> Nat] /\ write \in Histories
      /\ calls \in Nat /\ calls' = calls + 1 /\ calls' \in 0 .. MaxCalls
      /\ sent[w].op = "none" /\ op # "none" /\ (op = "update" => copy[w].known)
      /\ UNCHANGED <<reg, token, copy, late>>
  BY StoresConstants DEF Remote!TypeOK, Remote!Begin, Remote!RemoteConstants, Histories, Registrations,
     Remote!Idle, Remote!Operations
<1>1. body \in Remote!Copies /\ body.extra = TRUE /\ (op = "update" => body.base = token[w])
  BY <1>0 DEF Remote!TypeOK, Remote!Copies, Books, BuiltOnToken, Remote!NoCopy
<1>2. /\ m \in Remote!Requests /\ m.op = op /\ m.n = calls + 1 /\ m.token = token[w] /\ m.body = body
      /\ m.attempt = 1
  <2> HIDE DEF body
  <2> QED
    BY <1>0, <1>1 DEF Remote!Waiting, Remote!Requests
<1>3. sent' = [sent EXCEPT ![w] = m]
  BY DEF Remote!Begin, Remote!UpdateBody
<1> HIDE DEF m, body
<1>4. \A x \in Callers : sent'[x] = IF x = w THEN m ELSE sent[x]
  BY <1>3 DEF Remote!TypeOK
<1>5. PICK b \in BOOLEAN : b = alone
  OBVIOUS
<1>6. write' = IF op \in Remote!Writes THEN [write EXCEPT ![w] = o] ELSE write
  BY DEF Remote!Begin
<1>7. op \in Remote!Writes =>
        /\ o \in [op : Remote!Writes \cup {"none"}, n : Nat, landed : Nat, alone : BOOLEAN,
                  end : {"none", "ok", "refused", "unsure"}, read : {"none", "ok", "refused", "unsure"}]
        /\ o.op = op /\ o.n = calls + 1 /\ o.end = "none" /\ o.landed = 0 /\ o.alone = b /\ o.read = "none"
  <2> HIDE DEF alone
  <2> QED
    BY <1>0, <1>5 DEF Remote!Opening
<1> HIDE DEF o
<1>8. /\ write' \in Histories
      /\ \A x \in Callers : write'[x] = IF op \in Remote!Writes /\ x = w THEN o ELSE write[x]
  BY <1>0, <1>6, <1>7 DEF Histories
<1>9. Remote!TypeOK'
  <2>1. sent' \in [Callers -> Remote!Requests] /\ \A x \in Callers : sent'[x].attempt <= MaxAttempts
    BY <1>2, <1>3, StoresConstants DEF Remote!TypeOK, Remote!RemoteConstants
  <2> QED
    BY <1>0, <1>8, <2>1 DEF Remote!TypeOK, Histories
<1>10. Numbered'
  <2>1. \A x \in Callers : write'[x].n <= calls' /\ write'[x].n \in Nat
    BY <1>0, <1>7, <1>8 DEF Books, Numbered, Histories
  <2>2. \A x \in Callers : sent'[x].op \in Remote!Writes =>
          /\ sent'[x].n = write'[x].n /\ sent'[x].op = write'[x].op
          /\ write'[x].end = "none" /\ write'[x].landed = 0 /\ write'[x].read = "none"
    BY <1>2, <1>4, <1>7, <1>8 DEF Books, Numbered
  <2>3. ASSUME NEW r \in late
        PROVE  /\ r.request.op \in Remote!Writes /\ r.request.n <= write'[r.from].n
               /\ r.request.n = write'[r.from].n => write'[r.from].landed = 0 /\ write'[r.from].end = "unsure"
    <3>1. r.from \in Callers /\ r.request.n \in Nat
      BY DEF Remote!TypeOK, Remote!Requests
    <3>2. r.request.n <= write[r.from].n /\ write[r.from].n <= calls /\ write[r.from].n \in Nat
      BY <1>0, <3>1 DEF Books, Numbered, Histories
    <3>3. CASE op \in Remote!Writes /\ r.from = w
      BY <1>0, <1>7, <1>8, <3>1, <3>2, <3>3 DEF Books, Numbered
    <3>4. CASE ~(op \in Remote!Writes /\ r.from = w)
      <4>1. write'[r.from] = write[r.from]
        BY <1>8, <3>1, <3>4
      <4> QED
        BY <4>1 DEF Books, Numbered
    <3> QED
      BY <3>3, <3>4
  <2> QED
    BY <1>0, <2>1, <2>2, <2>3 DEF Books, Numbered
<1>11. TokensCurrent'
  BY <1>0, <1>2, <1>4, <1>5, <1>7, <1>8 DEF Books, TokensCurrent
<1>12. BuiltOnToken'
  BY <1>0, <1>1, <1>2, <1>4 DEF Books, BuiltOnToken
<1>13. Remote!VerdictsTrue' /\ Remote!AtMostOnce' /\ Remote!LossIsFoundOut'
  BY <1>0, <1>7, <1>8 DEF Books, Remote!VerdictsTrue, Remote!AtMostOnce, Remote!LossIsFoundOut
<1> QED
  BY <1>9, <1>10, <1>11, <1>12, <1>13 DEF Books

(* A process gets an answer, or gives up, and takes no more interest. *)
LEMMA ReturnIs ==
  ASSUME Remote!TypeOK, NEW w \in Callers, Remote!Return(w)
  PROVE  /\ sent' \in [Callers -> Remote!Requests] /\ \A x \in Callers : sent'[x].attempt <= MaxAttempts
         /\ \A x \in Callers : x # w => sent'[x] = sent[x]
         /\ sent'[w].op = "none" /\ sent'[w].body.extra = TRUE
<1> DEFINE m == Remote!Waiting("none", 0, 0, Remote!NoCopy)
<1>1. m \in Remote!Requests /\ m.attempt = 1 /\ m.op = "none" /\ m.body.extra = TRUE
  BY DEF Remote!Waiting, Remote!NoCopy, Remote!Requests, Remote!Copies
<1>2. sent' = [sent EXCEPT ![w] = m]
  BY DEF Remote!Return
<1> HIDE DEF m
<1> QED
  BY <1>1, <1>2, StoresConstants DEF Remote!TypeOK, Remote!RemoteConstants

LEMMA SucceedBooks ==
  ASSUME Remote!TypeOK, Books, NEW w \in Callers, Remote!Succeed(w)
  PROVE  Remote!TypeOK' /\ Books' /\ Remote!BuildsOnLatest
<1> DEFINE m == sent[w]
           h == Remote!Noted(w, m)
           fresh == [known |-> TRUE, base |-> reg'.version, extra |-> reg'.extra]
<1> USE DEF Remote!Writes, Remote!RegistrationOps
<1>0. /\ reg \in Registrations /\ token \in [Callers -> Nat] /\ write \in Histories
      /\ m \in Remote!Requests /\ m.op # "none" /\ Remote!Authorized(m)
      /\ UNCHANGED <<late, calls>>
  BY DEF Remote!TypeOK, Remote!Succeed, Histories, Registrations, Remote!Idle
<1>1. /\ reg' \in Registrations /\ (m.op # "delete" => reg'.there = reg.there)
      /\ reg'.version = IF m.op = "update" THEN reg.version + 1 ELSE reg.version
      /\ reg'.extra = TRUE
      /\ reg'.version # reg.version => m.op = "update"
  <2>1. reg' = Remote!CarriedOut(m)
    BY DEF Remote!Succeed
  <2>2. reg.extra = TRUE /\ (m.op = "update" => m.body.extra = TRUE)
    BY DEF Books, BuiltOnToken
  <2> QED
    BY <1>0, <2>1, <2>2, CarriedOutIs
<1>2. /\ write' \in Histories
      /\ \A x \in Callers :
           /\ write'[x].op = write[x].op /\ write'[x].n = write[x].n
           /\ write'[x].end = IF x = w /\ m.op \in Remote!Writes THEN "ok" ELSE write[x].end
           /\ write'[x].read = IF x = w /\ m.op = "read" THEN "ok" ELSE write[x].read
           /\ write'[x].landed = IF m.op \in Remote!Writes /\ x = w THEN 1 ELSE write[x].landed
           /\ write'[x].alone => write[x].alone
           /\ write'[x].alone /\ m.op \in Remote!Writes /\ m.op \in Remote!RegistrationOps => x = w
  <2>1. write' = Remote!Ended(h, w, "ok")
    BY DEF Remote!Succeed
  <2>2. m.op \in Remote!Writes => m.n = write[w].n /\ write[w].landed = 0
    BY DEF Books, Numbered
  <2> HIDE DEF m
  <2>3. NotedAs(h, w, m)
    BY <1>0, NotedIs
  <2>4. h \in Histories
    BY <2>3 DEF NotedAs
  <2>5. EndedAs(write', h, w, "ok")
    <3> HIDE DEF h
    <3> QED
      BY <2>1, <2>4, EndedIs
  <2> HIDE DEF h
  <2> QED
    BY <2>2, <2>3, <2>5 DEF NotedAs, EndedAs, m
<1>3. /\ sent' \in [Callers -> Remote!Requests] /\ \A x \in Callers : sent'[x].attempt <= MaxAttempts
      /\ \A x \in Callers : x # w => sent'[x] = sent[x]
      /\ sent'[w].op = "none" /\ sent'[w].body.extra = TRUE
  BY ReturnIs DEF Remote!Succeed
<1>4. \A x \in Callers : token'[x] = IF x = w /\ m.op = "update" THEN reg'.version ELSE token[x]
  BY <1>0 DEF Remote!Succeed
<1>5. token' \in [Callers -> Nat]
  BY <1>0, <1>1 DEF Remote!Succeed, Registrations
<1>6. /\ copy' \in [Callers -> Remote!Copies]
      /\ \A x \in Callers : copy'[x] = IF x = w /\ m.op \in {"read", "update"} THEN fresh ELSE copy[x]
      /\ fresh.extra = TRUE /\ fresh.base = reg'.version
  <2>1. fresh \in Remote!Copies /\ fresh.extra = TRUE /\ fresh.base = reg'.version
    BY <1>1 DEF Registrations, Remote!Copies
  <2>2. copy' = IF m.op \in {"read", "update"} THEN [copy EXCEPT ![w] = fresh] ELSE copy
    BY DEF Remote!Succeed
  <2> HIDE DEF fresh
  <2> QED
    BY <2>1, <2>2 DEF Remote!TypeOK
<1>7. m.op \in Remote!RegistrationOps => reg.there /\ m.token = reg.version /\ m.token = token[w]
  BY <1>0 DEF Remote!Authorized, Books, TokensCurrent
<1>a. /\ m.op \in Remote!Writes => m.n = write[w].n /\ m.op = write[w].op /\ write[w].landed = 0 /\ write[w].end = "none"
      /\ m.op = "update" => m.body.base = m.token
  BY DEF Books, Numbered, BuiltOnToken
<1> HIDE DEF m, h, fresh
<1>8. Remote!TypeOK'
  BY <1>0, <1>1, <1>2, <1>3, <1>5, <1>6 DEF Remote!TypeOK, Histories, Registrations
<1>9. Numbered'
  <2>1. ASSUME NEW r \in late
        PROVE  /\ r.request.op \in Remote!Writes /\ r.request.n <= write'[r.from].n
               /\ r.request.n = write'[r.from].n => write'[r.from].landed = 0 /\ write'[r.from].end = "unsure"
    <3>1. r.from \in Callers
      BY DEF Remote!TypeOK
    <3>2. ~(r.from = w /\ m.op \in Remote!Writes /\ r.request.n = write[w].n)
      BY <1>a DEF Books, Numbered
    <3> QED
      BY <1>2, <3>1, <3>2 DEF Books, Numbered
  <2> QED
    BY <1>0, <1>2, <1>3, <2>1 DEF Books, Numbered
<1>10. TokensCurrent'
  <2> SUFFICES ASSUME NEW x \in Callers
               PROVE  /\ sent'[x].op \in Remote!RegistrationOps => sent'[x].token = token'[x]
                      /\ write'[x].op \in Remote!RegistrationOps /\ write'[x].alone /\ write'[x].landed = 0
                           => reg'.there /\ token'[x] = reg'.version
    BY DEF TokensCurrent
  <2>1. sent'[x].op \in Remote!RegistrationOps => sent'[x].token = token'[x]
    BY <1>3, <1>4 DEF Books, TokensCurrent
  <2>2. ASSUME write'[x].op \in Remote!RegistrationOps, write'[x].alone, write'[x].landed = 0
        PROVE  reg'.there /\ token'[x] = reg'.version
    <3>1. m.op \notin {"update", "delete"}
      BY <1>2, <2>2
    <3>2. reg.there /\ token[x] = reg.version
      <4>1. write[x].op \in Remote!RegistrationOps /\ write[x].alone /\ write[x].landed = 0
        BY <1>2, <2>2, <1>a
      <4> QED
        BY <4>1 DEF Books, TokensCurrent
    <3> QED
      BY <1>1, <1>4, <3>1, <3>2
  <2> QED
    BY <2>1, <2>2
<1>11. BuiltOnToken'
  <2>1. \A x \in Callers : copy'[x].extra = TRUE /\ (copy'[x].known => copy'[x].base = token'[x])
    BY <1>1, <1>4, <1>6, <1>7 DEF Books, BuiltOnToken
  <2>2. \A x \in Callers : sent'[x].body.extra = TRUE /\ (sent'[x].op = "update" => sent'[x].body.base = sent'[x].token)
    BY <1>3 DEF Books, BuiltOnToken
  <2> QED
    BY <1>0, <1>1, <2>1, <2>2 DEF Books, BuiltOnToken
<1>12. Remote!VerdictsTrue' /\ Remote!AtMostOnce' /\ Remote!LossIsFoundOut'
  BY <1>0, <1>2 DEF Books, Remote!VerdictsTrue, Remote!AtMostOnce, Remote!LossIsFoundOut
<1>13. Remote!BuildsOnLatest
  BY <1>1, <1>7, <1>a DEF Remote!BuildsOnLatest, m
<1> QED
  BY <1>8, <1>9, <1>10, <1>11, <1>12, <1>13 DEF Books

LEMMA RefuseBooks ==
  ASSUME Remote!TypeOK, Books, NEW w \in Callers, Remote!Refuse(w)
  PROVE  Remote!TypeOK' /\ Books'
<1> USE DEF Remote!Writes, Remote!RegistrationOps
<1>0. /\ write \in Histories /\ sent[w].op # "none"
      /\ sent[w].op \in {"read", "delete"} => ~Remote!Authorized(sent[w])
      /\ UNCHANGED <<reg, token, copy, late, calls>>
  BY DEF Remote!TypeOK, Remote!Refuse, Histories, Remote!Idle
<1>1. /\ write' \in Histories
      /\ \A x \in Callers :
           /\ write'[x].op = write[x].op /\ write'[x].n = write[x].n
           /\ write'[x].landed = write[x].landed /\ write'[x].alone = write[x].alone
           /\ write'[x].end = IF x = w /\ sent[w].op \in Remote!Writes THEN "refused" ELSE write[x].end
           /\ write'[x].read = IF x = w /\ sent[w].op = "read" THEN "refused" ELSE write[x].read
  <2>1. write' = Remote!Ended(write, w, "refused")
    BY DEF Remote!Refuse
  <2>2. EndedAs(write', write, w, "refused")
    BY <1>0, <2>1, EndedIs
  <2> QED
    BY <2>2 DEF EndedAs
<1>2. /\ sent' \in [Callers -> Remote!Requests] /\ \A x \in Callers : sent'[x].attempt <= MaxAttempts
      /\ \A x \in Callers : x # w => sent'[x] = sent[x]
      /\ sent'[w].op = "none" /\ sent'[w].body.extra = TRUE
  BY ReturnIs DEF Remote!Refuse
<1>3. Remote!TypeOK'
  BY <1>0, <1>1, <1>2 DEF Remote!TypeOK, Histories
<1>4. sent[w].op \in Remote!Writes =>
        /\ write[w].landed = 0 /\ write[w].end = "none"
        /\ \A r \in late : r.from = w => r.request.n # write[w].n
  BY DEF Books, Numbered
<1>5. Numbered'
  <2>1. ASSUME NEW r \in late
        PROVE  /\ r.request.op \in Remote!Writes /\ r.request.n <= write'[r.from].n
               /\ r.request.n = write'[r.from].n => write'[r.from].landed = 0 /\ write'[r.from].end = "unsure"
    <3>1. r.from \in Callers
      BY DEF Remote!TypeOK
    <3> QED
      BY <1>1, <1>4, <3>1 DEF Books, Numbered
  <2> QED
    BY <1>0, <1>1, <1>2, <2>1 DEF Books, Numbered
<1>6. TokensCurrent' /\ BuiltOnToken'
  BY <1>0, <1>1, <1>2 DEF Books, TokensCurrent, BuiltOnToken
<1>7. Remote!VerdictsTrue' /\ Remote!AtMostOnce'
  BY <1>0, <1>1, <1>4 DEF Books, Remote!VerdictsTrue, Remote!AtMostOnce
<1>8. Remote!LossIsFoundOut'
  <2> SUFFICES ASSUME NEW x \in Callers,
                      write'[x].op \in Remote!RegistrationOps, write'[x].end = "unsure",
                      write'[x].alone, write'[x].read = "refused"
               PROVE  write'[x].landed = 1
    BY DEF Remote!LossIsFoundOut
  <2>1. CASE x = w /\ sent[w].op = "read"
    <3>1. write[w].landed # 0
      BY <1>0, <1>1, <2>1 DEF Remote!Authorized, Books, TokensCurrent
    <3>2. write[w].landed \in Nat /\ write[w].landed <= 1
      BY <1>0 DEF Books, Remote!AtMostOnce, Histories
    <3> QED
      BY <1>1, <2>1, <3>1, <3>2
  <2>2. CASE ~(x = w /\ sent[w].op = "read")
    BY <1>1, <2>2 DEF Books, Remote!LossIsFoundOut
  <2> QED
    BY <2>1, <2>2
<1> QED
  BY <1>3, <1>5, <1>6, <1>7, <1>8 DEF Books

(* A request whose answer nobody gets is carried out. *)
CarriedAs(g, h, w, m) ==
    /\ g \in Registrations /\ g.extra = TRUE
    /\ g.version # reg.version => m.op = "update" /\ m.token = reg.version
    /\ h \in Histories
    /\ \A x \in Callers :
         /\ h[x].op = write[x].op /\ h[x].n = write[x].n /\ h[x].end = write[x].end /\ h[x].read = write[x].read
         /\ h[x].landed = IF m.op \in Remote!Writes /\ x = w /\ m.n = write[x].n THEN 1 ELSE write[x].landed
         /\ h[x].alone => write[x].alone
         /\ h[x].op \in Remote!RegistrationOps /\ h[x].alone /\ h[x].landed = 0
              => g.there /\ token[x] = g.version

LEMMA CarriedBooks ==
  ASSUME Remote!TypeOK, Books, NEW w \in Callers, NEW m \in Remote!Requests, Remote!Authorized(m),
         m.op \in Remote!Writes /\ m.n = write[w].n => write[w].landed = 0,
         m.body.extra = TRUE
  PROVE  CarriedAs(Remote!CarriedOut(m), Remote!Noted(w, m), w, m)
<1> DEFINE h == Remote!Noted(w, m)
           g == Remote!CarriedOut(m)
<1> USE DEF Remote!Writes, Remote!RegistrationOps
<1>0. write \in Histories /\ reg \in Registrations /\ reg.extra = TRUE
  BY DEF Remote!TypeOK, Histories, Registrations, Books, BuiltOnToken
<1>1. /\ g \in Registrations /\ (m.op # "delete" => g.there = reg.there)
      /\ g.version = IF m.op = "update" THEN reg.version + 1 ELSE reg.version
      /\ g.extra = IF m.op = "update" THEN m.body.extra ELSE reg.extra
  BY <1>0, CarriedOutIs
<1>2. NotedAs(h, w, m)
  BY <1>0, NotedIs
<1> HIDE DEF h, g
<1>3. ASSUME NEW x \in Callers, h[x].op \in Remote!RegistrationOps, h[x].alone, h[x].landed = 0
      PROVE  g.there /\ token[x] = g.version
  <2>1. ~(m.op \in Remote!Writes /\ x = w /\ m.n = write[x].n)
    BY <1>0, <1>2, <1>3 DEF NotedAs, Histories
  <2>2. m.op \notin {"update", "delete"}
    BY <1>2, <1>3, <2>1 DEF NotedAs
  <2>3. reg.there /\ token[x] = reg.version
    BY <1>2, <1>3, <2>1 DEF NotedAs, Books, TokensCurrent
  <2> QED
    BY <1>1, <2>2, <2>3
<1>4. g.version # reg.version => m.op = "update" /\ m.token = reg.version
  BY <1>1 DEF Remote!Authorized
<1>5. CarriedAs(g, h, w, m)
  BY <1>0, <1>1, <1>2, <1>3, <1>4 DEF NotedAs, CarriedAs
<1> QED
  BY <1>5 DEF g, h

LEMMA NoVerdictBooks ==
  ASSUME Remote!TypeOK, Books, NEW w \in Callers, Remote!NoVerdict(w)
  PROVE  Remote!TypeOK' /\ Books' /\ Remote!BuildsOnLatest
<1> DEFINE m == sent[w]
           q == [from |-> w, request |-> m]
<1> USE DEF Remote!Writes, Remote!RegistrationOps
<1>0. /\ reg \in Registrations /\ write \in Histories /\ m \in Remote!Requests /\ m.op # "none"
      /\ m.body.extra = TRUE /\ (m.op = "update" => m.body.base = m.token)
      /\ m.op \in Remote!Writes => m.n = write[w].n /\ m.op = write[w].op /\ write[w].landed = 0 /\ write[w].end = "none" /\ write[w].read = "none"
      /\ UNCHANGED <<token, copy, calls>>
  BY DEF Remote!TypeOK, Remote!NoVerdict, Histories, Registrations, Remote!Idle, Books, Numbered, BuiltOnToken
<1>1. PICK fate \in {"landed", "lost", "late"} :
        /\ fate = "landed" => Remote!Authorized(m)
        /\ fate = "late" => m.op \in Remote!Writes
        /\ reg' = IF fate = "landed" THEN Remote!CarriedOut(m) ELSE reg
        /\ late' = IF fate = "late" THEN late \cup {q} ELSE late
        /\ \/ /\ Remote!MayRetry(m) /\ sent' = [sent EXCEPT ![w].attempt = @ + 1]
              /\ write' = IF fate = "landed" THEN Remote!Noted(w, m) ELSE write
           \/ /\ Remote!Return(w)
              /\ write' = Remote!Ended(IF fate = "landed" THEN Remote!Noted(w, m) ELSE write, w, "unsure")
  BY Zenon DEF Remote!NoVerdict
<1> DEFINE h == IF fate = "landed" THEN Remote!Noted(w, m) ELSE write
<1>2. /\ reg' \in Registrations /\ reg'.extra = TRUE
      /\ reg'.version # reg.version => m.op = "update" /\ m.token = reg.version
      /\ h \in Histories
      /\ \A x \in Callers :
           /\ h[x].op = write[x].op /\ h[x].n = write[x].n /\ h[x].end = write[x].end /\ h[x].read = write[x].read
           /\ h[x].landed = IF fate = "landed" /\ m.op \in Remote!Writes /\ x = w THEN 1 ELSE write[x].landed
           /\ h[x].alone => write[x].alone
           /\ h[x].op \in Remote!RegistrationOps /\ h[x].alone /\ h[x].landed = 0
                => reg'.there /\ token[x] = reg'.version
  <2> HIDE DEF m
  <2>1. CASE fate = "landed"
    <3>1. reg' = Remote!CarriedOut(m) /\ h = Remote!Noted(w, m) /\ Remote!Authorized(m)
      BY <1>1, <2>1
    <3> HIDE DEF h
    <3>2. CarriedAs(reg', h, w, m)
      BY <1>0, <3>1, CarriedBooks
    <3> QED
      BY <1>0, <2>1, <3>2 DEF CarriedAs
  <2>2. CASE fate # "landed"
    BY <1>0, <1>1, <2>2 DEF Books, TokensCurrent, BuiltOnToken
  <2> QED
    BY <2>1, <2>2
<1> HIDE DEF m, h, q
<1>3. /\ write' \in Histories
      /\ \A x \in Callers :
           /\ write'[x].op = write[x].op /\ write'[x].n = write[x].n
           /\ write'[x].landed = IF fate = "landed" /\ m.op \in Remote!Writes /\ x = w THEN 1 ELSE write[x].landed
           /\ write'[x].alone = h[x].alone
           /\ write'[x].end = IF x = w /\ m.op \in Remote!Writes THEN "unsure" ELSE write[x].end
           /\ write'[x].read \in {write[x].read, "unsure"} /\ (x # w => write'[x].read = write[x].read)
  <2>1. CASE Remote!MayRetry(m) /\ write' = h
    BY <1>2, <2>1 DEF Remote!MayRetry
  <2>2. CASE write' = Remote!Ended(h, w, "unsure")
    <3>1. EndedAs(write', h, w, "unsure")
      BY <1>2, <2>2, EndedIs
    <3> QED
      BY <1>2, <3>1 DEF EndedAs, m
  <2> QED
    BY <1>1, <2>1, <2>2 DEF h
<1>4. /\ sent' \in [Callers -> Remote!Requests] /\ \A x \in Callers : sent'[x].attempt <= MaxAttempts
      /\ \A x \in Callers : x # w => sent'[x] = sent[x]
      /\ \/ sent'[w].op = "none"
         \/ /\ m.op \notin Remote!Writes /\ sent'[w].op = m.op
            /\ sent'[w].token = m.token /\ sent'[w].body = m.body
      /\ sent'[w].body.extra = TRUE
  <2>1. CASE Remote!Return(w)
    BY <2>1, ReturnIs
  <2>2. CASE Remote!MayRetry(m) /\ sent' = [sent EXCEPT ![w].attempt = @ + 1]
    <3>1. PICK e : e = [m EXCEPT !.attempt = m.attempt + 1]
      OBVIOUS
    <3>2. /\ e \in Remote!Requests /\ e.op = m.op /\ e.token = m.token /\ e.body = m.body
          /\ e.attempt = m.attempt + 1
      BY <1>0, <3>1 DEF Remote!Requests
    <3>3. e.attempt <= MaxAttempts
      BY <1>0, <2>2, <3>2, StoresConstants DEF Remote!MayRetry, Remote!Requests, Remote!RemoteConstants
    <3>4. sent' = [sent EXCEPT ![w] = e]
      BY <2>2, <3>1 DEF m
    <3>5. sent \in [Callers -> Remote!Requests] /\ \A x \in Callers : sent[x].attempt <= MaxAttempts
      BY <1>0 DEF Remote!TypeOK
    <3>6. sent'[w] = e /\ \A x \in Callers : x # w => sent'[x] = sent[x]
      BY <3>4, <3>5
    <3>7. sent' \in [Callers -> Remote!Requests]
      BY <3>2, <3>4, <3>5
    <3>8. \A x \in Callers : sent'[x].attempt <= MaxAttempts
      BY <3>3, <3>5, <3>6
    <3>9. m.op \notin Remote!Writes /\ m.body.extra = TRUE
      BY <1>0, <2>2 DEF Remote!MayRetry
    <3> QED
      BY <3>2, <3>6, <3>7, <3>8, <3>9
  <2> QED
    BY <1>1, <2>1, <2>2
<1>5. q.from = w /\ q.request = m /\ q \in [from : Callers, request : Remote!Requests]
  BY <1>0 DEF q
<1>6. Remote!TypeOK'
  BY <1>0, <1>1, <1>2, <1>3, <1>4, <1>5 DEF Remote!TypeOK, Histories, Registrations
<1>7. m.op \in Remote!Writes => \A r \in late : r.from = w => r.request.n # m.n
  BY <1>0 DEF Books, Numbered
<1>8. Numbered'
  <2>1. ASSUME NEW r \in late'
        PROVE  /\ r.request.op \in Remote!Writes /\ r.request.n <= write'[r.from].n
               /\ r.request.n = write'[r.from].n => write'[r.from].landed = 0 /\ write'[r.from].end = "unsure"
    <3>1. CASE r \in late
      <4>1. r.from \in Callers
        BY <3>1 DEF Remote!TypeOK
      <4> QED
        BY <1>0, <1>3, <1>7, <3>1, <4>1 DEF Books, Numbered
    <3>2. CASE r = q /\ fate = "late"
      <4>1. m.n \in Nat
        BY <1>0 DEF Remote!Requests
      <4> QED
        BY <1>0, <1>1, <1>3, <1>5, <3>2, <4>1
    <3> QED
      BY <1>1, <3>1, <3>2
  <2>2. \A r, p \in late' : r.from = p.from /\ r.request.n = p.request.n => r = p
    <3>1. \A r \in late : fate = "late" => ~(r.from = w /\ r.request.n = m.n)
      BY <1>1, <1>7
    <3> QED
      BY <1>1, <1>5, <3>1 DEF Books, Numbered
  <2>3. \A x \in Callers : sent'[x].op \in Remote!Writes =>
          /\ sent'[x].n = write'[x].n /\ sent'[x].op = write'[x].op
          /\ write'[x].end = "none" /\ write'[x].landed = 0 /\ write'[x].read = "none"
    BY <1>3, <1>4 DEF Books, Numbered
  <2>4. \A x \in Callers : write'[x].n <= calls'
    BY <1>0, <1>3 DEF Books, Numbered
  <2> QED
    BY <2>1, <2>2, <2>3, <2>4 DEF Numbered
<1>9. TokensCurrent'
  <2>1. \A x \in Callers : sent'[x].op \in Remote!RegistrationOps => sent'[x].token = token'[x]
    BY <1>0, <1>4 DEF Books, TokensCurrent, m
  <2>2. \A x \in Callers : write'[x].op \in Remote!RegistrationOps /\ write'[x].alone /\ write'[x].landed = 0
             => reg'.there /\ token'[x] = reg'.version
    BY <1>0, <1>2, <1>3
  <2> QED
    BY <2>1, <2>2 DEF TokensCurrent
<1>10. BuiltOnToken'
  <2>1. \A x \in Callers : sent'[x].body.extra = TRUE /\ (sent'[x].op = "update" => sent'[x].body.base = sent'[x].token)
    BY <1>0, <1>4 DEF Books, BuiltOnToken
  <2>2. \A r \in late' : r.request.body.extra = TRUE /\ (r.request.op = "update" => r.request.body.base = r.request.token)
    BY <1>0, <1>1, <1>5 DEF Books, BuiltOnToken
  <2> QED
    BY <1>0, <1>2, <2>1, <2>2 DEF Books, BuiltOnToken
<1>11. Remote!VerdictsTrue'
  <2> SUFFICES ASSUME NEW x \in Callers
               PROVE  /\ write'[x].end = "refused" =>
                           write'[x].landed = 0 /\ \A r \in late' : r.from = x => r.request.n # write'[x].n
                      /\ write'[x].end = "ok" => write'[x].landed = 1
    BY DEF Remote!VerdictsTrue
  <2>1. CASE x = w /\ m.op \in Remote!Writes
    BY <1>3, <2>1
  <2>2. CASE ~(x = w /\ m.op \in Remote!Writes)
    <3>1. \A r \in late' : r \in late \/ r.from # x
      BY <1>1, <1>5, <2>2
    <3> QED
      BY <1>3, <2>2, <3>1 DEF Books, Remote!VerdictsTrue
  <2> QED
    BY <2>1, <2>2
<1>12. Remote!AtMostOnce'
  BY <1>0, <1>3 DEF Books, Remote!AtMostOnce
<1>13. Remote!LossIsFoundOut'
  <2> SUFFICES ASSUME NEW x \in Callers,
                      write'[x].op \in Remote!RegistrationOps, write'[x].end = "unsure",
                      write'[x].alone, write'[x].read = "refused"
               PROVE  write'[x].landed = 1
    BY DEF Remote!LossIsFoundOut
  <2>1. write[x].alone /\ write[x].read = "refused" /\ write[x].op \in Remote!RegistrationOps
    BY <1>2, <1>3
  <2>2. CASE x = w /\ m.op \in Remote!Writes
    BY <1>0, <2>1, <2>2
  <2>3. CASE ~(x = w /\ m.op \in Remote!Writes)
    BY <1>3, <2>1, <2>3 DEF Books, Remote!LossIsFoundOut
  <2> QED
    BY <2>2, <2>3
<1>14. Remote!BuildsOnLatest
  BY <1>0, <1>2 DEF Remote!BuildsOnLatest, m
<1> QED
  BY <1>6, <1>8, <1>9, <1>10, <1>11, <1>12, <1>13, <1>14 DEF Books

LEMMA LandLateBooks ==
  ASSUME Remote!TypeOK, Books, NEW r \in late, Remote!LandLate(r)
  PROVE  Remote!TypeOK' /\ Books' /\ Remote!BuildsOnLatest
<1> DEFINE m == r.request
           w == r.from
<1> USE DEF Remote!Writes, Remote!RegistrationOps
<1>0. /\ reg \in Registrations /\ write \in Histories /\ w \in Callers /\ m \in Remote!Requests
      /\ m.body.extra = TRUE /\ (m.op = "update" => m.body.base = m.token)
      /\ m.op \in Remote!Writes
      /\ m.n = write[w].n => write[w].landed = 0 /\ write[w].end = "unsure" /\ sent[w].op \notin Remote!Writes
      /\ late' = late \ {r} /\ UNCHANGED <<token, copy, sent, calls>>
  BY DEF Remote!TypeOK, Remote!LandLate, Histories, Registrations, Books, Numbered, BuiltOnToken
<1>1. ASSUME UNCHANGED <<reg, write>> PROVE Remote!TypeOK' /\ Books' /\ Remote!BuildsOnLatest
  <2>1. Remote!TypeOK'
    BY <1>0, <1>1 DEF Remote!TypeOK
  <2>2. Numbered' /\ TokensCurrent' /\ BuiltOnToken'
    BY <1>0, <1>1 DEF Books, Numbered, TokensCurrent, BuiltOnToken
  <2>3. Remote!VerdictsTrue' /\ Remote!AtMostOnce' /\ Remote!LossIsFoundOut'
    BY <1>0, <1>1 DEF Books, Remote!VerdictsTrue, Remote!AtMostOnce, Remote!LossIsFoundOut
  <2> QED
    BY <1>1, <2>1, <2>2, <2>3 DEF Books, Remote!BuildsOnLatest
<1>2. ASSUME Remote!Authorized(m), reg' = Remote!CarriedOut(m), write' = Remote!Noted(w, m)
      PROVE  Remote!TypeOK' /\ Books' /\ Remote!BuildsOnLatest
  <2>1. /\ reg' \in Registrations /\ reg'.extra = TRUE
        /\ reg'.version # reg.version => m.op = "update" /\ m.token = reg.version
        /\ write' \in Histories
        /\ \A x \in Callers :
             /\ write'[x].op = write[x].op /\ write'[x].n = write[x].n
             /\ write'[x].end = write[x].end /\ write'[x].read = write[x].read
             /\ write'[x].landed = IF x = w /\ m.n = write[x].n THEN 1 ELSE write[x].landed
             /\ write'[x].alone => write[x].alone
             /\ write'[x].op \in Remote!RegistrationOps /\ write'[x].alone /\ write'[x].landed = 0
                  => reg'.there /\ token[x] = reg'.version
    <3> HIDE DEF m, w
    <3>1. CarriedAs(reg', write', w, m)
      BY <1>0, <1>2, CarriedBooks
    <3> QED
      BY <1>0, <3>1 DEF CarriedAs
  <2> HIDE DEF m, w
  <2>2. Remote!TypeOK'
    BY <1>0, <2>1 DEF Remote!TypeOK, Histories, Registrations
  <2>3. Numbered'
    <3>1. ASSUME NEW p \in late'
          PROVE  /\ p.request.op \in Remote!Writes /\ p.request.n <= write'[p.from].n
                 /\ p.request.n = write'[p.from].n => write'[p.from].landed = 0 /\ write'[p.from].end = "unsure"
      <4>1. p \in late /\ p # r /\ p.from \in Callers
        BY <1>0 DEF Remote!TypeOK
      <4>2. ~(p.from = w /\ p.request.n = m.n)
        BY <4>1 DEF Books, Numbered, m, w
      <4> QED
        BY <1>0, <2>1, <4>1, <4>2 DEF Books, Numbered
    <3>2. \A x \in Callers : sent'[x].op \in Remote!Writes =>
            /\ sent'[x].n = write'[x].n /\ sent'[x].op = write'[x].op
            /\ write'[x].end = "none" /\ write'[x].landed = 0 /\ write'[x].read = "none"
      BY <1>0, <2>1 DEF Books, Numbered
    <3>3. \A x \in Callers : write'[x].n <= calls'
      BY <1>0, <2>1 DEF Books, Numbered
    <3>4. \A p, q \in late' : p.from = q.from /\ p.request.n = q.request.n => p = q
      BY <1>0 DEF Books, Numbered
    <3> QED
      BY <3>1, <3>2, <3>3, <3>4 DEF Numbered
  <2>4. TokensCurrent'
    BY <1>0, <2>1 DEF Books, TokensCurrent
  <2>5. BuiltOnToken'
    BY <1>0, <2>1 DEF Books, BuiltOnToken
  <2>6. Remote!VerdictsTrue' /\ Remote!AtMostOnce'
    BY <1>0, <2>1 DEF Books, Remote!VerdictsTrue, Remote!AtMostOnce
  <2>7. Remote!LossIsFoundOut'
    BY <1>0, <2>1 DEF Books, Remote!LossIsFoundOut
  <2>8. Remote!BuildsOnLatest
    BY <1>0, <2>1 DEF Remote!BuildsOnLatest, m
  <2> QED
    BY <2>2, <2>3, <2>4, <2>5, <2>6, <2>7, <2>8 DEF Books
<1> QED
  BY <1>1, <1>2 DEF Remote!LandLate

LEMMA NextWInv ==
  WInv /\ [StoresNext]_stores
    => WInv' /\ [focus = "remote" => Remote!WritesOnce' /\ Remote!BuildsOnLatest]_stores
<1> SUFFICES ASSUME WInv, [StoresNext]_stores, focus = "remote"
             PROVE  (Remote!TypeOK /\ Books)' /\ (UNCHANGED stores \/ Remote!BuildsOnLatest)
  BY FocusIsKept DEF WInv, Books, Remote!WritesOnce
<1>0. Remote!TypeOK /\ Books
  BY DEF WInv
<1>1. CASE UNCHANGED stores
  <2>1. UNCHANGED <<reg, token, copy, sent, late, calls, write>>
    BY <1>1 DEF stores, remotes
  <2>2. Remote!TypeOK'
    BY <1>0, <2>1 DEF Remote!TypeOK
  <2>3. Books'
    BY <1>0, <2>1 DEF Books, Numbered, TokensCurrent, BuiltOnToken, Remote!VerdictsTrue, Remote!AtMostOnce,
       Remote!LossIsFoundOut
  <2> QED
    BY <1>1, <2>2, <2>3
<1>2. CASE RemoteStep
  <2>1. ASSUME NEW w \in Callers, NEW op \in Remote!Operations, Remote!Begin(w, op)
        PROVE  (Remote!TypeOK /\ Books)' /\ Remote!BuildsOnLatest
    BY <1>0, <2>1, BeginBooks DEF Remote!Begin, Remote!BuildsOnLatest
  <2>2. ASSUME NEW w \in Callers, Remote!RefuseLocally(w)
        PROVE  (Remote!TypeOK /\ Books)' /\ Remote!BuildsOnLatest
    <3>1. /\ UNCHANGED <<reg, token, copy, sent, late, write>>
          /\ calls \in Nat /\ calls' = calls + 1 /\ calls' \in 0 .. MaxCalls
      BY <1>0, <2>2, StoresConstants DEF Remote!RefuseLocally, Remote!TypeOK, Remote!RemoteConstants
    <3>2. Remote!TypeOK'
      BY <1>0, <3>1 DEF Remote!TypeOK
    <3>3. Numbered'
      <4>1. \A w2 \in Callers : write'[w2].n <= calls'
        BY <1>0, <3>1 DEF Books, Numbered, Remote!TypeOK
      <4> QED
        BY <1>0, <3>1, <4>1 DEF Books, Numbered
    <3>4. TokensCurrent' /\ BuiltOnToken'
      BY <1>0, <3>1 DEF Books, TokensCurrent, BuiltOnToken
    <3>5. Remote!VerdictsTrue' /\ Remote!AtMostOnce' /\ Remote!LossIsFoundOut'
      BY <1>0, <3>1 DEF Books, Remote!VerdictsTrue, Remote!AtMostOnce, Remote!LossIsFoundOut
    <3> QED
      BY <3>1, <3>2, <3>3, <3>4, <3>5 DEF Books, Remote!BuildsOnLatest
  <2>3. ASSUME NEW w \in Callers, Remote!Succeed(w)
        PROVE  (Remote!TypeOK /\ Books)' /\ Remote!BuildsOnLatest
    BY <1>0, <2>3, SucceedBooks
  <2>4. ASSUME NEW w \in Callers, Remote!Refuse(w)
        PROVE  (Remote!TypeOK /\ Books)' /\ Remote!BuildsOnLatest
    BY <1>0, <2>4, RefuseBooks DEF Remote!Refuse, Remote!BuildsOnLatest
  <2>5. ASSUME NEW w \in Callers, Remote!NoVerdict(w)
        PROVE  (Remote!TypeOK /\ Books)' /\ Remote!BuildsOnLatest
    BY <1>0, <2>5, NoVerdictBooks
  <2>6. ASSUME NEW r \in late, Remote!LandLate(r)
        PROVE  (Remote!TypeOK /\ Books)' /\ Remote!BuildsOnLatest
    BY <1>0, <2>6, LandLateBooks
  <2> QED
    BY <1>2, <2>1, <2>2, <2>3, <2>4, <2>5, <2>6 DEF RemoteStep, Remote!WNext
<1> QED
  BY <1>1, <1>2 DEF StoresNext, FeedStep, MemoStep, JtiStep, LoginStep, PollStep, OrderStep

(* A write takes effect at most once, whatever became of its answer; how it ended
   can be believed, and after no verdict a refused read says that it landed; and an
   update replaces the registration it was made from (oidc_registration.go,
   management_request.go). *)
THEOREM WritesAskedOnce == StoresSpec => WritesOnce
  BY InitWInv, NextWInv, PTL DEF StoresSpec, WritesOnce
=============================================================================
