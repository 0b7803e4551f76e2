---------------------------- MODULE RequestsProofs ----------------------------
(***************************************************************************)
(* Proofs about what takes several calls of the API: joining by an invite, *)
(* connecting an app, deleting an account, signing in, showing and making  *)
(* workspaces, and creating and revoking keys; for any tabs, people,       *)
(* workspaces, keys, limits and numbers of requests.                       *)
(***************************************************************************)
EXTENDS MCRequests, FiniteSetTheorems, SequenceTheorems, TLAPS

(* What the constants are assumed to be.                                   *)
LEMMA Limits ==
  /\ MaxRequests \in Nat /\ MaxKeys \in Nat
  /\ MaxMoves \in Nat /\ Me \notin Others
  /\ MaxAsks \in Nat /\ MaxSends \in Nat \ {0} /\ IsFiniteSet(Asks)
  /\ MaxChanges \in Nat /\ KeyMoves \in Nat
BY PartsAssumption

(* Each instance has its own name for the number of elements.              *)
LEMMA SameCardinality ==
  ASSUME NEW S
  PROVE  Connect!Cardinality(S) = Cardinality(S) /\ SignIn!Cardinality(S) = Cardinality(S)
BY DEF Connect!Cardinality, SignIn!Cardinality, Cardinality

-----------------------------------------------------------------------------
(* Joining: the inductive invariant.                                       *)

(* Codes and tokens in use have been made: a new one is none of them.      *)
Older(s) == s.code <= fresh /\ s.token <= fresh

Numbered ==
  /\ Older(invite)
  /\ \A s \in card.data \cup card.got : Older(s)
  /\ \A m \in Mutations : req[m] # Idle => Older(req[m].out)

(* A request to join by a dead link keeps away from the insert.            *)
Doomed(x) ==
  \/ /\ x.join = "sent" /\ x.password = 0
     /\ x.link.code # invite.code \/ ~KeyMatches(invite, x.link.key)
  \/ x.join \in {"found", "counting"} /\ x.verdict \in {"failed", "recording"}
  \/ x.join = "recording"

Fit(x) ==
  x # NoTab =>
    /\ x.join # "none" => x.page = "shown"
    /\ x.link.code <= fresh /\ x.link.key <= fresh
    /\ x.dead => Doomed(x)

Fits == \A t \in Tabs : Fit(tab[t])

(* The attempts that are about to be recorded, each with its repeated      *)
(* inserts, were counted before the limit was reached.                     *)
Recording == {t \in Tabs : InJoin(t, "recording")}
Counted == attempts + InsertAttempts * Cardinality(Recording) < MaxFailed + InsertAttempts * Cardinality(Tabs)

(* While the card's requests come one at a time, it shows what is set, but *)
(* for a change that is answered and about to be shown.                    *)
Current ==
  tidy =>
    /\ card.flight # "none" => \A m \in Mutations : req[m] = Idle
    /\ \A m, n \in Mutations : req[m] # Idle /\ req[n] # Idle => m = n
    /\ card.flight = "read" => card.got = {Out(invite)}
    /\ (\A m \in Mutations : req[m].pc # "done") => \A s \in card.data : s = Out(invite)
    /\ \A m \in Mutations : req[m].pc = "done" => req[m].out = Out(invite)

Inv == TypeOK /\ Numbered /\ Fits /\ Counted /\ Current

-----------------------------------------------------------------------------
(* What the parts of the state are.                                        *)

LEMMA TabFields ==
  ASSUME NEW x \in {NoTab} \cup Tab
  PROVE  /\ x.page # "closed" <=> x \in Tab
         /\ x # NoTab <=> x \in Tab
         /\ x \in Tab => /\ x.link \in Link /\ x.link.code \in Nat /\ x.link.key \in Nat
                         /\ x.password \in {0, 1, 2} /\ x.dead \in BOOLEAN
                         /\ x.page \in {"loading", "broken", "shown"}
BY DEF NoTab, Tab, Link

LEMMA OutType ==
  ASSUME NEW row \in Row
  PROVE  Out(row) \in Settings /\ Out(row).code = row.code /\ Out(row).token = row.token
BY DEF Row, Settings, Out

LEMMA ReqFields ==
  ASSUME NEW q \in {Idle} \cup Req
  PROVE  /\ q.pc # "idle" <=> q \in Req
         /\ q # Idle <=> q \in Req
         /\ q \in Req => q.out \in Settings /\ q.pc \in {"sent", "updating", "done", "failed"}
BY DEF Idle, Req

(* What so many rows for each attempt come to.                             *)
LEMMA Multiples ==
  /\ InsertAttempts \in Nat /\ InsertAttempts * 0 = 0
  /\ \A n \in Nat : InsertAttempts * n \in Nat /\ InsertAttempts * (n + 1) = InsertAttempts * n + InsertAttempts
  /\ \A m, n \in Nat : m <= n => InsertAttempts * m <= InsertAttempts * n
<1>1. ASSUME NEW k \in Nat
      PROVE  /\ k * 0 = 0
             /\ \A n \in Nat : k * n \in Nat /\ k * (n + 1) = k * n + k
             /\ \A m, n \in Nat : m <= n => k * m <= k * n
  OBVIOUS
<1> QED BY <1>1, InsertAttemptsAssumption

LEMMA InvInit == Init => Inv
<1> SUFFICES ASSUME Init PROVE Inv
  OBVIOUS
<1>1. /\ invite = [code |-> 1, token |-> 0, password |-> 0] /\ fresh = 1 /\ card = NoEntry
      /\ editing = FALSE /\ req = [m \in Mutations |-> Idle] /\ tab = [t \in Tabs |-> NoTab]
      /\ member = FALSE /\ attempts = 0 /\ tidy = TRUE
  BY DEF Init
<1>2. invite \in Row /\ Older(invite)
  BY <1>1 DEF Row, Older
<1>3. card \in Entry(Settings) /\ card.data = {} /\ card.got = {} /\ card.flight = "none"
  BY <1>1 DEF NoEntry, Entry, Maybe
<1>4. \A t \in Tabs : tab[t] = NoTab /\ tab[t].page = "closed"
  BY <1>1 DEF NoTab
<1>5. \A m \in Mutations : req[m] = Idle /\ req[m].pc = "idle"
  BY <1>1 DEF Idle
<1>6. TypeOK
  BY <1>1, <1>2, <1>3, <1>4 DEF TypeOK
<1>7. Numbered /\ Fits
  BY <1>2, <1>3, <1>4, <1>5 DEF Numbered, Fits, Fit
<1>8. Counted
  <2>1. Recording = {}
    BY <1>4 DEF Recording, InJoin
  <2>2. Cardinality({}) = 0 /\ Cardinality(Tabs) \in Nat
    BY FS_EmptySet, FS_CardinalityType, TabsAssumption
  <2>3. InsertAttempts * 0 = 0 /\ InsertAttempts * Cardinality(Tabs) \in Nat
    BY <2>2, Multiples
  <2> QED BY <1>1, <2>1, <2>2, <2>3, MaxFailedAssumption DEF Counted
<1>9. Current
  BY <1>3, <1>5 DEF Current
<1> QED BY <1>6, <1>7, <1>8, <1>9 DEF Inv

-----------------------------------------------------------------------------
(* The join pages.                                                         *)

Newcomer(t) ==
  \/ \E l \in Copied : OpenLink(t, l)
  \/ Preview(t)
  \/ \E p \in {0, 1, 2} : Join(t, p)
  \/ Leave(t)
  \/ FindInvite(t)
  \/ CheckMember(t)
  \/ CountAttempts(t)
  \/ RecordAttempt(t)
  \/ InsertMember(t)
  \/ JoinBreaks(t)

(* A page that goes on with its request.                                   *)
LEMMA JoinGoesOn ==
  ASSUME TypeOK, Fits, NEW t \in Tabs, tab[t].page # "closed", tab[t].join # "none",
         NEW pc \in {"none", "found", "counting", "recording", "inserting", "done", "failed"}, JoinGoes(t, pc),
         tab[t].dead => \/ pc = "counting" /\ tab[t].verdict \in {"failed", "recording"}
                        \/ pc \in {"recording", "done", "failed"}
  PROVE  \E x \in {NoTab} \cup Tab : tab' = [tab EXCEPT ![t] = x] /\ Fit(x) /\ x # NoTab /\ x.join = pc
<1>1. tab[t] \in Tab /\ Fit(tab[t]) /\ tab[t] # NoTab
  <2>1. tab[t] \in {NoTab} \cup Tab
    BY DEF TypeOK
  <2> QED BY <2>1, TabFields DEF Fits
<1>2. CASE pc \in {"done", "failed"}
  <2> DEFINE x == Answered(t, pc)
  <2>1. /\ x \in Tab /\ x.page = tab[t].page /\ x.link = tab[t].link /\ ~x.dead /\ x.join = pc
    BY <1>1, <1>2 DEF Answered, Tab
  <2>2. tab' = [tab EXCEPT ![t] = x]
    BY <1>2 DEF JoinGoes
  <2> HIDE DEF x
  <2>3. Fit(x) /\ x # NoTab
    BY <1>1, <2>1, TabFields DEF Fit
  <2> QED BY <2>1, <2>2, <2>3
<1>3. CASE pc \notin {"done", "failed"}
  <2> DEFINE x == [tab[t] EXCEPT !.join = pc]
  <2>1. /\ x \in Tab /\ x.page = tab[t].page /\ x.link = tab[t].link /\ x.dead = tab[t].dead
        /\ x.join = pc /\ x.verdict = tab[t].verdict
    BY <1>1 DEF Tab
  <2>2. tab' = [tab EXCEPT ![t] = x]
    BY <1>3 DEF JoinGoes
  <2> HIDE DEF x
  <2>3. x # NoTab
    BY <2>1, TabFields
  <2>4. x.dead => Doomed(x)
    BY <1>3, <2>1 DEF Doomed
  <2>5. Fit(x)
    BY <1>1, <2>1, <2>4 DEF Fit
  <2> QED BY <2>1, <2>2, <2>3, <2>5
<1> QED BY <1>2, <1>3

LEMMA TabGoes ==
  ASSUME TypeOK, Numbered, Fits, NEW t \in Tabs, Newcomer(t)
  PROVE  \E x \in {NoTab} \cup Tab : tab' = [tab EXCEPT ![t] = x] /\ Fit(x)
<1>1. /\ tab[t] \in {NoTab} \cup Tab /\ Fit(tab[t]) /\ invite \in Row /\ fresh \in Nat
      /\ card \in Entry(Settings)
  BY DEF TypeOK, Fits
<1>2. ASSUME NEW l \in Copied, OpenLink(t, l)
      PROVE  \E x \in {NoTab} \cup Tab : tab' = [tab EXCEPT ![t] = x] /\ Fit(x)
  <2> DEFINE x == [page |-> "loading", link |-> l, keyValid |-> FALSE,
                   acceptsPassword |-> FALSE, already |-> FALSE, join |-> "none",
                   password |-> 0, verdict |-> "none", dead |-> FALSE]
  <2>1. l \in Link /\ l.code <= fresh /\ l.key <= fresh
    <3>1. PICK s \in card.data : l \in {[code |-> s.code, key |-> s.token], [code |-> s.code, key |-> 0]}
      BY <1>2 DEF Copied
    <3>2. s \in Settings /\ Older(s)
      BY <1>1, <3>1 DEF Numbered, Entry, Maybe
    <3> QED BY <1>1, <3>1, <3>2 DEF Older, Settings, Link
  <2>2. x \in Tab /\ x.join = "none" /\ x.link = l /\ ~x.dead
    BY <2>1 DEF Tab
  <2>3. tab' = [tab EXCEPT ![t] = x]
    BY <1>2 DEF OpenLink
  <2> HIDE DEF x
  <2> QED BY <2>1, <2>2, <2>3 DEF Fit
<1>3. CASE Preview(t)
  <2>1. tab[t].page = "loading" /\ tab[t] \in Tab /\ tab[t].join = "none" /\ ~tab[t].dead
        /\ tab[t].link.code <= fresh /\ tab[t].link.key <= fresh
    <3>1. tab[t].page = "loading" /\ tab[t] \in Tab /\ tab[t] # NoTab
      BY <1>1, <1>3, TabFields DEF Preview
    <3>2. tab[t].join = "none"
      BY <1>1, <3>1 DEF Fit
    <3> QED BY <1>1, <3>1, <3>2 DEF Fit, Doomed
  <2> DEFINE b == [tab[t] EXCEPT !.page = "broken"]
             s == [tab[t] EXCEPT !.page = "shown", !.already = member,
                                 !.keyValid = KeyMatches(invite, tab[t].link.key),
                                 !.acceptsPassword = invite.password # 0]
  <2>2. b \in Tab /\ b.join = "none" /\ b.link = tab[t].link /\ b.dead = tab[t].dead
    BY <2>1 DEF Tab
  <2>3. s \in Tab /\ s.join = "none" /\ s.link = tab[t].link /\ s.dead = tab[t].dead
    <3>1. member \in BOOLEAN /\ KeyMatches(invite, tab[t].link.key) \in BOOLEAN
      BY DEF TypeOK, KeyMatches
    <3> QED BY <2>1, <3>1 DEF Tab
  <2>4. \E x \in {b, s} : tab' = [tab EXCEPT ![t] = x]
    BY <1>3 DEF Preview
  <2> HIDE DEF b, s
  <2> QED BY <2>1, <2>2, <2>3, <2>4 DEF Fit
<1>4. ASSUME NEW p \in {0, 1, 2}, Join(t, p)
      PROVE  \E x \in {NoTab} \cup Tab : tab' = [tab EXCEPT ![t] = x] /\ Fit(x)
  <2>1. tab[t].page = "shown" /\ tab[t] \in Tab
    BY <1>1, <1>4, TabFields DEF Join, CanJoin
  <2> DEFINE d == p = 0 /\ (tab[t].link.code # invite.code \/ ~KeyMatches(invite, tab[t].link.key))
             x == [tab[t] EXCEPT !.join = "sent", !.password = p, !.dead = d]
  <2>2. d \in BOOLEAN
    OBVIOUS
  <2>3. tab' = [tab EXCEPT ![t] = x]
    BY <1>4 DEF Join
  <2>4. d => p = 0 /\ (tab[t].link.code # invite.code \/ ~KeyMatches(invite, tab[t].link.key))
    OBVIOUS
  <2> HIDE DEF d
  <2>5. x \in Tab /\ x.page = "shown" /\ x.link = tab[t].link /\ x.join = "sent" /\ x.password = p /\ x.dead = d
    BY <2>1, <2>2 DEF Tab
  <2> HIDE DEF x
  <2>6. x.dead => Doomed(x)
    BY <2>4, <2>5 DEF Doomed
  <2>7. tab[t].link.code <= fresh /\ tab[t].link.key <= fresh
    BY <1>1, <2>1, TabFields DEF Fit
  <2> QED BY <2>3, <2>5, <2>6, <2>7 DEF Fit
<1>5. CASE Leave(t)
  BY <1>5 DEF Leave, Fit
<1>6. CASE FindInvite(t)
  <2>1. tab[t].join = "sent" /\ tab[t].page # "closed" /\ tab[t] \in Tab /\ tab[t] # NoTab
    BY <1>1, <1>6, TabFields DEF FindInvite, InJoin
  <2>2. CASE tab[t].link.code # invite.code
    <3>1. JoinGoes(t, "failed")
      BY <1>6, <2>2 DEF FindInvite, JoinGoes
    <3> QED BY <2>1, <3>1, JoinGoesOn
  <2>3. CASE tab[t].link.code = invite.code
    <3> DEFINE v == Verdict(t)
               x == [tab[t] EXCEPT !.join = "found", !.verdict = v]
    <3>1. v \in {"inserting", "failed", "recording"}
      BY DEF Verdict
    <3>2. tab[t].dead => v # "inserting"
      <4>1. ASSUME tab[t].dead PROVE tab[t].password = 0 /\ ~KeyMatches(invite, tab[t].link.key)
        BY <1>1, <2>1, <2>3, <4>1 DEF Fit, Doomed
      <4> QED BY <4>1 DEF Verdict, Admits
    <3>3. tab' = [tab EXCEPT ![t] = x]
      BY <1>6, <2>3 DEF FindInvite
    <3> HIDE DEF v
    <3>4. x \in Tab /\ x.page = tab[t].page /\ x.link = tab[t].link /\ x.dead = tab[t].dead
          /\ x.join = "found" /\ x.verdict = v
      BY <2>1, <3>1 DEF Tab
    <3> HIDE DEF x
    <3>5. x.dead => Doomed(x)
      BY <3>1, <3>2, <3>4 DEF Doomed
    <3> QED BY <1>1, <2>1, <3>3, <3>4, <3>5 DEF Fit
  <2> QED BY <2>2, <2>3
<1>7. CASE CheckMember(t)
  <2>1. tab[t].join = "found" /\ tab[t].page # "closed" /\ tab[t] # NoTab
    BY <1>1, <1>7, TabFields DEF CheckMember, InJoin
  <2>2. tab[t].dead => tab[t].verdict \in {"failed", "recording"}
    BY <1>1, <2>1 DEF Fit, Doomed
  <2>3. \E pc \in {"done", "counting"} : JoinGoes(t, pc)
    BY <1>7 DEF CheckMember
  <2> QED BY <2>1, <2>2, <2>3, JoinGoesOn
<1>8. CASE CountAttempts(t)
  <2>1. tab[t].join = "counting" /\ tab[t].page # "closed" /\ tab[t] # NoTab /\ tab[t] \in Tab
    BY <1>1, <1>8, TabFields DEF CountAttempts, InJoin
  <2>2. tab[t].dead => tab[t].verdict \in {"failed", "recording"}
    BY <1>1, <2>1 DEF Fit, Doomed
  <2>3. JoinGoes(t, "failed") \/ JoinGoes(t, tab[t].verdict)
    BY <1>8 DEF CountAttempts
  <2>4. tab[t].verdict \in {"none", "inserting", "recording", "failed"}
    BY <2>1 DEF Tab
  <2> QED BY <2>1, <2>2, <2>3, <2>4, JoinGoesOn
<1>9. CASE RecordAttempt(t)
  <2>1. tab[t].join = "recording" /\ tab[t].page # "closed" /\ JoinGoes(t, "failed")
    BY <1>9 DEF RecordAttempt, InJoin
  <2> QED BY <2>1, JoinGoesOn
<1>10. CASE InsertMember(t)
  <2>1. tab[t].join = "inserting" /\ tab[t].page # "closed" /\ \E pc \in {"failed", "done"} : JoinGoes(t, pc)
    BY <1>10 DEF InsertMember, InJoin
  <2> QED BY <2>1, JoinGoesOn
<1>11. CASE JoinBreaks(t)
  <2>1. tab[t].join \in {"sent", "found", "counting"} /\ tab[t].page # "closed" /\ JoinGoes(t, "failed")
    BY <1>11 DEF JoinBreaks
  <2> QED BY <2>1, JoinGoesOn
<1> QED BY <1>2, <1>3, <1>4, <1>5, <1>6, <1>7, <1>8, <1>9, <1>10, <1>11 DEF Newcomer

LEMMA NewcomerStep ==
  ASSUME TypeOK, Numbered, Fits, Current, NEW t \in Tabs, Newcomer(t)
  PROVE  TypeOK' /\ Numbered' /\ Fits' /\ Current'
<1>1. PICK x \in {NoTab} \cup Tab : tab' = [tab EXCEPT ![t] = x] /\ Fit(x)
  BY TabGoes
<1>2. /\ tab' \in [Tabs -> {NoTab} \cup Tab] /\ tab'[t] = x
      /\ \A u \in Tabs : u # t => tab'[u] = tab[u]
  BY <1>1 DEF TypeOK
<1>3. /\ invite' = invite /\ fresh' = fresh /\ card' = card /\ editing' = editing
      /\ req' = req /\ tidy' = tidy
  BY DEF Newcomer, OpenLink, Preview, Join, Leave, FindInvite, CheckMember, CountAttempts, RecordAttempt,
         InsertMember, JoinBreaks, admin
<1>4. member' \in BOOLEAN /\ attempts' \in Nat
  <2>1. /\ member' = member \/ member' = TRUE
        /\ attempts' = attempts \/ RecordAttempt(t)
    BY DEF Newcomer, OpenLink, Preview, Join, Leave, FindInvite, CheckMember, CountAttempts, RecordAttempt,
           InsertMember, JoinBreaks
  <2>2. member \in BOOLEAN /\ attempts \in Nat
    BY DEF TypeOK
  <2>3. attempts' \in Nat
    <3>1. CASE RecordAttempt(t)
      <4>1. PICK n \in 0 .. InsertAttempts : attempts' = attempts + n
        BY <3>1 DEF RecordAttempt
      <4> QED BY <2>2, <4>1, InsertAttemptsAssumption
    <3> QED BY <2>1, <2>2, <3>1
  <2>4. member' \in BOOLEAN
    BY <2>1, <2>2, Zenon
  <2> QED BY <2>3, <2>4
<1>5. \A u \in Tabs : Fit(tab'[u])
  BY <1>1, <1>2 DEF Fits
<1>6. Fits'
  BY <1>3, <1>5 DEF Fits, Fit, Doomed
<1>7. TypeOK'
  <2>1. \A u \in Tabs : tab'[u].page # "closed" /\ tab'[u].join # "none" => tab'[u].page = "shown"
    BY <1>2, <1>5, TabFields DEF Fit
  <2> QED BY <1>2, <1>3, <1>4, <2>1 DEF TypeOK
<1>8. Numbered' /\ Current'
  BY <1>3 DEF Numbered, Older, Current
<1> QED BY <1>6, <1>7, <1>8

(* The attempts.                                                           *)
LEMMA FewRecord ==
  ASSUME NEW R, R \subseteq Tabs
  PROVE  /\ IsFiniteSet(R) /\ Cardinality(R) \in Nat /\ Cardinality(R) <= Cardinality(Tabs)
         /\ Cardinality(Tabs) \in Nat
BY FS_Subset, FS_CardinalityType, TabsAssumption

LEMMA CountedNewcomer ==
  ASSUME TypeOK, Counted, NEW t \in Tabs, Newcomer(t)
  PROVE  Counted'
<1>1. /\ DOMAIN tab = Tabs /\ attempts \in Nat
      /\ tab[t] \in {NoTab} \cup Tab
  BY DEF TypeOK
<1>2. /\ Cardinality(Recording) \in Nat /\ Cardinality(Recording) <= Cardinality(Tabs)
      /\ IsFiniteSet(Recording) /\ Cardinality(Tabs) \in Nat
  BY FewRecord DEF Recording
<1>3. ASSUME \A u \in Tabs : u # t => tab'[u] = tab[u]
      PROVE  /\ InJoin(t, "recording")' => Recording' = Recording \cup {t}
             /\ ~InJoin(t, "recording")' => Recording' = Recording \ {t}
  BY <1>3 DEF Recording, InJoin
<1>4. \A u \in Tabs : u # t => tab'[u] = tab[u]
  BY <1>1 DEF Newcomer, OpenLink, Preview, Join, Leave, FindInvite, CheckMember, CountAttempts, RecordAttempt,
              InsertMember, JoinBreaks, JoinGoes
<1>5. /\ Cardinality(Recording \cup {t}) = IF t \in Recording THEN Cardinality(Recording) ELSE Cardinality(Recording) + 1
      /\ Cardinality(Recording \ {t}) = IF t \in Recording THEN Cardinality(Recording) - 1 ELSE Cardinality(Recording)
  BY <1>2, FS_AddElement, FS_RemoveElement
<1>6. ASSUME attempts' = attempts, ~InJoin(t, "recording")' PROVE Counted'
  <2>1. Recording' = Recording \ {t}
    BY <1>3, <1>4, <1>6
  <2>2. Cardinality(Recording') \in Nat /\ Cardinality(Recording') <= Cardinality(Recording)
    <3>1. Cardinality(Recording \ {t}) \in Nat
      BY FewRecord DEF Recording
    <3> QED BY <1>2, <1>5, <2>1, <3>1
  <2> DEFINE o == InsertAttempts * Cardinality(Recording)
             n == InsertAttempts * Cardinality(Recording')
             T == InsertAttempts * Cardinality(Tabs)
  <2>3. o \in Nat /\ n \in Nat /\ T \in Nat /\ n <= o
    BY <1>2, <2>2, Multiples
  <2>4. attempts + o < MaxFailed + T
    BY DEF Counted
  <2> HIDE DEF o, n, T
  <2>5. attempts' + n < MaxFailed + T
    BY <1>1, <1>6, <2>3, <2>4, MaxFailedAssumption
  <2> QED BY <2>5 DEF Counted, n, T
<1>7. ASSUME NEW y, tab' = [tab EXCEPT ![t] = y], y.page = "closed" \/ y.join # "recording"
      PROVE  ~InJoin(t, "recording")'
  BY <1>1, <1>7 DEF InJoin
<1>8. ASSUME CountAttempts(t), attempts < MaxFailed PROVE Counted'
  <2>1. t \notin Recording /\ attempts' = attempts
    BY <1>8 DEF CountAttempts, Recording, InJoin
  <2>2. CASE ~InJoin(t, "recording")'
    BY <1>6, <2>1, <2>2
  <2>3. CASE InJoin(t, "recording")'
    <3>1. Recording' = Recording \cup {t} /\ Cardinality(Recording') = Cardinality(Recording) + 1
      BY <1>3, <1>4, <1>5, <2>1, <2>3
    <3>2. Recording' \subseteq Tabs
      BY DEF Recording
    <3>3. Cardinality(Recording') \in Nat /\ Cardinality(Recording') <= Cardinality(Tabs)
      BY <3>2, FewRecord
    <3>4. /\ InsertAttempts * Cardinality(Recording') \in Nat /\ InsertAttempts * Cardinality(Tabs) \in Nat
          /\ InsertAttempts * Cardinality(Recording') <= InsertAttempts * Cardinality(Tabs)
      BY <1>2, <3>3, Multiples
    <3> QED BY <1>1, <1>8, <2>1, <3>4, MaxFailedAssumption DEF Counted
  <2> QED BY <2>2, <2>3
<1>9. ASSUME NEW pc, JoinGoes(t, pc), pc # "recording" PROVE ~InJoin(t, "recording")'
  <2>1. CASE tab[t] = NoTab \/ tab[t].page = "closed"
    BY <1>1, <1>9, <2>1, TabFields DEF JoinGoes, Answered, InJoin, NoTab
  <2>2. CASE tab[t] \in Tab
    <3>1. Answered(t, pc).join = pc /\ [tab[t] EXCEPT !.join = pc].join = pc
      BY <2>2 DEF Answered, Tab
    <3> QED BY <1>1, <1>9, <3>1 DEF JoinGoes, InJoin
  <2> QED BY <1>1, <2>1, <2>2
<1>10. CASE RecordAttempt(t)
  <2>1. t \in Recording /\ JoinGoes(t, "failed") /\ \E i \in 0 .. InsertAttempts : attempts' = attempts + i
    BY <1>10 DEF RecordAttempt, Recording
  <2>2. ~InJoin(t, "recording")'
    BY <1>9, <2>1
  <2>3. Recording' = Recording \ {t}
    BY <1>3, <1>4, <2>2
  <2>4. Cardinality(Recording') \in Nat /\ Cardinality(Recording) = Cardinality(Recording') + 1
    <3>1. Recording' \subseteq Tabs
      BY DEF Recording
    <3>2. Cardinality(Recording') = Cardinality(Recording) - 1
      BY <1>5, <2>1, <2>3
    <3> QED BY <1>2, <3>1, <3>2, FewRecord
  <2> DEFINE o == InsertAttempts * Cardinality(Recording)
             n == InsertAttempts * Cardinality(Recording')
             T == InsertAttempts * Cardinality(Tabs)
  <2>5. o = n + InsertAttempts /\ n \in Nat /\ T \in Nat /\ InsertAttempts \in Nat
    BY <1>2, <2>4, Multiples
  <2>6. attempts + o < MaxFailed + T
    BY DEF Counted
  <2> HIDE DEF o, n, T
  <2>7. attempts' + n < MaxFailed + T
    BY <1>1, <2>1, <2>5, <2>6, MaxFailedAssumption
  <2> QED BY <2>7 DEF Counted, n, T
<1>11. CASE CountAttempts(t) /\ attempts >= MaxFailed
  <2>1. JoinGoes(t, "failed") /\ attempts' = attempts
    BY <1>11 DEF CountAttempts
  <2> QED BY <1>6, <1>9, <2>1
<1>12. CASE CountAttempts(t) /\ attempts < MaxFailed
  BY <1>8, <1>12
<1>13. CASE CheckMember(t) \/ InsertMember(t) \/ JoinBreaks(t)
  <2>1. attempts' = attempts /\ \E pc \in {"done", "counting", "failed"} : JoinGoes(t, pc)
    BY <1>13 DEF CheckMember, InsertMember, JoinBreaks
  <2> QED BY <1>6, <1>9, <2>1
<1>14. CASE Leave(t)
  BY <1>6, <1>7, <1>14 DEF Leave, NoTab
<1>15. ASSUME NEW l \in Copied, OpenLink(t, l) PROVE Counted'
  <2> DEFINE y == [page |-> "loading", link |-> l, keyValid |-> FALSE,
                   acceptsPassword |-> FALSE, already |-> FALSE, join |-> "none",
                   password |-> 0, verdict |-> "none", dead |-> FALSE]
  <2>1. tab' = [tab EXCEPT ![t] = y] /\ attempts' = attempts
    BY <1>15 DEF OpenLink
  <2>2. y.join # "recording"
    OBVIOUS
  <2> HIDE DEF y
  <2> QED BY <1>6, <1>7, <2>1, <2>2
<1>16. CASE Preview(t)
  <2>1. tab[t].page = "loading" /\ tab[t] \in Tab /\ attempts' = attempts
    BY <1>1, <1>16, TabFields DEF Preview
  <2>2. tab[t].join = "none"
    BY <2>1 DEF TypeOK
  <2> DEFINE b == [tab[t] EXCEPT !.page = "broken"]
             s == [tab[t] EXCEPT !.page = "shown", !.already = member,
                                 !.keyValid = KeyMatches(invite, tab[t].link.key),
                                 !.acceptsPassword = invite.password # 0]
  <2>3. b.join = "none" /\ s.join = "none"
    BY <2>1, <2>2 DEF Tab
  <2>4. \E y \in {b, s} : tab' = [tab EXCEPT ![t] = y]
    BY <1>16 DEF Preview
  <2> HIDE DEF b, s
  <2> QED BY <1>6, <1>7, <2>1, <2>3, <2>4
<1>17. ASSUME NEW p \in {0, 1, 2}, Join(t, p) PROVE Counted'
  <2>1. tab[t].page = "shown" /\ tab[t] \in Tab /\ attempts' = attempts
    BY <1>1, <1>17, TabFields DEF Join, CanJoin
  <2> DEFINE y == [tab[t] EXCEPT !.join = "sent", !.password = p,
                     !.dead = p = 0 /\ (tab[t].link.code # invite.code
                                        \/ ~KeyMatches(invite, tab[t].link.key))]
  <2>2. tab' = [tab EXCEPT ![t] = y]
    BY <1>17 DEF Join
  <2>3. y.join = "sent"
    BY <2>1 DEF Tab
  <2> HIDE DEF y
  <2> QED BY <1>6, <1>7, <2>1, <2>2, <2>3
<1>18. CASE FindInvite(t)
  <2>1. tab[t] \in Tab /\ attempts' = attempts
    BY <1>1, <1>18, TabFields DEF FindInvite, InJoin
  <2>2. CASE tab[t].link.code # invite.code
    <3>1. JoinGoes(t, "failed")
      BY <1>18, <2>2 DEF FindInvite, JoinGoes
    <3> QED BY <1>6, <1>9, <2>1, <3>1
  <2>3. CASE tab[t].link.code = invite.code
    <3> DEFINE y == [tab[t] EXCEPT !.join = "found", !.verdict = Verdict(t)]
    <3>1. tab' = [tab EXCEPT ![t] = y]
      BY <1>18, <2>3 DEF FindInvite
    <3>2. y.join = "found"
      BY <2>1 DEF Tab
    <3> HIDE DEF y
    <3> QED BY <1>6, <1>7, <2>1, <3>1, <3>2
  <2> QED BY <2>2, <2>3
<1>19. CASE CountAttempts(t)
  BY <1>1, <1>11, <1>12, <1>19, MaxFailedAssumption
<1> QED BY <1>10, <1>13, <1>14, <1>15, <1>16, <1>17, <1>18, <1>19 DEF Newcomer

LEMMA ExpireStep ==
  ASSUME Inv, AttemptsExpire
  PROVE  Inv'
<1>1. /\ attempts \in Nat /\ attempts > 0 /\ attempts' = attempts - 1 /\ tab' = tab /\ member' = member
      /\ invite' = invite /\ fresh' = fresh /\ card' = card /\ editing' = editing /\ req' = req /\ tidy' = tidy
  BY DEF Inv, TypeOK, AttemptsExpire, admin
<1>2. /\ Recording' = Recording /\ Cardinality(Recording) \in Nat /\ Cardinality(Tabs) \in Nat
      /\ InsertAttempts * Cardinality(Recording) \in Nat /\ InsertAttempts * Cardinality(Tabs) \in Nat
  BY <1>1, FewRecord, Multiples DEF Recording, InJoin
<1>3. Counted'
  BY <1>1, <1>2, MaxFailedAssumption DEF Inv, Counted
<1>4. Numbered' /\ Fits' /\ Current'
  BY <1>1 DEF Inv, Numbered, Older, Fits, Fit, Doomed, Current
<1>5. TypeOK'
  <2>1. attempts' \in Nat
    BY <1>1
  <2> QED BY <1>1, <2>1 DEF Inv, TypeOK
<1> QED BY <1>3, <1>4, <1>5 DEF Inv

-----------------------------------------------------------------------------
(* The card.                                                               *)

(* New codes and tokens are none of those in links.                        *)
LEMMA FitsKept ==
  ASSUME TypeOK, Fits, tab' = tab, fresh' \in Nat, fresh <= fresh',
         \/ invite'.code = invite.code /\ invite'.token = invite.token
         \/ invite'.code = invite.code /\ invite'.token = 0
         \/ invite'.code = invite.code /\ invite'.token > fresh
         \/ invite'.code > fresh,
         invite' \in Row
  PROVE  Fits'
<1>1. fresh \in Nat /\ invite \in Row /\ invite.code \in Nat /\ invite.token \in Nat
      /\ invite'.code \in Nat /\ invite'.token \in Nat
  BY DEF TypeOK, Row
<1>2. ASSUME NEW t \in Tabs, tab[t] # NoTab
      PROVE  /\ tab[t].join # "none" => tab[t].page = "shown"
             /\ tab[t].link.code <= fresh' /\ tab[t].link.key <= fresh'
             /\ tab[t].dead => Doomed(tab[t])'
  <2>1. /\ tab[t].link.code \in Nat /\ tab[t].link.key \in Nat /\ Fit(tab[t])
    BY <1>2, TabFields DEF TypeOK, Fits
  <2>2. /\ tab[t].join # "none" => tab[t].page = "shown"
        /\ tab[t].link.code <= fresh /\ tab[t].link.key <= fresh
        /\ tab[t].dead => Doomed(tab[t])
    BY <1>2, <2>1 DEF Fit
  <2>3. ASSUME tab[t].link.code # invite.code \/ ~KeyMatches(invite, tab[t].link.key)
        PROVE  tab[t].link.code # invite'.code \/ ~KeyMatches(invite', tab[t].link.key)
    BY <1>1, <2>1, <2>2, <2>3 DEF KeyMatches
  <2>4. Doomed(tab[t]) => Doomed(tab[t])'
    BY <2>3 DEF Doomed, KeyMatches
  <2> QED BY <1>1, <2>1, <2>2, <2>4
<1> QED BY <1>2 DEF Fits, Fit

LEMMA CountedKept ==
  ASSUME Counted, tab' = tab, attempts' = attempts
  PROVE  Counted'
<1>1. Recording' = Recording
  BY DEF Recording, InJoin
<1> QED BY <1>1 DEF Counted

LEMMA ReqBecomes ==
  ASSUME TypeOK, NEW m \in Mutations, NEW q \in {Idle} \cup Req, req' = [req EXCEPT ![m] = q]
  PROVE  /\ req' \in [Mutations -> {Idle} \cup Req] /\ req'[m] = q
         /\ \A n \in Mutations : n # m => req'[n] = req[n]
BY DEF TypeOK

LEMMA EditingType == ASSUME TypeOK, NEW old, NEW new PROVE Editing(old, new) \in BOOLEAN
<1>1. CASE {s.hasPassword : s \in old} = {s.hasPassword : s \in new}
  BY <1>1 DEF Editing, TypeOK
<1>2. CASE {s.hasPassword : s \in old} # {s.hasPassword : s \in new}
  BY <1>2, Zenon DEF Editing
<1> QED BY <1>1, <1>2

(* The query of the card.                                                  *)
CardSteps == OpenCard \/ ReadInvite \/ InviteLands \/ ChangePassword

LEMMA CardStep == ASSUME Inv, CardSteps PROVE Inv'
<1>1. /\ invite' = invite /\ fresh' = fresh /\ req' = req /\ tab' = tab /\ member' = member
      /\ attempts' = attempts
  BY DEF CardSteps, OpenCard, ReadInvite, InviteLands, ChangePassword
<1>2. /\ TypeOK /\ Numbered /\ Fits /\ Counted /\ Current /\ card \in Entry(Settings)
      /\ invite \in Row /\ Out(invite) \in Settings /\ fresh \in Nat /\ Out(invite).code = invite.code
      /\ Out(invite).token = invite.token /\ editing \in BOOLEAN /\ tidy \in BOOLEAN
  BY OutType DEF Inv, TypeOK
<1>3. Fits'
  BY <1>1, <1>2, FitsKept
<1>4. Counted'
  BY <1>1, <1>2, CountedKept
<1>5. card.data \in Maybe(Settings) /\ card.got \in Maybe(Settings) /\ card.stale \in BOOLEAN
      /\ card.flight \in {"none", "sent", "read"}
  BY <1>2 DEF Entry
<1>6. ASSUME card' \in Entry(Settings), editing' \in BOOLEAN, tidy' \in BOOLEAN PROVE TypeOK'
  BY <1>1, <1>2, <1>6 DEF TypeOK
<1>7. ASSUME \A s \in card'.data \cup card'.got : Older(s) PROVE Numbered'
  BY <1>1, <1>2, <1>7 DEF Numbered, Older
<1>8. CASE OpenCard
  <2>1. /\ card' \in Entry(Settings) /\ card'.data = card.data
        /\ (card'.flight = "sent" /\ card'.got = {}) \/ card' = card
    <3>1. {} \in Maybe(Settings)
      BY DEF Maybe
    <3> QED BY <1>2, <1>8, <3>1 DEF OpenCard, Mount, Fetch, Send, Entry
  <2>2. tidy' = (tidy /\ \A m \in Mutations : ~IsPending(m)) /\ editing' = editing
    BY <1>8 DEF OpenCard
  <2>3. tidy' \in BOOLEAN /\ (tidy' => tidy /\ \A m \in Mutations : ~IsPending(m))
    BY <2>2, Zenon
  <2>4. \A m \in Mutations : ~IsPending(m) => req[m] = Idle
    BY ReqFields DEF Inv, TypeOK, IsPending
  <2>5. TypeOK' /\ Numbered'
    <3>1. editing' \in BOOLEAN
      BY <1>2, <1>8 DEF OpenCard
    <3>2. \A s \in card'.data \cup card'.got : Older(s)
      BY <1>2, <2>1 DEF Numbered
    <3> QED BY <1>6, <1>7, <2>1, <2>3, <3>1, <3>2
  <2>6. Current'
    <3>1. SUFFICES ASSUME tidy' PROVE Current'
      BY DEF Current
    <3>2. tidy /\ \A m \in Mutations : req[m] = Idle
      BY <2>3, <2>4, <3>1
    <3> QED BY <1>1, <1>2, <2>1, <3>2 DEF Current
  <2> QED BY <1>3, <1>4, <2>5, <2>6 DEF Inv
<1>9. CASE ReadInvite
  <2>1. /\ card' \in Entry(Settings) /\ card'.data = card.data
        /\ card'.flight = "read" /\ card'.got = {Out(invite)} /\ card.flight = "sent"
        /\ editing' = editing /\ tidy' = tidy
    <3>1. {Out(invite)} \in Maybe(Settings)
      BY <1>2 DEF Maybe
    <3> QED BY <1>2, <1>9, <3>1 DEF ReadInvite, Read, Entry
  <2>2. TypeOK'
    BY <1>2, <1>6, <2>1
  <2>3. Numbered'
    BY <1>2, <1>7, <2>1 DEF Numbered, Older
  <2>4. Current'
    BY <1>1, <1>2, <2>1 DEF Current
  <2> QED BY <1>3, <1>4, <2>2, <2>3, <2>4 DEF Inv
<1>10. CASE InviteLands
  <2>1. /\ card' \in Entry(Settings) /\ card'.data = card.got
        /\ card'.flight = "none" /\ card'.got = {} /\ card.flight = "read" /\ tidy' = tidy
    <3>1. {} \in Maybe(Settings)
      BY DEF Maybe
    <3> QED BY <1>5, <1>10, <3>1 DEF InviteLands, Landed, Entry
  <2>2. editing' \in BOOLEAN
    BY <1>2, <1>10, EditingType DEF InviteLands
  <2>3. TypeOK'
    BY <1>2, <1>6, <2>1, <2>2
  <2>4. Numbered'
    BY <1>2, <1>7, <2>1 DEF Numbered
  <2>5. Current'
    BY <1>1, <1>2, <2>1 DEF Current
  <2> QED BY <1>3, <1>4, <2>3, <2>4, <2>5 DEF Inv
<1>11. CASE ChangePassword
  <2>1. card' = card /\ tidy' = tidy /\ editing' = ~editing
    BY <1>11 DEF ChangePassword
  <2>2. editing' \in BOOLEAN
    BY <2>1, Zenon
  <2>3. TypeOK' /\ Numbered'
    BY <1>2, <1>6, <1>7, <2>1, <2>2 DEF Numbered
  <2>4. Current'
    BY <1>1, <1>2, <2>1 DEF Current
  <2> QED BY <1>3, <1>4, <2>3, <2>4 DEF Inv
<1> QED BY <1>8, <1>9, <1>10, <1>11 DEF CardSteps

(* Its mutations: sent, and their answers.                                 *)
LEMMA MutateStep == ASSUME Inv, NEW m \in Mutations, NEW on \in BOOLEAN, Mutate(m, on) PROVE Inv'
<1> DEFINE q == [pc |-> "sent", on |-> on, out |-> Out(NoRow)]
<1>1. NoRow \in Row /\ NoRow.code = 0 /\ NoRow.token = 0
  BY DEF NoRow, Row
<1>2. q \in Req /\ q.pc = "sent" /\ q.out.code = 0 /\ q.out.token = 0
  BY <1>1, OutType DEF Req
<1>3. /\ req' = [req EXCEPT ![m] = q]
      /\ invite' = invite /\ fresh' = fresh /\ card' = card /\ editing' = editing /\ tab' = tab
      /\ member' = member /\ attempts' = attempts
  BY DEF Mutate
<1> HIDE DEF q
<1>4. tidy' \in BOOLEAN /\ (tidy' => tidy /\ ~Unanswered)
  BY Zenon DEF Mutate
<1>5. /\ TypeOK /\ Numbered /\ Fits /\ Counted /\ Current /\ fresh \in Nat /\ invite \in Row
  BY DEF Inv, TypeOK
<1>6. /\ req' \in [Mutations -> {Idle} \cup Req] /\ req'[m] = q
      /\ \A n \in Mutations : n # m => req'[n] = req[n]
  BY <1>2, <1>3, <1>5, ReqBecomes
<1>7. TypeOK'
  BY <1>3, <1>4, <1>5, <1>6 DEF TypeOK
<1>8. Numbered'
  <2>1. Older(q.out)
    BY <1>2, <1>5 DEF Older
  <2>2. \A n \in Mutations : req'[n] # Idle => Older(req'[n].out)
    BY <1>5, <1>6, <2>1 DEF Numbered
  <2> QED BY <1>3, <1>5, <2>2 DEF Numbered, Older
<1>9. Current'
  <2>1. SUFFICES ASSUME tidy' PROVE Current'
    BY DEF Current
  <2>2. card.flight = "none" /\ \A n \in Mutations : req[n] = Idle
    <3>1. \A n \in Mutations : req[n] \in {Idle} \cup Req
      BY <1>5 DEF TypeOK
    <3> QED BY <1>4, <2>1, <3>1, ReqFields DEF Unanswered, IsPending
  <2>3. \A n \in Mutations : req[n].pc # "done" /\ req'[n].pc # "done"
    BY <1>2, <1>6, <2>2 DEF Idle
  <2>4. \A s \in card.data : s = Out(invite)
    BY <1>4, <1>5, <2>1, <2>3 DEF Current
  <2> QED BY <1>3, <1>6, <2>2, <2>3, <2>4 DEF Current
<1>10. Fits'
  BY <1>3, <1>5, FitsKept
<1>11. Counted'
  BY <1>3, <1>5, CountedKept
<1> QED BY <1>7, <1>8, <1>9, <1>10, <1>11 DEF Inv

(* The API sets the row and answers what it has set.                       *)
LEMMA AnswerStep ==
  ASSUME Inv, NEW m \in Mutations, req[m].pc # "idle", NEW row \in Row, invite' = row, Answer(m, row),
         fresh' \in Nat, fresh <= fresh', row.code <= fresh', row.token <= fresh',
         \/ row.code = invite.code /\ row.token = invite.token
         \/ row.code = invite.code /\ row.token = 0
         \/ row.code = invite.code /\ row.token > fresh
         \/ row.code > fresh,
         UNCHANGED <<card, editing, tidy, tab, member, attempts>>
  PROVE  Inv'
<1>1. /\ TypeOK /\ Numbered /\ Fits /\ Counted /\ Current /\ fresh \in Nat /\ invite \in Row
      /\ card \in Entry(Settings) /\ req[m] \in {Idle} \cup Req
  BY DEF Inv, TypeOK
<1> DEFINE q == [req[m] EXCEPT !.pc = "done", !.out = Out(row)]
<1>2. req[m] \in Req /\ req[m] # Idle
  BY <1>1, ReqFields
<1>3. Out(row) \in Settings /\ Out(row).code = row.code /\ Out(row).token = row.token
  BY OutType
<1>4. q \in Req /\ q.pc = "done" /\ q.out = Out(row)
  BY <1>2, <1>3 DEF Req
<1>5. req' = [req EXCEPT ![m] = q]
  BY DEF Answer
<1> HIDE DEF q
<1>6. /\ req' \in [Mutations -> {Idle} \cup Req] /\ req'[m] = q
      /\ \A n \in Mutations : n # m => req'[n] = req[n]
  BY <1>1, <1>4, <1>5, ReqBecomes
<1>7. TypeOK'
  BY <1>1, <1>6 DEF TypeOK
<1>8. Numbered'
  <2>1. \A s \in card.data \cup card.got : s.code \in Nat /\ s.token \in Nat /\ s.code <= fresh /\ s.token <= fresh
    <3>1. \A s \in card.data \cup card.got : s \in Settings
      BY <1>1 DEF Entry, Maybe
    <3> QED BY <1>1, <3>1 DEF Settings, Numbered, Older
  <2>2. \A s \in card'.data \cup card'.got : s.code <= fresh' /\ s.token <= fresh'
    BY <1>1, <2>1
  <2>3. ASSUME NEW n \in Mutations, req'[n] # Idle PROVE req'[n].out.code <= fresh' /\ req'[n].out.token <= fresh'
    <3>1. CASE n = m
      BY <1>3, <1>4, <1>6, <3>1
    <3>2. CASE n # m
      <4>1. req'[n] = req[n] /\ req[n] # Idle /\ req[n] \in {Idle} \cup Req
        BY <1>1, <1>6, <2>3, <3>2 DEF TypeOK
      <4>2. req[n].out \in Settings /\ Older(req[n].out)
        BY <1>1, <4>1, ReqFields DEF Numbered
      <4> QED BY <1>1, <4>1, <4>2 DEF Older, Settings
    <3> QED BY <3>1, <3>2
  <2> QED BY <2>2, <2>3 DEF Numbered, Older
<1>9. Current'
  <2>1. SUFFICES ASSUME tidy' PROVE Current'
    BY DEF Current
  <2>2. /\ tidy /\ card.flight = "none" /\ \A n \in Mutations : n # m => req[n] = Idle
    <3>1. card.flight \in {"none", "sent", "read"}
      BY <1>1 DEF Entry
    <3> QED BY <1>1, <1>2, <2>1, <3>1 DEF Current
  <2>3. \A n \in Mutations : n # m => req'[n] = Idle /\ req'[n].pc # "done"
    BY <1>6, <2>2 DEF Idle
  <2>4. req'[m].pc = "done" /\ req'[m].out = Out(invite)'
    BY <1>4, <1>6
  <2> QED BY <2>2, <2>3, <2>4 DEF Current
<1>10. Fits'
  BY <1>1, FitsKept
<1>11. Counted'
  BY <1>1, CountedKept
<1> QED BY <1>7, <1>8, <1>9, <1>10, <1>11 DEF Inv

LEMMA ServeStep == ASSUME Inv, SetLink \/ SetPassword \/ ResetCode PROVE Inv'
<1>1. /\ invite \in Row /\ fresh \in Nat /\ invite.code <= fresh /\ invite.token <= fresh
      /\ invite.code \in Nat /\ invite.token \in Nat
  BY DEF Inv, TypeOK, Numbered, Older, Row
<1>2. CASE SetLink
  <2> DEFINE row == [invite EXCEPT !.token = IF req["link"].on THEN fresh + 1 ELSE 0]
  <2>1. row \in Row /\ row.code = invite.code /\ row.token = IF req["link"].on THEN fresh + 1 ELSE 0
    BY <1>1 DEF Row
  <2>2. /\ req["link"].pc = "sent" /\ invite' = row /\ Answer("link", row)
        /\ fresh' = IF req["link"].on THEN fresh + 1 ELSE fresh
        /\ UNCHANGED <<card, editing, tidy, tab, member, attempts>>
    BY <1>2 DEF SetLink
  <2> HIDE DEF row
  <2>3. /\ fresh' \in Nat /\ fresh <= fresh' /\ row.code <= fresh' /\ row.token <= fresh'
        /\ row.token = 0 \/ row.token > fresh
    BY <1>1, <2>1, <2>2
  <2>4. "link" \in Mutations /\ req["link"].pc # "idle"
    BY <2>2 DEF Mutations
  <2> QED BY <2>1, <2>2, <2>3, <2>4, AnswerStep
<1>3. CASE SetPassword
  <2> DEFINE row == [invite EXCEPT !.password = IF req["password"].on THEN 1 ELSE 0]
  <2>1. row \in Row /\ row.code = invite.code /\ row.token = invite.token
    BY <1>1 DEF Row
  <2>2. /\ req["password"].pc = "sent" /\ invite' = row /\ Answer("password", row)
        /\ UNCHANGED <<fresh, card, editing, tidy, tab, member, attempts>>
    BY <1>3 DEF SetPassword
  <2> HIDE DEF row
  <2>3. "password" \in Mutations /\ req["password"].pc # "idle"
    BY <2>2 DEF Mutations
  <2>4. fresh' \in Nat /\ fresh <= fresh' /\ row.code <= fresh' /\ row.token <= fresh'
    BY <1>1, <2>1, <2>2
  <2> QED BY <2>1, <2>2, <2>3, <2>4, AnswerStep
<1>4. CASE ResetCode
  <2> DEFINE row == [invite EXCEPT !.code = fresh + 1,
                                   !.token = IF req["code"].out.token # 0 THEN fresh + 2 ELSE invite.token]
  <2>1. row \in Row /\ row.code = fresh + 1 /\ (row.token = fresh + 2 \/ row.token = invite.token)
    <3>1. fresh + 1 \in Nat /\ fresh + 2 \in Nat
      BY <1>1
    <3> DEFINE token == IF req["code"].out.token # 0 THEN fresh + 2 ELSE invite.token
    <3>2. token \in Nat /\ token \in {fresh + 2, invite.token}
      BY <1>1, <3>1
    <3> HIDE DEF token
    <3> QED BY <1>1, <3>1, <3>2 DEF Row
  <2>2. /\ req["code"].pc = "updating" /\ invite' = row /\ Answer("code", row) /\ fresh' = fresh + 2
        /\ UNCHANGED <<card, editing, tidy, tab, member, attempts>>
    BY <1>4 DEF ResetCode
  <2> HIDE DEF row
  <2>3. /\ fresh' \in Nat /\ fresh <= fresh' /\ row.code <= fresh' /\ row.token <= fresh' /\ row.code > fresh
    BY <1>1, <2>1, <2>2
  <2>4. "code" \in Mutations /\ req["code"].pc # "idle"
    BY <2>2 DEF Mutations
  <2> QED BY <2>1, <2>2, <2>3, <2>4, AnswerStep
<1> QED BY <1>2, <1>3, <1>4

LEMMA ReadForCodeStep == ASSUME Inv, ReadForCode PROVE Inv'
<1>1. /\ TypeOK /\ Numbered /\ Fits /\ Counted /\ Current /\ fresh \in Nat /\ invite \in Row
      /\ req["code"] \in {Idle} \cup Req /\ "code" \in Mutations
  BY DEF Inv, TypeOK, Mutations
<1> DEFINE q == [req["code"] EXCEPT !.pc = "updating", !.out = Out(invite)]
<1>2. /\ req["code"].pc = "sent" /\ req' = [req EXCEPT !["code"] = q]
      /\ invite' = invite /\ fresh' = fresh /\ card' = card /\ editing' = editing /\ tidy' = tidy
      /\ tab' = tab /\ member' = member /\ attempts' = attempts
  BY DEF ReadForCode
<1>3. req["code"] \in Req /\ req["code"] # Idle
  BY <1>1, <1>2, ReqFields
<1>4. Out(invite) \in Settings /\ Out(invite).code = invite.code /\ Out(invite).token = invite.token
  BY <1>1, OutType
<1>5. q \in Req /\ q.pc = "updating" /\ q.out = Out(invite)
  BY <1>3, <1>4 DEF Req
<1> HIDE DEF q
<1>6. /\ req' \in [Mutations -> {Idle} \cup Req] /\ req'["code"] = q
      /\ \A n \in Mutations : n # "code" => req'[n] = req[n]
  BY <1>1, <1>2, <1>5, ReqBecomes
<1>7. TypeOK'
  BY <1>1, <1>2, <1>6 DEF TypeOK
<1>8. Numbered'
  BY <1>1, <1>2, <1>4, <1>5, <1>6 DEF Numbered, Older
<1>9. Current'
  <2>1. SUFFICES ASSUME tidy' PROVE Current'
    BY DEF Current
  <2>2. /\ tidy /\ card.flight = "none" /\ \A n \in Mutations : n # "code" => req[n] = Idle
    <3>1. card.flight \in {"none", "sent", "read"}
      BY <1>1 DEF TypeOK, Entry
    <3> QED BY <1>1, <1>2, <1>3, <2>1, <3>1 DEF Current
  <2>3. \A n \in Mutations : req[n].pc # "done" /\ req'[n].pc # "done"
    BY <1>2, <1>5, <1>6, <2>2 DEF Idle
  <2>4. \A s \in card.data : s = Out(invite)
    BY <1>1, <2>2, <2>3 DEF Current
  <2>5. \A n \in Mutations : n # "code" => req'[n] = Idle
    BY <1>6, <2>2
  <2> QED BY <1>2, <2>2, <2>3, <2>4, <2>5 DEF Current
<1>10. Fits'
  BY <1>1, <1>2, FitsKept
<1>11. Counted'
  BY <1>1, <1>2, CountedKept
<1> QED BY <1>7, <1>8, <1>9, <1>10, <1>11 DEF Inv

LEMMA MutationEnds ==
  ASSUME Inv, NEW m \in Mutations, MutationLands(m) \/ MutationFails(m)
  PROVE  Inv'
<1>1. /\ TypeOK /\ Numbered /\ Fits /\ Counted /\ Current /\ fresh \in Nat /\ invite \in Row
      /\ req[m] \in {Idle} \cup Req /\ editing \in BOOLEAN /\ tidy \in BOOLEAN /\ card \in Entry(Settings)
  BY DEF Inv, TypeOK
<1>2. /\ req' = [req EXCEPT ![m] = Idle] /\ req[m].pc # "idle"
      /\ invite' = invite /\ fresh' = fresh /\ tab' = tab /\ member' = member /\ attempts' = attempts
  BY DEF MutationLands, MutationFails, IsPending
<1>3. req[m] \in Req /\ req[m] # Idle
  BY <1>1, <1>2, ReqFields
<1>4. /\ req' \in [Mutations -> {Idle} \cup Req] /\ req'[m] = Idle
      /\ \A n \in Mutations : n # m => req'[n] = req[n]
  BY <1>1, <1>2, ReqBecomes
<1>5. ASSUME tidy
      PROVE  /\ card.flight = "none" /\ \A n \in Mutations : req'[n] = Idle /\ req'[n].pc = "idle"
             /\ \A n \in Mutations : n # m => req[n].pc # "done"
  <2>1. card.flight \in {"none", "sent", "read"}
    BY <1>1 DEF Entry
  <2>2. \A n \in Mutations : n # m => req[n] = Idle
    BY <1>1, <1>3, <1>5 DEF Current
  <2>3. card.flight = "none"
    BY <1>1, <1>3, <1>5, <2>1 DEF Current
  <2> QED BY <1>4, <2>2, <2>3 DEF Idle
<1>6. Fits' /\ Counted'
  BY <1>1, <1>2, FitsKept, CountedKept
<1>7. \A n \in Mutations : req'[n] # Idle => Older(req'[n].out)
  BY <1>1, <1>4 DEF Numbered
<1>8. CASE MutationLands(m)
  <2>1. /\ req[m].pc = "done" /\ card' = [card EXCEPT !.data = {req[m].out}, !.stale = FALSE]
        /\ tidy' = tidy
        /\ editing' = IF m = "password" THEN ~req[m].out.hasPassword ELSE Editing(card.data, {req[m].out})
    BY <1>8 DEF MutationLands
  <2>2. req[m].out \in Settings /\ {req[m].out} \in Maybe(Settings)
    BY <1>3 DEF Req, Maybe
  <2>3. card' \in Entry(Settings) /\ card'.data = {req[m].out} /\ card'.got = card.got /\ card'.flight = card.flight
    BY <1>1, <2>1, <2>2 DEF Entry
  <2>4. editing' \in BOOLEAN
    <3>1. CASE m = "password"
      <4>1. editing' = ~req[m].out.hasPassword
        BY <2>1, <3>1
      <4> QED BY <4>1, Zenon
    <3>2. CASE m # "password"
      BY <1>1, <2>1, <3>2, EditingType
    <3> QED BY <3>1, <3>2
  <2>5. TypeOK'
    BY <1>1, <1>2, <1>4, <2>1, <2>3, <2>4 DEF TypeOK
  <2>6. Numbered'
    <3>1. Older(req[m].out)
      BY <1>1, <1>3 DEF Numbered
    <3>2. \A s \in card'.data \cup card'.got : Older(s)
      BY <1>1, <2>3, <3>1 DEF Numbered
    <3> QED BY <1>1, <1>2, <1>7, <3>2 DEF Numbered, Older
  <2>7. Current'
    <3>1. SUFFICES ASSUME tidy' PROVE Current'
      BY DEF Current
    <3>2. req[m].out = Out(invite)
      BY <1>1, <2>1, <3>1 DEF Current
    <3> QED BY <1>2, <1>5, <2>1, <2>3, <3>1, <3>2 DEF Current
  <2> QED BY <1>6, <2>5, <2>6, <2>7 DEF Inv
<1>9. CASE MutationFails(m)
  <2>1. card' = card /\ editing' = editing
    BY <1>9 DEF MutationFails
  <2>2. tidy' \in BOOLEAN /\ (tidy' => tidy /\ req[m].pc \in {"sent", "updating"})
    BY <1>9, Zenon DEF MutationFails
  <2>3. TypeOK'
    BY <1>1, <1>2, <1>4, <2>1, <2>2 DEF TypeOK
  <2>4. Numbered'
    BY <1>1, <1>2, <1>7, <2>1 DEF Numbered, Older
  <2>5. Current'
    <3>1. SUFFICES ASSUME tidy' PROVE Current'
      BY DEF Current
    <3>2. \A n \in Mutations : req[n].pc # "done"
      BY <1>5, <2>2, <3>1
    <3>3. \A s \in card.data : s = Out(invite)
      BY <1>1, <2>2, <3>1, <3>2 DEF Current
    <3> QED BY <1>2, <1>5, <2>1, <2>2, <3>1, <3>3 DEF Current
  <2> QED BY <1>6, <2>3, <2>4, <2>5 DEF Inv
<1> QED BY <1>8, <1>9

-----------------------------------------------------------------------------
(* Joining: the theorems.                                                  *)

LEMMA InvStep == Inv /\ [Next]_vars => Inv'
<1> SUFFICES ASSUME Inv, [Next]_vars PROVE Inv'
  OBVIOUS
<1>1. ASSUME NEW t \in Tabs, Newcomer(t) PROVE Inv'
  BY <1>1, NewcomerStep, CountedNewcomer DEF Inv
<1>2. ASSUME NEW m \in Mutations, NEW on \in BOOLEAN, Mutate(m, on) PROVE Inv'
  BY <1>2, MutateStep
<1>3. ASSUME NewWorkspaceLink \/ \E on \in BOOLEAN : ClickLink(on) \/ ClickPassword(on) PROVE Inv'
  <2>1. "link" \in Mutations /\ "code" \in Mutations /\ "password" \in Mutations
    BY DEF Mutations
  <2> QED BY <1>2, <1>3, <2>1 DEF NewWorkspaceLink, ClickLink, ClickPassword
<1>4. CASE Next
  BY <1>1, <1>3, <1>4, CardStep, ServeStep, ReadForCodeStep, MutationEnds, ExpireStep
     DEF Next, Newcomer, CardSteps
<1>5. CASE UNCHANGED vars
  BY <1>5 DEF vars, Inv, TypeOK, Numbered, Older, Fits, Fit, Doomed, Counted, Recording, InJoin, Current
<1> QED BY <1>4, <1>5

THEOREM Invariance == Spec => []Inv
BY InvInit, InvStep, PTL DEF Spec

(* The invite, the card and the join pages keep to their types.            *)
THEOREM TypeCorrect == Spec => []TypeOK
<1>1. Inv => TypeOK
  BY DEF Inv
<1> QED BY <1>1, Invariance, PTL

(* join_workspace never gets to the insert for a link that was dead when   *)
(* its button was pressed.                                                 *)
THEOREM DeadStaysDead == Spec => []DeadLinksStayOut
<1>1. Inv => DeadLinksStayOut
  <2> SUFFICES ASSUME Inv, NEW t \in Tabs, InJoin(t, "inserting"), tab[t].dead PROVE FALSE
    BY DEF DeadLinksStayOut
  <2>1. tab[t] # NoTab /\ tab[t].join = "inserting"
    BY TabFields DEF Inv, TypeOK, InJoin
  <2> QED BY <2>1 DEF Inv, Fits, Fit, Doomed
<1> QED BY <1>1, Invariance, PTL

(* The attempts recorded exceed their limit by fewer than the tabs that    *)
(* try, since each counts before it records.                               *)
THEOREM AttemptsAreBounded == Spec => []AttemptsBounded
<1>1. Inv => AttemptsBounded
  <2> SUFFICES ASSUME Inv PROVE AttemptsBounded
    OBVIOUS
  <2>1. /\ InsertAttempts * Cardinality(Recording) \in Nat /\ InsertAttempts * Cardinality(Tabs) \in Nat
        /\ attempts \in Nat
    BY FewRecord, Multiples DEF Recording, Inv, TypeOK
  <2> QED BY <2>1, MaxFailedAssumption DEF Inv, Counted, AttemptsBounded
<1> QED BY <1>1, Invariance, PTL

(* setQueryData keeps the card at what is set, while its requests come one *)
(* at a time and none is lost.                                             *)
THEOREM CardStaysCurrent == Spec => []CardIsCurrent
<1>1. Inv => CardIsCurrent
  <2> SUFFICES ASSUME Inv, tidy, ~Unanswered, NEW s \in card.data PROVE s = Out(invite)
    BY DEF CardIsCurrent
  <2>1. \A m \in Mutations : req[m].pc = "idle"
    BY DEF Unanswered, IsPending
  <2> QED BY <2>1 DEF Inv, Current
<1> QED BY <1>1, Invariance, PTL

-----------------------------------------------------------------------------
(* Connecting an app: the inductive invariant.                             *)

KeyRows == [ws : Memberships, request : Connect!Requests]

(* Pages and decisions are about requests that were made, and a decision's *)
(* key is one minted for its request.                                      *)
Known ==
  /\ \A t \in ConsentTabs : consent[t] # Connect!Closed => consent[t].request \in Connect!Requests
  /\ \A t \in Connect!Going :
       /\ call[t].request \in Connect!Requests
       /\ call[t].key # 0 => call[t].key \in Connect!KeyIds /\ keys[call[t].key].request = call[t].request
       /\ call[t].pc = "complete" => call[t].key # 0

(* What was redirected is not pending any more.                            *)
Redirects ==
  \A r \in 1 .. MaxRequests :
    redirects[r] # 0 => redirects[r] = 1 /\ r \in Connect!Requests /\ r \notin pending

(* The keys that a client has, or may still get.                           *)
Issued ==
  codes \cup offered \cup holds
  \cup {k \in Connect!KeyIds : \E t \in Connect!Going : call[t].pc = "redirect" /\ call[t].key = k}

(* One of them for a request, and none while the request is pending.       *)
IssuedOnce ==
  /\ \A k \in Issued : keys[k].request \notin pending
  /\ \A k, l \in Issued : keys[k].request = keys[l].request => k = l

(* A decision that runs alone has its request to itself, pending and young *)
(* since it was looked up; its refusal left no key.                        *)
Undisturbed ==
  \A t \in Connect!Going : call[t].alone =>
    /\ \A u \in Connect!Going : call[u].request = call[t].request => u = t
    /\ call[t].pc \in {"member", "mint", "complete"} => call[t].request \in pending \ aged
    /\ call[t].pc \in {"pending", "member", "mint", "refused"} => call[t].key = 0

ConnectInv == Connect!TypeOK /\ Known /\ Redirects /\ IssuedOnce /\ Undisturbed

-----------------------------------------------------------------------------
(* Pages and decisions have their fields.                                  *)

LEMMA CallFields ==
  ASSUME Connect!TypeOK, NEW t \in ConsentTabs
  PROVE  /\ call[t] # Connect!Idle <=> call[t] \in Connect!Call
         /\ call[t].pc # "idle" => call[t] \in Connect!Call
         /\ call[t] \in Connect!Call => call[t].pc \in {"pending", "member", "mint", "complete", "redirect", "refused"}
<1>1. \A c \in Connect!Call : c # Connect!Idle /\ c.pc # "idle"
  BY DEF Connect!Call, Connect!Idle
<1> QED BY <1>1 DEF Connect!TypeOK, Connect!Idle, Connect!Call

LEMMA ConsentFields ==
  ASSUME Connect!TypeOK, NEW t \in ConsentTabs
  PROVE  /\ consent[t] # Connect!Closed <=> consent[t] \in Connect!Page
         /\ consent[t].page # "closed" => consent[t] \in Connect!Page
<1>1. \A p \in Connect!Page : p # Connect!Closed /\ p.page # "closed"
  BY DEF Connect!Page, Connect!Closed
<1> QED BY <1>1 DEF Connect!TypeOK, Connect!Closed

(* What becomes of the calls that another one disturbs.                    *)
LEMMA DisturbedCalls ==
  ASSUME Connect!TypeOK, NEW r, NEW D, D = Connect!Disturbed(r, ConsentTabs)
  PROVE  /\ D \in [ConsentTabs -> {Connect!Idle} \cup Connect!Call]
         /\ \A t \in ConsentTabs :
              /\ D[t] # Connect!Idle <=> t \in Connect!Going
              /\ t \in Connect!Going =>
                   /\ D[t] \in Connect!Call
                   /\ D[t].pc = call[t].pc /\ D[t].request = call[t].request
                   /\ D[t].key = call[t].key /\ D[t].ws = call[t].ws /\ D[t].here = call[t].here
                   /\ D[t].alone => call[t].alone /\ call[t].request # r
<1>1. ASSUME NEW t \in ConsentTabs
      PROVE  /\ D[t] \in {Connect!Idle} \cup Connect!Call
             /\ D[t] # Connect!Idle <=> t \in Connect!Going
             /\ t \in Connect!Going =>
                   /\ D[t] \in Connect!Call
                   /\ D[t].pc = call[t].pc /\ D[t].request = call[t].request
                   /\ D[t].key = call[t].key /\ D[t].ws = call[t].ws /\ D[t].here = call[t].here
                   /\ D[t].alone => call[t].alone /\ call[t].request # r
  <2>1. CASE t \in Connect!Going
    <3>1. call[t] \in Connect!Call
      BY <2>1, CallFields DEF Connect!Going
    <3>2. D[t] = IF call[t].request = r THEN [call[t] EXCEPT !.alone = FALSE] ELSE call[t]
      BY <2>1 DEF Connect!Disturbed, Connect!Going
    <3>3. [call[t] EXCEPT !.alone = FALSE] \in Connect!Call
      BY <3>1 DEF Connect!Call
    <3>4. D[t] \in Connect!Call
      BY <3>1, <3>2, <3>3
    <3>5. D[t] # Connect!Idle
      BY <3>4 DEF Connect!Call, Connect!Idle
    <3> QED BY <2>1, <3>1, <3>2, <3>4, <3>5 DEF Connect!Call
  <2>2. CASE t \notin Connect!Going
    BY <2>2 DEF Connect!Disturbed, Connect!Going
  <2> QED BY <2>1, <2>2
<1>2. D = [t \in ConsentTabs |-> D[t]]
  BY DEF Connect!Disturbed
<1> QED BY <1>1, <1>2

-----------------------------------------------------------------------------
(* Initially.                                                              *)

LEMMA ConnectInvInit == Connect!Init => ConnectInv
<1> SUFFICES ASSUME Connect!Init PROVE ConnectInv
  OBVIOUS
<1>1. Connect!Going = {} /\ Connect!Requests = {} /\ Connect!KeyIds = {}
  BY DEF Connect!Init, Connect!Going, Connect!Requests, Connect!KeyIds
<1>2. Connect!TypeOK
  <2>1. \A t \in ConsentTabs : consent[t] = Connect!Closed /\ call[t] = Connect!Idle
    BY DEF Connect!Init
  <2>2. authorized \in Seq(Clients) /\ keys \in Seq(KeyRows) /\ Len(authorized) = 0 /\ Len(keys) = 0
    BY DEF Connect!Init
  <2>3. 0 <= MaxRequests /\ 0 <= MaxKeys
    BY Limits
  <2> QED BY <1>1, <2>1, <2>2, <2>3 DEF Connect!Init, Connect!TypeOK, KeyRows
<1>3. Known
  BY <1>1 DEF Connect!Init, Known
<1>4. Redirects
  BY DEF Connect!Init, Redirects
<1>5. IssuedOnce
  BY <1>1 DEF Connect!Init, IssuedOnce, Issued
<1>6. Undisturbed
  BY <1>1 DEF Undisturbed
<1> QED BY <1>2, <1>3, <1>4, <1>5, <1>6 DEF ConnectInv

-----------------------------------------------------------------------------
(* Type correctness.                                                       *)

(* What becomes of the calls when one of them goes on.                     *)
LEMMA GotoCalls ==
  ASSUME Connect!TypeOK, NEW t \in ConsentTabs, call[t] # Connect!Idle,
         NEW pc \in {"pending", "member", "mint", "complete", "redirect", "refused"}, Connect!Goto(t, pc)
  PROVE  /\ call' \in [ConsentTabs -> {Connect!Idle} \cup Connect!Call]
         /\ call'[t] \in Connect!Call
         /\ call'[t].pc = pc
         /\ call'[t].request = call[t].request /\ call'[t].key = call[t].key
         /\ call'[t].here = call[t].here /\ call'[t].alone = call[t].alone
         /\ \A u \in ConsentTabs : u # t => call'[u] = call[u]
         /\ Connect!Going' = Connect!Going
<1>1. call[t] \in Connect!Call
  BY CallFields
<1>2. [call[t] EXCEPT !.pc = pc] \in Connect!Call
  BY <1>1 DEF Connect!Call
<1>3. call' = [call EXCEPT ![t] = [call[t] EXCEPT !.pc = pc]]
  BY DEF Connect!Goto
<1>4. call' \in [ConsentTabs -> {Connect!Idle} \cup Connect!Call] /\ call'[t] = [call[t] EXCEPT !.pc = pc]
  BY <1>2, <1>3 DEF Connect!TypeOK
<1>5. call'[t] # Connect!Idle
  BY <1>2, <1>4 DEF Connect!Call, Connect!Idle
<1>6. \A u \in ConsentTabs : u # t => call'[u] = call[u]
  BY <1>3 DEF Connect!TypeOK
<1> QED BY <1>1, <1>2, <1>4, <1>5, <1>6 DEF Connect!Call, Connect!Going

(* The type of what tabs show, and its tie to their calls.                 *)
TabsOK ==
  /\ consent \in [ConsentTabs -> {Connect!Closed} \cup Connect!Page]
  /\ call \in [ConsentTabs -> {Connect!Idle} \cup Connect!Call]
  /\ \A t \in ConsentTabs : consent[t] # Connect!Closed /\ consent[t].submitting => call[t] # Connect!Idle /\ call[t].here

(* The type of what the server and the clients keep.                       *)
KeptOK ==
  /\ registered \subseteq Clients
  /\ authorized \in Seq(Clients) /\ Len(authorized) <= MaxRequests
  /\ pending \subseteq Connect!Requests /\ aged \subseteq Connect!Requests
  /\ keys \in Seq(KeyRows) /\ Len(keys) <= MaxKeys
  /\ codes \subseteq Connect!KeyIds /\ offered \subseteq Connect!KeyIds
  /\ holds \subseteq Connect!KeyIds
  /\ redirects \in [1 .. MaxRequests -> Nat]
  /\ workspaces \subseteq Memberships

LEMMA TypeParts == Connect!TypeOK <=> TabsOK /\ KeptOK
BY DEF Connect!TypeOK, TabsOK, KeptOK, KeyRows

(* A page that changes in one tab, while its call does not.                *)
LEMMA TabChanges ==
  ASSUME Connect!TypeOK, NEW t \in ConsentTabs, NEW p \in {Connect!Closed} \cup Connect!Page, consent' = [consent EXCEPT ![t] = p],
         p # Connect!Closed /\ p.submitting => consent[t] # Connect!Closed /\ consent[t].submitting, call' = call
  PROVE  TabsOK'
BY DEF Connect!TypeOK, TabsOK

LEMMA TabsGo ==
  ASSUME Connect!TypeOK, NEW t \in ConsentTabs, call[t] # Connect!Idle,
         NEW pc \in {"pending", "member", "mint", "complete", "redirect", "refused"}, Connect!Goto(t, pc),
         consent' = consent
  PROVE  TabsOK'
<1>1. \A u \in ConsentTabs : consent[u] # Connect!Closed /\ consent[u].submitting => call'[u] # Connect!Idle /\ call'[u].here
  <2> SUFFICES ASSUME NEW u \in ConsentTabs, consent[u] # Connect!Closed, consent[u].submitting
               PROVE  call'[u] # Connect!Idle /\ call'[u].here
    OBVIOUS
  <2>1. call[u] # Connect!Idle /\ call[u].here
    BY DEF Connect!TypeOK
  <2>2. call'[t] # Connect!Idle
    BY GotoCalls DEF Connect!Call, Connect!Idle
  <2> QED BY <2>1, <2>2, GotoCalls
<1> QED BY <1>1, GotoCalls DEF Connect!TypeOK, TabsOK

LEMMA KeptAuthorize ==
  ASSUME Connect!TypeOK, NEW c \in Clients, Connect!Authorize(c)
  PROVE  KeptOK'
<1>1. authorized' \in Seq(Clients) /\ Len(authorized') = Len(authorized) + 1 /\ Len(authorized) + 1 <= MaxRequests
  BY Limits DEF Connect!Authorize, Connect!TypeOK
<1>2. Connect!Requests \subseteq Connect!Requests' /\ Len(authorized) + 1 \in Connect!Requests'
  BY <1>1 DEF Connect!Requests, Connect!TypeOK
<1>3. keys \in Seq(KeyRows) /\ keys' = keys
  BY DEF Connect!TypeOK, KeyRows, Connect!Authorize
<1>4. keys' \in Seq(KeyRows)'
  <2>1. KeyRows \subseteq KeyRows'
    BY <1>2 DEF KeyRows
  <2> QED BY <2>1, <1>3, SeqMonotonic
<1>5. pending' \subseteq Connect!Requests' /\ aged' \subseteq Connect!Requests'
  BY <1>2 DEF Connect!TypeOK, Connect!Authorize, Connect!Kept
<1>6. Len(keys') <= MaxKeys /\ codes' \subseteq Connect!KeyIds' /\ offered' \subseteq Connect!KeyIds' /\ holds' \subseteq Connect!KeyIds'
  BY DEF Connect!TypeOK, Connect!Authorize, Connect!client, Connect!KeyIds
<1> QED BY <1>1, <1>4, <1>5, <1>6 DEF KeptOK, Connect!TypeOK, Connect!Authorize

LEMMA KeptMint ==
  ASSUME Connect!TypeOK, Known, NEW t \in ConsentTabs, Connect!Mint(t)
  PROVE  KeptOK'
<1>1. call[t] \in Connect!Call /\ t \in Connect!Going
  BY CallFields DEF Connect!Mint, Connect!Going, Connect!Call, Connect!Idle
<1>2. PICK w \in call[t].ws : keys' = Append(keys, [ws |-> w, request |-> call[t].request])
  BY DEF Connect!Mint
<1>3. [ws |-> w, request |-> call[t].request] \in KeyRows
  BY <1>1, <1>2 DEF Known, Connect!Call, KeyRows, Connect!Maybe
<1>4. keys \in Seq(KeyRows) /\ Len(keys) < MaxKeys
  BY DEF Connect!TypeOK, KeyRows, Connect!Mint
<1>5. keys' \in Seq(KeyRows) /\ Len(keys') = Len(keys) + 1 /\ Connect!KeyIds \subseteq Connect!KeyIds'
  BY <1>2, <1>3, <1>4 DEF Connect!KeyIds
<1>6. Len(keys') <= MaxKeys
  BY <1>4, <1>5, Limits
<1>7. KeyRows' = KeyRows
  BY DEF Connect!Mint, Connect!history, KeyRows, Connect!Requests
<1> QED BY <1>5, <1>6, <1>7 DEF KeptOK, Connect!TypeOK, Connect!Mint, Connect!memory, Connect!client, Connect!history, Connect!Requests

LEMMA KeptDecided ==
  ASSUME Connect!TypeOK, NEW t \in ConsentTabs, t \in Connect!Going, Connect!Decided(t)
  PROVE  redirects' \in [1 .. MaxRequests -> Nat]
BY CallFields DEF Connect!Decided, Connect!TypeOK, Connect!Going, Connect!Call

LEMMA KeptStep ==
  ASSUME Connect!TypeOK, Known, Connect!Next
  PROVE  KeptOK'
<1> USE DEF Connect!memory, Connect!client, Connect!history, KeptOK, KeyRows, Connect!Requests, Connect!KeyIds
<1>1. ASSUME NEW c \in Clients, Connect!Register(c) PROVE KeptOK'
  BY <1>1 DEF Connect!Register, Connect!TypeOK
<1>2. ASSUME NEW c \in Clients, Connect!Authorize(c) PROVE KeptOK'
  BY <1>2, KeptAuthorize
<1>3. ASSUME NEW r \in Connect!Requests, Connect!Age(r) PROVE KeptOK'
  BY <1>3 DEF Connect!Age, Connect!TypeOK
<1>4. ASSUME NEW c \in Clients, NEW k \in Connect!KeyIds, Connect!Exchange(c, k) PROVE KeptOK'
  BY <1>4 DEF Connect!Exchange, Connect!TypeOK
<1>5. ASSUME NEW k \in codes, Connect!CodeExpires(k) PROVE KeptOK'
  BY <1>5 DEF Connect!CodeExpires, Connect!TypeOK
<1>6. CASE Connect!Restart
  BY <1>6 DEF Connect!Restart, Connect!TypeOK
<1>7. ASSUME NEW w \in Memberships, Connect!MembershipChanges(w) PROVE KeptOK'
  BY <1>7 DEF Connect!MembershipChanges, Connect!TypeOK
<1>8. ASSUME NEW t \in ConsentTabs, NEW r \in Connect!Requests, Connect!OpenConsent(t, r) PROVE KeptOK'
  BY <1>8 DEF Connect!OpenConsent, Connect!TypeOK
<1>9. ASSUME NEW t \in ConsentTabs, Connect!LoadConsent(t) PROVE KeptOK'
  BY <1>9 DEF Connect!LoadConsent, Connect!Kept, Connect!TypeOK
<1>10. ASSUME NEW t \in ConsentTabs, Connect!LoadFails(t) PROVE KeptOK'
  BY <1>10 DEF Connect!LoadFails, Connect!TypeOK
<1>11. ASSUME NEW t \in ConsentTabs, NEW w \in Memberships, Connect!Pick(t, w) PROVE KeptOK'
  BY <1>11 DEF Connect!Pick, Connect!TypeOK
<1>12. ASSUME NEW t \in ConsentTabs, NEW ws, Connect!Decide(t, ws) PROVE KeptOK'
  BY <1>12 DEF Connect!Decide, Connect!TypeOK
<1>13. ASSUME NEW t \in ConsentTabs, Connect!LeaveTab(t) PROVE KeptOK'
  BY <1>13 DEF Connect!LeaveTab, Connect!TypeOK
<1>14. ASSUME NEW t \in ConsentTabs, Connect!LookUp(t) PROVE KeptOK'
  BY <1>14 DEF Connect!LookUp, Connect!Kept, Connect!TypeOK
<1>15. ASSUME NEW t \in ConsentTabs, Connect!CheckMember(t) PROVE KeptOK'
  BY <1>15 DEF Connect!CheckMember, Connect!TypeOK
<1>16. ASSUME NEW t \in ConsentTabs, Connect!Mint(t) PROVE KeptOK'
  BY <1>16, KeptMint
<1>17. ASSUME NEW t \in ConsentTabs, Connect!Complete(t) PROVE KeptOK'
  <2>1. t \in Connect!Going
    BY <1>17 DEF Connect!Complete, Connect!Going, Connect!Idle
  <2>2. CASE call[t].request \in pending
    <3>1. redirects' \in [1 .. MaxRequests -> Nat]
      BY <1>17, <2>1, <2>2, KeptDecided DEF Connect!Complete
    <3>2. call[t].key \in Connect!KeyIds
      BY <1>17, <2>1 DEF Known, Connect!Complete
    <3> QED BY <1>17, <2>2, <3>1, <3>2 DEF Connect!Complete, Connect!TypeOK
  <2>3. CASE call[t].request \notin pending
    BY <1>17, <2>3 DEF Connect!Complete, Connect!TypeOK
  <2> QED BY <2>2, <2>3
<1>18. ASSUME NEW t \in ConsentTabs, Connect!ServeDeny(t) PROVE KeptOK'
  <2>1. t \in Connect!Going
    BY <1>18 DEF Connect!ServeDeny, Connect!Going, Connect!Idle
  <2>2. CASE call[t].request \in pending
    <3>1. redirects' \in [1 .. MaxRequests -> Nat]
      BY <1>18, <2>1, <2>2, KeptDecided DEF Connect!ServeDeny
    <3> QED BY <1>18, <2>2, <3>1 DEF Connect!ServeDeny, Connect!TypeOK
  <2>3. CASE call[t].request \notin pending
    BY <1>18, <2>3 DEF Connect!ServeDeny, Connect!TypeOK
  <2> QED BY <2>2, <2>3
<1>19. ASSUME NEW t \in ConsentTabs, Connect!Redirected(t) PROVE KeptOK'
  <2>1. t \in Connect!Going
    BY <1>19 DEF Connect!Redirected, Connect!Going, Connect!Idle
  <2>2. {call[t].key} \ {0} \subseteq Connect!KeyIds
    BY <2>1 DEF Known
  <2> QED BY <1>19, <2>2 DEF Connect!Redirected, Connect!TypeOK
<1>20. ASSUME NEW t \in ConsentTabs, Connect!Error(t) PROVE KeptOK'
  BY <1>20 DEF Connect!Error, Connect!TypeOK
<1> QED BY <1>1, <1>2, <1>3, <1>4, <1>5, <1>6, <1>7, <1>8, <1>9, <1>10, <1>11, <1>12, <1>13,
           <1>14, <1>15, <1>16, <1>17, <1>18, <1>19, <1>20 DEF Connect!Next, Connect!Approve, Connect!Deny

(* Going go on under way when one ages, the server restarts or a tab is    *)
(* left: they keep their request and key, and go nowhere but to a refusal. *)
Kind(u) ==
  /\ call'[u] # Connect!Idle
  /\ call'[u].request = call[u].request /\ call'[u].key = call[u].key
  /\ call'[u].alone => call[u].alone /\ call'[u].pc = call[u].pc
  /\ call'[u].pc \in {call[u].pc, "refused"}

LEMMA CallsKeep ==
  ASSUME Connect!TypeOK, (\E r \in Connect!Requests : Connect!Age(r)) \/ Connect!Restart \/ \E t \in ConsentTabs : Connect!LeaveTab(t)
  PROVE  TabsOK' /\ Connect!Going' = Connect!Going /\ \A u \in Connect!Going : Kind(u)
<1> SUFFICES /\ TabsOK'
             /\ \A u \in ConsentTabs : call'[u] # Connect!Idle <=> u \in Connect!Going
             /\ \A u \in Connect!Going : Kind(u)
  BY DEF Connect!Going
<1>1. ASSUME NEW r \in Connect!Requests, Connect!Age(r)
      PROVE  /\ TabsOK'
             /\ \A u \in ConsentTabs : call'[u] # Connect!Idle <=> u \in Connect!Going
             /\ \A u \in Connect!Going : Kind(u)
  <2>1. call' = Connect!Disturbed(r, ConsentTabs) /\ consent' = consent
    BY <1>1 DEF Connect!Age
  <2>2. /\ call' \in [ConsentTabs -> {Connect!Idle} \cup Connect!Call]
        /\ \A u \in ConsentTabs : call'[u] # Connect!Idle <=> u \in Connect!Going
        /\ \A u \in Connect!Going : call'[u].here = call[u].here
    BY <2>1, DisturbedCalls DEF Connect!Going
  <2>3. \A u \in Connect!Going : Kind(u)
    BY <2>1, DisturbedCalls DEF Connect!Going, Kind
  <2>4. TabsOK'
    BY <2>1, <2>2 DEF TabsOK, Connect!TypeOK, Connect!Going
  <2> QED BY <2>2, <2>3, <2>4
<1>2. CASE Connect!Restart
  <2>1. ASSUME NEW u \in Connect!Going
        PROVE  call'[u] \in Connect!Call /\ call'[u].here = call[u].here /\ Kind(u)
    <3>1. call[u] \in Connect!Call
      BY CallFields DEF Connect!Going
    <3>2. call'[u] = [call[u] EXCEPT !.pc = "refused", !.alone = FALSE]
      BY <1>2 DEF Connect!Restart, Connect!Going
    <3>3. call'[u] \in Connect!Call
      BY <3>1, <3>2 DEF Connect!Call
    <3>4. call'[u] # Connect!Idle
      BY <3>3 DEF Connect!Call, Connect!Idle
    <3> QED BY <3>1, <3>2, <3>3, <3>4 DEF Connect!Call, Kind
  <2>2. \A u \in ConsentTabs : u \notin Connect!Going => call'[u] = Connect!Idle
    BY <1>2 DEF Connect!Restart, Connect!Going
  <2>3. call' \in [ConsentTabs -> {Connect!Idle} \cup Connect!Call]
    <3>1. \A u \in ConsentTabs : call'[u] \in {Connect!Idle} \cup Connect!Call
      BY <2>1, <2>2
    <3>2. call' = [u \in ConsentTabs |-> call'[u]]
      BY <1>2 DEF Connect!Restart
    <3> QED BY <3>1, <3>2
  <2>4. \A u \in ConsentTabs : call'[u] # Connect!Idle <=> u \in Connect!Going
    BY <2>1, <2>2 DEF Kind
  <2>5. TabsOK'
    BY <1>2, <2>1, <2>3, <2>4 DEF Connect!Restart, TabsOK, Connect!TypeOK, Connect!Going
  <2> QED BY <2>1, <2>4, <2>5
<1>3. ASSUME NEW t \in ConsentTabs, Connect!LeaveTab(t)
      PROVE  /\ TabsOK'
             /\ \A u \in ConsentTabs : call'[u] # Connect!Idle <=> u \in Connect!Going
             /\ \A u \in Connect!Going : Kind(u)
  <2>1. \A u \in ConsentTabs : u # t => call'[u] = call[u] /\ consent'[u] = consent[u]
    BY <1>3 DEF Connect!LeaveTab, Connect!TypeOK
  <2>2. consent' \in [ConsentTabs -> {Connect!Closed} \cup Connect!Page] /\ consent'[t] = Connect!Closed
    BY <1>3 DEF Connect!LeaveTab, Connect!TypeOK
  <2>3. CASE t \in Connect!Going
    <3>1. call[t] \in Connect!Call /\ [call[t] EXCEPT !.here = FALSE] \in Connect!Call
      BY <2>3, CallFields DEF Connect!Going, Connect!Call
    <3>2. call' = [call EXCEPT ![t] = [call[t] EXCEPT !.here = FALSE]]
      BY <1>3, <2>3 DEF Connect!LeaveTab, Connect!Going
    <3>3. call' \in [ConsentTabs -> {Connect!Idle} \cup Connect!Call] /\ call'[t] = [call[t] EXCEPT !.here = FALSE]
      BY <3>1, <3>2 DEF Connect!TypeOK
    <3>4. call'[t] # Connect!Idle
      BY <3>1, <3>3 DEF Connect!Call, Connect!Idle
    <3>5. Kind(t)
      BY <3>1, <3>3, <3>4 DEF Kind, Connect!Call
    <3>6. \A u \in Connect!Going : u # t => Kind(u)
      BY <2>1 DEF Kind, Connect!Going
    <3>7. TabsOK'
      BY <2>1, <2>2, <3>3 DEF TabsOK, Connect!TypeOK
    <3> QED BY <2>1, <2>3, <3>4, <3>5, <3>6, <3>7 DEF Connect!Going
  <2>4. CASE t \notin Connect!Going
    <3>1. call' = call
      BY <1>3, <2>4 DEF Connect!LeaveTab, Connect!Going, Connect!TypeOK
    <3>2. \A u \in Connect!Going : Kind(u)
      BY <3>1 DEF Kind, Connect!Going
    <3>3. TabsOK'
      BY <2>1, <2>2, <3>1 DEF TabsOK, Connect!TypeOK
    <3> QED BY <3>1, <3>2, <3>3 DEF Connect!Going
  <2> QED BY <2>3, <2>4
<1> QED BY <1>1, <1>2, <1>3

(* A decision that has ended, with its redirect or with an error.          *)
LEMMA CallEnds ==
  ASSUME Connect!TypeOK, NEW t \in ConsentTabs, Connect!Redirected(t) \/ Connect!Error(t)
  PROVE  /\ TabsOK'
         /\ Connect!Going' = Connect!Going \ {t}
         /\ \A u \in ConsentTabs : u # t => call'[u] = call[u] /\ consent'[u] = consent[u]
         /\ consent'[t] # Connect!Closed => consent[t] # Connect!Closed /\ consent'[t].request = consent[t].request
<1>1. call' = [call EXCEPT ![t] = Connect!Idle] /\ t \in Connect!Going /\ call[t] \in Connect!Call
  BY CallFields DEF Connect!Redirected, Connect!Error, Connect!Going, Connect!Call, Connect!Idle
<1>2. call' \in [ConsentTabs -> {Connect!Idle} \cup Connect!Call] /\ call'[t] = Connect!Idle /\ \A u \in ConsentTabs : u # t => call'[u] = call[u]
  BY <1>1 DEF Connect!TypeOK
<1>3. /\ consent' \in [ConsentTabs -> {Connect!Closed} \cup Connect!Page]
      /\ \A u \in ConsentTabs : u # t => consent'[u] = consent[u]
      /\ consent'[t] # Connect!Closed => consent[t] # Connect!Closed /\ ~consent'[t].submitting /\ consent'[t].request = consent[t].request
  <2>1. CASE ~call[t].here /\ ~(Connect!Redirected(t) /\ consent' = [consent EXCEPT ![t] = Connect!Closed])
    <3>1. consent' = [consent EXCEPT ![t] = consent[t]]
      BY <2>1 DEF Connect!Redirected, Connect!Error, Connect!TypeOK
    <3> QED BY <2>1, <3>1 DEF Connect!TypeOK
  <2>2. CASE Connect!Redirected(t) /\ consent' = [consent EXCEPT ![t] = Connect!Closed]
    BY <2>2 DEF Connect!Redirected, Connect!TypeOK
  <2>3. CASE call[t].here /\ Connect!Error(t) /\ consent[t] = Connect!Closed
    <3>1. consent' = [consent EXCEPT ![t] = [consent[t] EXCEPT !.submitting = FALSE]]
      BY <2>3 DEF Connect!Error
    <3>2. [Connect!Closed EXCEPT !.submitting = FALSE] = Connect!Closed
      BY DEF Connect!Closed
    <3> QED BY <2>3, <3>1, <3>2 DEF Connect!TypeOK
  <2>4. CASE call[t].here /\ Connect!Error(t) /\ consent[t] # Connect!Closed
    <3>1. consent[t] \in Connect!Page
      BY <2>4, ConsentFields
    <3>2. [consent[t] EXCEPT !.submitting = FALSE] \in Connect!Page
      BY <3>1 DEF Connect!Page
    <3>3. consent' = [consent EXCEPT ![t] = [consent[t] EXCEPT !.submitting = FALSE]]
      BY <2>4 DEF Connect!Error
    <3> QED BY <2>4, <3>1, <3>2, <3>3 DEF Connect!TypeOK, Connect!Page
  <2>5. call[t].here /\ Connect!Redirected(t) => consent' = [consent EXCEPT ![t] = Connect!Closed]
    BY DEF Connect!Redirected
  <2> QED BY <2>1, <2>2, <2>3, <2>4, <2>5
<1>4. \A u \in ConsentTabs : consent'[u] # Connect!Closed /\ consent'[u].submitting => call'[u] # Connect!Idle /\ call'[u].here
  BY <1>2, <1>3 DEF Connect!TypeOK
<1> QED BY <1>1, <1>2, <1>3, <1>4 DEF TabsOK, Connect!Going

(* A decision that is sent disturbs those on the same request.             *)
LEMMA CallStarts ==
  ASSUME Connect!TypeOK, Known, NEW t \in ConsentTabs, NEW ws, ws \in Connect!Maybe(Memberships), Connect!Decide(t, ws)
  PROVE  /\ TabsOK'
         /\ consent[t] # Connect!Closed /\ consent'[t] # Connect!Closed /\ consent'[t].request = consent[t].request
         /\ \A u \in ConsentTabs : u # t => consent'[u] = consent[u]
         /\ t \notin Connect!Going /\ Connect!Going' = Connect!Going \cup {t}
         /\ call'[t].pc = "pending" /\ call'[t].request = consent[t].request /\ call'[t].key = 0
         /\ call'[t].alone => \A u \in Connect!Going : call[u].request # consent[t].request
         /\ \A u \in Connect!Going :
              /\ call'[u].pc = call[u].pc /\ call'[u].request = call[u].request
              /\ call'[u].key = call[u].key
              /\ call'[u].alone => call[u].alone /\ call[u].request # consent[t].request
<1> DEFINE r == consent[t].request
           D == Connect!Disturbed(r, ConsentTabs)
           new == [pc |-> "pending", request |-> r, ws |-> ws, key |-> 0, here |-> TRUE,
                   alone |-> \A u \in Connect!Going : call[u].request # r]
<1>1. consent[t] \in Connect!Page /\ consent[t] # Connect!Closed /\ call[t] = Connect!Idle
  BY ConsentFields DEF Connect!Decide
<1>2. new \in Connect!Call
  <2>1. r \in 1 .. MaxRequests
    BY <1>1 DEF Connect!Page
  <2>2. 0 \in 0 .. MaxKeys
    BY Limits
  <2> QED BY <2>1, <2>2 DEF Connect!Call
<1>3. /\ D \in [ConsentTabs -> {Connect!Idle} \cup Connect!Call]
      /\ \A u \in ConsentTabs : D[u] # Connect!Idle <=> u \in Connect!Going
      /\ \A u \in Connect!Going :
              /\ D[u].pc = call[u].pc /\ D[u].request = call[u].request
              /\ D[u].key = call[u].key /\ D[u].here = call[u].here
              /\ D[u].alone => call[u].alone /\ call[u].request # r
  BY DisturbedCalls DEF Connect!Going
<1>4. call' = [D EXCEPT ![t] = new]
  BY DEF Connect!Decide
<1> HIDE DEF new, D
<1>5. /\ call' \in [ConsentTabs -> {Connect!Idle} \cup Connect!Call] /\ call'[t] = new
      /\ \A u \in ConsentTabs : u # t => call'[u] = D[u]
  BY <1>2, <1>3, <1>4
<1>6. [consent[t] EXCEPT !.submitting = TRUE] \in Connect!Page
  BY <1>1 DEF Connect!Page
<1>7. /\ consent' \in [ConsentTabs -> {Connect!Closed} \cup Connect!Page] /\ consent'[t] = [consent[t] EXCEPT !.submitting = TRUE]
      /\ \A u \in ConsentTabs : u # t => consent'[u] = consent[u]
  BY <1>6 DEF Connect!Decide, Connect!TypeOK
<1>8. consent'[t] # Connect!Closed /\ consent'[t].request = consent[t].request
  BY <1>1, <1>6, <1>7 DEF Connect!Page, Connect!Closed
<1>9. new # Connect!Idle /\ t \notin Connect!Going /\ new.here
  BY <1>1, <1>2 DEF new, Connect!Call, Connect!Idle, Connect!Going
<1>10. Connect!Going' = Connect!Going \cup {t}
  BY <1>3, <1>5, <1>9 DEF Connect!Going
<1>11. \A u \in ConsentTabs : consent'[u] # Connect!Closed /\ consent'[u].submitting => call'[u] # Connect!Idle /\ call'[u].here
  BY <1>3, <1>5, <1>7, <1>9 DEF Connect!TypeOK, Connect!Going
<1>12. new.pc = "pending" /\ new.request = r /\ new.key = 0 /\ (new.alone => \A u \in Connect!Going : call[u].request # r)
  BY DEF new
<1> QED BY <1>1, <1>3, <1>5, <1>7, <1>8, <1>9, <1>10, <1>11, <1>12 DEF TabsOK, Connect!Going

(* Mint gives a call the last key, a new one.                              *)
LEMMA Minted ==
  ASSUME Connect!TypeOK, Known, NEW t \in ConsentTabs, Connect!Mint(t)
  PROVE  /\ TabsOK'
         /\ t \in Connect!Going /\ Connect!Going' = Connect!Going
         /\ call'[t].pc = "complete" /\ call'[t].request = call[t].request
         /\ call'[t].alone = call[t].alone
         /\ call'[t].key = Len(keys) + 1 /\ Len(keys) \in Nat
         /\ \A u \in ConsentTabs : u # t => call'[u] = call[u]
         /\ Connect!KeyIds' = Connect!KeyIds \cup {Len(keys) + 1}
         /\ keys'[Len(keys) + 1].request = call[t].request
         /\ \A k \in Connect!KeyIds : keys'[k] = keys[k]
<1>1. call[t] \in Connect!Call /\ t \in Connect!Going
  BY CallFields DEF Connect!Mint, Connect!Going, Connect!Call, Connect!Idle
<1>2. Len(keys) \in Nat /\ Len(keys) + 1 \in 0 .. MaxKeys
  BY Limits DEF Connect!TypeOK, Connect!Mint
<1> DEFINE new == [call[t] EXCEPT !.pc = "complete", !.key = Len(keys) + 1]
<1>3. new \in Connect!Call
  BY <1>1, <1>2 DEF Connect!Call
<1>4. call' = [call EXCEPT ![t] = new]
  BY DEF Connect!Mint
<1>5. new.pc = "complete" /\ new.request = call[t].request /\ new.alone = call[t].alone
      /\ new.key = Len(keys) + 1 /\ new.here = call[t].here
  BY <1>1 DEF Connect!Call
<1> HIDE DEF new
<1>6. call' \in [ConsentTabs -> {Connect!Idle} \cup Connect!Call] /\ call'[t] = new /\ \A u \in ConsentTabs : u # t => call'[u] = call[u]
  BY <1>3, <1>4 DEF Connect!TypeOK
<1>7. Connect!Going' = Connect!Going
  BY <1>1, <1>3, <1>6 DEF Connect!Going, Connect!Call, Connect!Idle
<1>8. TabsOK'
  <2>1. new # Connect!Idle
    BY <1>3 DEF Connect!Call, Connect!Idle
  <2> QED BY <1>5, <1>6, <2>1 DEF TabsOK, Connect!TypeOK, Connect!Mint
<1>9. PICK w \in call[t].ws : keys' = Append(keys, [ws |-> w, request |-> call[t].request])
  BY DEF Connect!Mint
<1>10. keys \in Seq(KeyRows)
  BY DEF Connect!TypeOK, KeyRows
<1>11. /\ Connect!KeyIds' = Connect!KeyIds \cup {Len(keys) + 1}
       /\ keys'[Len(keys) + 1] = [ws |-> w, request |-> call[t].request]
       /\ \A k \in Connect!KeyIds : keys'[k] = keys[k]
  BY <1>9, <1>10 DEF Connect!KeyIds
<1> QED BY <1>1, <1>2, <1>5, <1>6, <1>7, <1>8, <1>11

(* Approve sends the workspace that is selected.                           *)
LEMMA ApproveDecides ==
  ASSUME Connect!TypeOK, NEW t \in ConsentTabs, Connect!Approve(t) \/ Connect!Deny(t)
  PROVE  \E ws \in Connect!Maybe(Memberships) : Connect!Decide(t, ws)
<1>1. CASE Connect!Approve(t)
  <2>1. consent[t] \in Connect!Page
    BY <1>1, ConsentFields DEF Connect!Approve
  <2>2. Connect!Selected(t) \in Connect!Maybe(Memberships)
    BY <2>1 DEF Connect!Page, Connect!Selected
  <2> QED BY <1>1, <2>2 DEF Connect!Approve
<1>2. CASE Connect!Deny(t)
  BY <1>2 DEF Connect!Deny, Connect!Maybe
<1> QED BY <1>1, <1>2

LEMMA CallGoes ==
  ASSUME Connect!TypeOK, NEW t \in ConsentTabs, Connect!LookUp(t) \/ Connect!CheckMember(t) \/ Connect!Complete(t) \/ Connect!ServeDeny(t)
  PROVE  /\ t \in Connect!Going /\ consent' = consent /\ keys' = keys /\ authorized' = authorized
         /\ \E pc \in {"member", "mint", "redirect", "refused"} : Connect!Goto(t, pc)
BY DEF Connect!LookUp, Connect!CheckMember, Connect!Complete, Connect!ServeDeny, Connect!Decided, Connect!Going, Connect!Idle, Connect!client, Connect!history, Connect!memory

LEMMA LoadChanges ==
  ASSUME Connect!TypeOK, NEW t \in ConsentTabs, Connect!LoadConsent(t) \/ Connect!LoadFails(t) \/ \E w \in Memberships : Connect!Pick(t, w)
  PROVE  /\ call' = call /\ keys' = keys /\ authorized' = authorized /\ redirects' = redirects
         /\ \E p \in Connect!Page :
              /\ consent' = [consent EXCEPT ![t] = p]
              /\ consent[t] # Connect!Closed /\ p.request = consent[t].request /\ p.submitting = consent[t].submitting
<1>1. consent[t] \in Connect!Page /\ consent[t] # Connect!Closed
  BY ConsentFields DEF Connect!LoadConsent, Connect!LoadFails, Connect!Pick
<1>2. ASSUME NEW pg \in {"loading", "consent", "expired"}
      PROVE  [consent[t] EXCEPT !.page = pg] \in Connect!Page
  BY <1>1 DEF Connect!Page
<1>3. ASSUME NEW f \in Connect!Maybe(workspaces)
      PROVE  [consent[t] EXCEPT !.page = "consent", !.list = workspaces, !.first = f] \in Connect!Page
  BY <1>1 DEF Connect!Page, Connect!Maybe, Connect!TypeOK
<1>4. ASSUME NEW w \in Memberships
      PROVE  [consent[t] EXCEPT !.chosen = {w}] \in Connect!Page
  BY <1>1 DEF Connect!Page, Connect!Maybe
<1>5. CASE Connect!LoadConsent(t)
  <2>1. CASE consent[t].request \notin Connect!Kept
    BY <1>1, <1>2, <1>5, <2>1 DEF Connect!LoadConsent, Connect!client, Connect!history, Connect!Page
  <2>2. CASE consent[t].request \in Connect!Kept
    <3>1. PICK f \in Connect!Maybe(workspaces) :
            consent' = [consent EXCEPT ![t] = [consent[t] EXCEPT !.page = "consent", !.list = workspaces, !.first = f]]
      BY <1>5, <2>2 DEF Connect!LoadConsent
    <3> QED BY <1>1, <1>3, <1>5, <3>1 DEF Connect!LoadConsent, Connect!client, Connect!history, Connect!Page
  <2> QED BY <2>1, <2>2
<1>6. CASE Connect!LoadFails(t)
  BY <1>1, <1>2, <1>6 DEF Connect!LoadFails, Connect!client, Connect!history, Connect!Page
<1>7. ASSUME NEW w \in Memberships, Connect!Pick(t, w)
      PROVE  /\ call' = call /\ keys' = keys /\ authorized' = authorized /\ redirects' = redirects
             /\ \E p \in Connect!Page :
                  /\ consent' = [consent EXCEPT ![t] = p]
                  /\ consent[t] # Connect!Closed /\ p.request = consent[t].request /\ p.submitting = consent[t].submitting
  BY <1>1, <1>4, <1>7 DEF Connect!Pick, Connect!client, Connect!history, Connect!Page
<1> QED BY <1>5, <1>6, <1>7

LEMMA Opened ==
  ASSUME Connect!TypeOK, NEW t \in ConsentTabs, NEW r \in Connect!Requests, Connect!OpenConsent(t, r)
  PROVE  /\ call' = call /\ keys' = keys /\ authorized' = authorized /\ consent[t] = Connect!Closed
         /\ \E p \in Connect!Page : consent' = [consent EXCEPT ![t] = p] /\ p.request = r /\ ~p.submitting
<1> DEFINE p == [page |-> "loading", request |-> r, list |-> {}, first |-> {},
                 chosen |-> {}, submitting |-> FALSE]
<1>1. r \in 1 .. MaxRequests
  BY Limits DEF Connect!TypeOK, Connect!Requests
<1>2. p \in Connect!Page
  BY <1>1 DEF Connect!Page, Connect!Maybe
<1> QED BY <1>2 DEF Connect!OpenConsent, Connect!client, Connect!history

LEMMA TabsStep ==
  ASSUME Connect!TypeOK, Known, Connect!Next
  PROVE  TabsOK'
<1>1. ASSUME call' = call, consent' = consent PROVE TabsOK'
  BY <1>1 DEF Connect!TypeOK, TabsOK
<1>2. CASE (\E c \in Clients : Connect!Register(c)) \/ (\E c \in Clients : Connect!Authorize(c))
           \/ (\E c \in Clients, k \in Connect!KeyIds : Connect!Exchange(c, k)) \/ (\E k \in codes : Connect!CodeExpires(k))
           \/ (\E w \in Memberships : Connect!MembershipChanges(w))
  BY <1>1, <1>2 DEF Connect!Register, Connect!Authorize, Connect!Exchange, Connect!CodeExpires, Connect!MembershipChanges
<1>3. CASE (\E r \in Connect!Requests : Connect!Age(r)) \/ Connect!Restart \/ (\E t \in ConsentTabs : Connect!LeaveTab(t))
  BY <1>3, CallsKeep
<1>4. ASSUME NEW t \in ConsentTabs, NEW r \in Connect!Requests, Connect!OpenConsent(t, r) PROVE TabsOK'
  BY <1>4, Opened, TabChanges
<1>5. ASSUME NEW t \in ConsentTabs, Connect!LoadConsent(t) \/ Connect!LoadFails(t) \/ \E w \in Memberships : Connect!Pick(t, w)
      PROVE  TabsOK'
  <2>1. PICK p \in Connect!Page :
          /\ consent' = [consent EXCEPT ![t] = p]
          /\ consent[t] # Connect!Closed /\ p.request = consent[t].request /\ p.submitting = consent[t].submitting
    BY <1>5, LoadChanges
  <2> QED BY <1>5, <2>1, LoadChanges, TabChanges
<1>6. ASSUME NEW t \in ConsentTabs, Connect!Approve(t) \/ Connect!Deny(t) PROVE TabsOK'
  BY <1>6, ApproveDecides, CallStarts
<1>7. ASSUME NEW t \in ConsentTabs, Connect!LookUp(t) \/ Connect!CheckMember(t) \/ Connect!Complete(t) \/ Connect!ServeDeny(t) PROVE TabsOK'
  BY <1>7, CallGoes, TabsGo DEF Connect!Going
<1>8. ASSUME NEW t \in ConsentTabs, Connect!Mint(t) PROVE TabsOK'
  BY <1>8, Minted
<1>9. ASSUME NEW t \in ConsentTabs, Connect!Redirected(t) \/ Connect!Error(t) PROVE TabsOK'
  BY <1>9, CallEnds
<1> QED BY <1>2, <1>3, <1>4, <1>5, <1>6, <1>7, <1>8, <1>9 DEF Connect!Next

LEMMA ConnectTypeStep == ASSUME Connect!TypeOK, Known, Connect!Next PROVE Connect!TypeOK'
<1>1. TabsOK' /\ KeptOK'
  BY TabsStep, KeptStep
<1>2. (Connect!TypeOK <=> TabsOK /\ KeptOK)'
  BY TypeParts, PTL
<1> QED BY <1>1, <1>2

-----------------------------------------------------------------------------
(* Known.                                                                  *)

LEMMA KnownStep == ASSUME Connect!TypeOK, Known, Connect!Next PROVE Known'
<1>1. ASSUME call' = call, keys' = keys, Connect!Requests \subseteq Connect!Requests',
             \A t \in ConsentTabs : consent'[t] # Connect!Closed => consent'[t].request \in Connect!Requests
      PROVE  Known'
  BY <1>1 DEF Known, Connect!Going, Connect!KeyIds
<1>2. CASE (\E c \in Clients : Connect!Register(c)) \/ (\E c \in Clients, k \in Connect!KeyIds : Connect!Exchange(c, k))
           \/ (\E k \in codes : Connect!CodeExpires(k)) \/ (\E w \in Memberships : Connect!MembershipChanges(w))
  <2>1. call' = call /\ keys' = keys /\ consent' = consent /\ authorized' = authorized
    BY <1>2 DEF Connect!Register, Connect!Exchange, Connect!CodeExpires, Connect!MembershipChanges, Connect!client, Connect!history, Connect!memory
  <2> QED BY <1>1, <2>1 DEF Known, Connect!Requests
<1>3. ASSUME NEW c \in Clients, Connect!Authorize(c) PROVE Known'
  <2>1. Connect!Requests \subseteq Connect!Requests'
    BY <1>3 DEF Connect!Authorize, Connect!TypeOK, Connect!Requests
  <2> QED BY <1>1, <1>3, <2>1 DEF Connect!Authorize, Known
<1>4. CASE (\E r \in Connect!Requests : Connect!Age(r)) \/ Connect!Restart \/ (\E t \in ConsentTabs : Connect!LeaveTab(t))
  <2>1. keys' = keys /\ authorized' = authorized
    BY <1>4 DEF Connect!Age, Connect!Restart, Connect!LeaveTab, Connect!history
  <2>2. \A t \in ConsentTabs : consent'[t] # Connect!Closed => consent'[t] = consent[t]
    BY <1>4 DEF Connect!Age, Connect!Restart, Connect!LeaveTab, Connect!TypeOK
  <2>3. Connect!Going' = Connect!Going /\ \A u \in Connect!Going : Kind(u)
    BY <1>4, CallsKeep
  <2>4. \A u \in Connect!Going : call'[u].pc = "complete" => call[u].pc = "complete"
    BY <2>3 DEF Kind
  <2> QED BY <2>1, <2>2, <2>3, <2>4 DEF Known, Connect!Requests, Connect!KeyIds, Kind
<1>5. ASSUME NEW t \in ConsentTabs, NEW r \in Connect!Requests, Connect!OpenConsent(t, r) PROVE Known'
  <2>1. /\ call' = call /\ keys' = keys /\ authorized' = authorized
        /\ \E p \in Connect!Page : consent' = [consent EXCEPT ![t] = p] /\ p.request = r
    BY <1>5, Opened
  <2>2. \A u \in ConsentTabs : consent'[u] # Connect!Closed => consent'[u].request \in Connect!Requests
    BY <2>1 DEF Connect!TypeOK, Known
  <2> QED BY <1>1, <2>1, <2>2 DEF Connect!Requests
<1>6. ASSUME NEW t \in ConsentTabs, Connect!LoadConsent(t) \/ Connect!LoadFails(t) \/ \E w \in Memberships : Connect!Pick(t, w)
      PROVE  Known'
  <2>1. /\ call' = call /\ keys' = keys /\ authorized' = authorized
        /\ \E p \in Connect!Page : consent' = [consent EXCEPT ![t] = p] /\ consent[t] # Connect!Closed /\ p.request = consent[t].request
    BY <1>6, LoadChanges
  <2>2. \A u \in ConsentTabs : consent'[u] # Connect!Closed => consent'[u].request \in Connect!Requests
    BY <2>1 DEF Connect!TypeOK, Known
  <2> QED BY <1>1, <2>1, <2>2 DEF Connect!Requests
<1>7. ASSUME NEW t \in ConsentTabs, Connect!Approve(t) \/ Connect!Deny(t) PROVE Known'
  <2>1. PICK ws \in Connect!Maybe(Memberships) : Connect!Decide(t, ws)
    BY <1>7, ApproveDecides
  <2>2. keys' = keys /\ authorized' = authorized
    BY <2>1 DEF Connect!Decide, Connect!history
  <2> QED BY <2>1, <2>2, CallStarts DEF Known, Connect!Requests, Connect!KeyIds
<1>8. ASSUME NEW t \in ConsentTabs, Connect!LookUp(t) \/ Connect!CheckMember(t) \/ Connect!Complete(t) \/ Connect!ServeDeny(t) PROVE Known'
  <2>1. PICK pc \in {"member", "mint", "redirect", "refused"} : Connect!Goto(t, pc)
    BY <1>8, CallGoes
  <2>2. t \in Connect!Going /\ consent' = consent /\ keys' = keys /\ authorized' = authorized
    BY <1>8, CallGoes
  <2>3. /\ Connect!Going' = Connect!Going /\ \A u \in Connect!Going : call'[u].request = call[u].request /\ call'[u].key = call[u].key
        /\ call'[t].pc = pc /\ \A u \in ConsentTabs : u # t => call'[u] = call[u]
    BY <2>1, <2>2, GotoCalls DEF Connect!Going
  <2>4. ASSUME NEW u \in Connect!Going'
        PROVE  /\ call'[u].request \in Connect!Requests
               /\ call'[u].key # 0 => call'[u].key \in Connect!KeyIds /\ keys[call'[u].key].request = call'[u].request
               /\ call'[u].pc = "complete" => call'[u].key # 0
    <3>1. u \in Connect!Going
      BY <2>3
    <3>2. call'[u].pc = "complete" => call[u].pc = "complete"
      BY <2>3, <3>1 DEF Connect!Going
    <3> QED BY <2>3, <3>1, <3>2 DEF Known
  <2> QED BY <2>2, <2>4 DEF Known, Connect!Requests, Connect!KeyIds
<1>9. ASSUME NEW t \in ConsentTabs, Connect!Mint(t) PROVE Known'
  <2>1. consent' = consent /\ authorized' = authorized
    BY <1>9 DEF Connect!Mint, Connect!history
  <2>2. ASSUME NEW u \in Connect!Going'
        PROVE  /\ call'[u].request \in Connect!Requests
               /\ call'[u].key # 0 => call'[u].key \in Connect!KeyIds' /\ keys'[call'[u].key].request = call'[u].request
               /\ call'[u].pc = "complete" => call'[u].key # 0
    <3>1. CASE u = t
      BY <1>9, <3>1, Minted DEF Known
    <3>2. CASE u # t
      <4>1. u \in Connect!Going /\ call'[u] = call[u]
        BY <1>9, <3>2, Minted DEF Connect!Going
      <4>2. \A k \in Connect!KeyIds : k \in Connect!KeyIds' /\ keys'[k] = keys[k]
        BY <1>9, Minted
      <4> QED BY <4>1, <4>2 DEF Known
    <3> QED BY <3>1, <3>2
  <2> QED BY <2>1, <2>2 DEF Known, Connect!Requests
<1>10. ASSUME NEW t \in ConsentTabs, Connect!Redirected(t) \/ Connect!Error(t) PROVE Known'
  <2>1. keys' = keys /\ authorized' = authorized
    BY <1>10 DEF Connect!Redirected, Connect!Error, Connect!history
  <2> QED BY <1>10, <2>1, CallEnds DEF Known, Connect!Requests, Connect!KeyIds, Connect!Going
<1> QED BY <1>2, <1>3, <1>4, <1>5, <1>6, <1>7, <1>8, <1>9, <1>10 DEF Connect!Next

-----------------------------------------------------------------------------
(* Redirects.                                                              *)

(* A decision takes its request out of the pending ones.                   *)
LEMMA Decides ==
  ASSUME Connect!TypeOK, Known, NEW t \in ConsentTabs, Connect!Complete(t) \/ Connect!ServeDeny(t), call[t].request \in pending
  PROVE  /\ Connect!Decided(t) /\ pending' = pending \ {call[t].request}
         /\ offered' = offered /\ holds' = holds /\ aged' = aged
         /\ codes' \in {codes, codes \cup ({call[t].key} \ {0})}
<1>1. t \in Connect!Going
  BY DEF Connect!Complete, Connect!ServeDeny, Connect!Going, Connect!Idle
<1> QED BY <1>1 DEF Connect!Complete, Connect!ServeDeny, Known, Connect!client

LEMMA NotDecides ==
  ASSUME NEW t \in ConsentTabs, Connect!Complete(t) \/ Connect!ServeDeny(t), call[t].request \notin pending
  PROVE  /\ Connect!Goto(t, "refused") /\ pending' = pending /\ codes' = codes /\ redirects' = redirects
         /\ offered' = offered /\ holds' = holds /\ aged' = aged
BY DEF Connect!Complete, Connect!ServeDeny, Connect!client

LEMMA RedirectsStep == ASSUME Connect!TypeOK, Known, Redirects, Connect!Next PROVE Redirects'
<1>1. ASSUME redirects' = redirects, pending' \subseteq pending, authorized' = authorized PROVE Redirects'
  BY <1>1 DEF Redirects, Connect!Requests
<1>2. ASSUME NEW c \in Clients, Connect!Authorize(c) PROVE Redirects'
  <2>1. /\ redirects' = redirects /\ pending' \subseteq pending \cup {Len(authorized) + 1}
        /\ Connect!Requests' = Connect!Requests \cup {Len(authorized) + 1} /\ Len(authorized) + 1 \notin Connect!Requests
    BY <1>2 DEF Connect!Authorize, Connect!Kept, Connect!Requests, Connect!TypeOK
  <2> QED BY <2>1 DEF Redirects
<1>3. ASSUME NEW t \in ConsentTabs, Connect!Complete(t) \/ Connect!ServeDeny(t) PROVE Redirects'
  <2>1. authorized' = authorized /\ t \in Connect!Going
    BY <1>3 DEF Connect!Complete, Connect!ServeDeny, Connect!Going, Connect!Idle
  <2>2. CASE call[t].request \in pending
    <3>1. redirects' = [redirects EXCEPT ![call[t].request] = redirects[call[t].request] + 1]
      BY <1>3, <2>2, Decides DEF Connect!Decided
    <3>2. call[t].request \in Connect!Requests /\ call[t].request \in 1 .. MaxRequests
      BY <2>1, CallFields DEF Known, Connect!Going, Connect!Call
    <3>3. redirects[call[t].request] = 0
      BY <2>2, <3>2 DEF Redirects
    <3> QED BY <1>3, <2>1, <2>2, <3>1, <3>2, <3>3, Decides DEF Redirects, Connect!Requests, Connect!TypeOK
  <2>3. CASE call[t].request \notin pending
    BY <1>1, <1>3, <2>1, <2>3, NotDecides
  <2> QED BY <2>2, <2>3
<1>4. ASSUME NEW t \in ConsentTabs,
             \/ \E r \in Connect!Requests : Connect!OpenConsent(t, r)
             \/ Connect!LoadConsent(t) \/ Connect!LoadFails(t) \/ \E w \in Memberships : Connect!Pick(t, w)
             \/ Connect!Approve(t) \/ Connect!Deny(t) \/ Connect!LeaveTab(t)
      PROVE  Redirects'
  BY <1>1, <1>4 DEF Connect!OpenConsent, Connect!LoadConsent, Connect!LoadFails, Connect!Pick, Connect!Approve,
                    Connect!Deny, Connect!Decide, Connect!LeaveTab, Connect!Kept, Connect!memory, Connect!client, Connect!history
<1>5. ASSUME NEW t \in ConsentTabs,
             \/ Connect!LookUp(t) \/ Connect!CheckMember(t) \/ Connect!Mint(t)
             \/ Connect!Redirected(t) \/ Connect!Error(t)
      PROVE  Redirects'
  BY <1>1, <1>5 DEF Connect!LookUp, Connect!CheckMember, Connect!Mint, Connect!Redirected, Connect!Error,
                    Connect!Kept, Connect!memory, Connect!client, Connect!history
<1>6. CASE (\E c \in Clients : Connect!Register(c)) \/ (\E c \in Clients, k \in Connect!KeyIds : Connect!Exchange(c, k))
           \/ (\E k \in codes : Connect!CodeExpires(k)) \/ (\E w \in Memberships : Connect!MembershipChanges(w))
           \/ (\E r \in Connect!Requests : Connect!Age(r)) \/ Connect!Restart
  BY <1>1, <1>6 DEF Connect!Register, Connect!Exchange, Connect!CodeExpires, Connect!MembershipChanges,
                    Connect!Age, Connect!Restart, Connect!memory, Connect!client, Connect!history
<1> QED BY <1>2, <1>3, <1>4, <1>5, <1>6 DEF Connect!Next

-----------------------------------------------------------------------------
(* IssuedOnce.                                                             *)

(* As long as no more keys are issued, and no request of theirs is pending *)
(* again, it holds on.                                                     *)
LEMMA IssuedFewer ==
  ASSUME Connect!TypeOK, IssuedOnce, Issued' \subseteq Issued, Issued \subseteq Connect!KeyIds,
         \A k \in Connect!KeyIds : keys'[k] = keys[k],
         \A k \in Connect!KeyIds : keys[k].request \in pending' => keys[k].request \in pending
  PROVE  IssuedOnce'
BY DEF IssuedOnce

LEMMA IssuedKeys == Connect!TypeOK => Issued \subseteq Connect!KeyIds
BY DEF Connect!TypeOK, Issued, Connect!KeyIds

LEMMA IssuedStep == ASSUME Connect!TypeOK, Known, IssuedOnce, Connect!Next PROVE IssuedOnce'
<1>1. Issued \subseteq Connect!KeyIds
  BY IssuedKeys
<1>2. ASSUME keys' = keys, pending' \subseteq pending, codes' \subseteq codes, offered' \subseteq offered,
             holds' \subseteq holds \cup codes,
             \A t \in Connect!Going' : call'[t].pc = "redirect" =>
               t \in Connect!Going /\ call[t].pc = "redirect" /\ call'[t].key = call[t].key
      PROVE  IssuedOnce'
  <2>1. Issued' \subseteq Issued
    BY <1>2 DEF Issued, Connect!KeyIds
  <2> QED BY <1>1, <1>2, <2>1, IssuedFewer
<1>3. CASE (\E c \in Clients : Connect!Register(c)) \/ (\E c \in Clients, k \in Connect!KeyIds : Connect!Exchange(c, k))
           \/ (\E k \in codes : Connect!CodeExpires(k)) \/ (\E w \in Memberships : Connect!MembershipChanges(w))
  <2>1. keys' = keys /\ pending' = pending /\ call' = call /\ codes' \subseteq codes /\ offered' = offered
    BY <1>3 DEF Connect!Register, Connect!Exchange, Connect!CodeExpires, Connect!MembershipChanges, Connect!client, Connect!memory
  <2>2. holds' \subseteq holds \cup codes
    BY <1>3 DEF Connect!Register, Connect!Exchange, Connect!CodeExpires, Connect!MembershipChanges, Connect!client
  <2> QED BY <1>2, <2>1, <2>2 DEF Connect!Going
<1>4. ASSUME NEW c \in Clients, Connect!Authorize(c) PROVE IssuedOnce'
  <2>1. \A k \in Connect!KeyIds : keys[k].request \in Connect!Requests
    <3>1. \A k \in Connect!KeyIds : keys[k] \in KeyRows
      BY ElementOfSeq, LenProperties DEF Connect!TypeOK, Connect!KeyIds, KeyRows
    <3> QED BY <3>1 DEF KeyRows
  <2>2. pending' \subseteq pending \cup {Len(authorized) + 1} /\ Len(authorized) + 1 \notin Connect!Requests
    BY <1>4 DEF Connect!Authorize, Connect!Kept, Connect!Requests, Connect!TypeOK
  <2>3. keys' = keys /\ Issued' = Issued
    BY <1>4 DEF Connect!Authorize, Issued, Connect!client, Connect!Going, Connect!KeyIds
  <2> QED BY <1>1, <2>1, <2>2, <2>3, IssuedFewer
<1>5. CASE (\E r \in Connect!Requests : Connect!Age(r)) \/ Connect!Restart \/ (\E t \in ConsentTabs : Connect!LeaveTab(t))
  <2>1. keys' = keys /\ pending' \subseteq pending /\ codes' \subseteq codes /\ offered' = offered /\ holds' = holds
    BY <1>5 DEF Connect!Age, Connect!Restart, Connect!LeaveTab, Connect!client, Connect!memory
  <2>2. \A t \in Connect!Going' : call'[t].pc = "redirect" =>
               t \in Connect!Going /\ call[t].pc = "redirect" /\ call'[t].key = call[t].key
    BY <1>5, CallsKeep DEF Kind
  <2> QED BY <1>2, <2>1, <2>2
<1>6. CASE \E t \in ConsentTabs : \/ \E r \in Connect!Requests : Connect!OpenConsent(t, r)
                           \/ Connect!LoadConsent(t) \/ Connect!LoadFails(t) \/ \E w \in Memberships : Connect!Pick(t, w)
  <2>1. keys' = keys /\ pending' \subseteq pending /\ codes' = codes /\ offered' = offered /\ holds' = holds
        /\ call' = call
    BY <1>6 DEF Connect!OpenConsent, Connect!LoadConsent, Connect!LoadFails, Connect!Pick, Connect!Kept, Connect!client, Connect!memory
  <2> QED BY <1>2, <2>1 DEF Connect!Going
<1>7. ASSUME NEW t \in ConsentTabs, Connect!Approve(t) \/ Connect!Deny(t) PROVE IssuedOnce'
  <2>1. PICK ws \in Connect!Maybe(Memberships) : Connect!Decide(t, ws)
    BY <1>7, ApproveDecides
  <2>2. keys' = keys /\ pending' = pending /\ codes' = codes /\ offered' = offered /\ holds' = holds
    BY <2>1 DEF Connect!Decide, Connect!client, Connect!memory
  <2>3. \A u \in Connect!Going' : call'[u].pc = "redirect" =>
               u \in Connect!Going /\ call[u].pc = "redirect" /\ call'[u].key = call[u].key
    BY <2>1, CallStarts
  <2> QED BY <1>2, <2>2, <2>3
<1>8. ASSUME NEW t \in ConsentTabs, Connect!LookUp(t) \/ Connect!CheckMember(t) PROVE IssuedOnce'
  <2>1. keys' = keys /\ pending' \subseteq pending /\ codes' = codes /\ offered' = offered /\ holds' = holds
    BY <1>8 DEF Connect!LookUp, Connect!CheckMember, Connect!Kept, Connect!client, Connect!memory
  <2>2. \E pc \in {"member", "mint", "refused"} : Connect!Goto(t, pc)
    BY <1>8 DEF Connect!LookUp, Connect!CheckMember
  <2>3. call[t] # Connect!Idle
    BY <1>8 DEF Connect!LookUp, Connect!CheckMember, Connect!Idle
  <2>4. \A u \in Connect!Going' : call'[u].pc = "redirect" =>
               u \in Connect!Going /\ call[u].pc = "redirect" /\ call'[u].key = call[u].key
    BY <2>2, <2>3, GotoCalls DEF Connect!Going
  <2> QED BY <1>2, <2>1, <2>4
<1>9. ASSUME NEW t \in ConsentTabs, Connect!Mint(t) PROVE IssuedOnce'
  <2>1. pending' = pending /\ codes' = codes /\ offered' = offered /\ holds' = holds
    BY <1>9 DEF Connect!Mint, Connect!client, Connect!memory
  <2>2. Issued' \subseteq Issued
    <3>1. ASSUME NEW u \in Connect!Going', call'[u].pc = "redirect"
          PROVE  u \in Connect!Going /\ call'[u] = call[u] /\ (call[u].key # 0 => call[u].key \in Connect!KeyIds)
      BY <1>9, <3>1, Minted DEF Known, Connect!Going
    <3>2. Connect!KeyIds' = Connect!KeyIds \cup {Len(keys) + 1} /\ Len(keys) \in Nat
      BY <1>9, Minted
    <3>3. \A k \in Connect!KeyIds' : k # 0
      BY <3>2 DEF Connect!KeyIds, Connect!TypeOK
    <3> QED BY <2>1, <3>1, <3>3 DEF Issued
  <2> QED BY <1>1, <1>9, <2>1, <2>2, Minted, IssuedFewer
<1>10. ASSUME NEW t \in ConsentTabs, Connect!Complete(t) \/ Connect!ServeDeny(t) PROVE IssuedOnce'
  <2>1. t \in Connect!Going /\ keys' = keys
    BY <1>10, CallGoes
  <2>2. CASE call[t].request \in pending
    <3>1. Connect!Goto(t, "redirect") /\ pending' = pending \ {call[t].request}
          /\ offered' = offered /\ holds' = holds
          /\ codes' \in {codes, codes \cup ({call[t].key} \ {0})}
      BY <1>10, <2>2, Decides DEF Connect!Decided
    <3>2. Issued' \subseteq Issued \cup ({call[t].key} \ {0})
      <4>1. \A u \in Connect!Going' : u \in Connect!Going /\ call'[u].key = call[u].key /\ (u # t => call'[u] = call[u])
        BY <2>1, <3>1, GotoCalls DEF Connect!Going
      <4>2. \A k \in Connect!KeyIds : k # 0
        BY DEF Connect!KeyIds, Connect!TypeOK
      <4> QED BY <2>1, <3>1, <4>1, <4>2 DEF Issued, Connect!KeyIds
    <3>3. call[t].key # 0 => keys[call[t].key].request = call[t].request
      BY <2>1 DEF Known
    <3>4. \A k \in Issued : keys[k].request # call[t].request
      BY <2>2 DEF IssuedOnce
    <3> QED BY <2>1, <3>1, <3>2, <3>3, <3>4 DEF IssuedOnce
  <2>3. CASE call[t].request \notin pending
    <3>1. \A u \in Connect!Going' : call'[u].pc = "redirect" =>
               u \in Connect!Going /\ call[u].pc = "redirect" /\ call'[u].key = call[u].key
      BY <1>10, <2>1, <2>3, NotDecides, GotoCalls DEF Connect!Going
    <3> QED BY <1>2, <1>10, <2>1, <2>3, <3>1, NotDecides
  <2> QED BY <2>2, <2>3
<1>11. ASSUME NEW t \in ConsentTabs, Connect!Redirected(t) PROVE IssuedOnce'
  <2>1. t \in Connect!Going /\ call[t].pc = "redirect" /\ keys' = keys /\ pending' = pending /\ codes' = codes /\ holds' = holds
        /\ offered' \subseteq offered \cup ({call[t].key} \ {0})
    BY <1>11 DEF Connect!Redirected, Connect!Going, Connect!Idle, Connect!client, Connect!memory
  <2>2. offered' \subseteq Issued
    BY <2>1 DEF Issued, Known
  <2>3. Issued' \subseteq Issued
    BY <1>11, <2>1, <2>2, CallEnds DEF Issued, Connect!KeyIds, Connect!Going
  <2> QED BY <1>1, <2>1, <2>3, IssuedFewer
<1>12. ASSUME NEW t \in ConsentTabs, Connect!Error(t) PROVE IssuedOnce'
  <2>1. keys' = keys /\ pending' = pending /\ codes' = codes /\ offered' = offered /\ holds' = holds
    BY <1>12 DEF Connect!Error, Connect!client, Connect!memory
  <2> QED BY <1>2, <1>12, <2>1, CallEnds DEF Connect!Going
<1> QED BY <1>3, <1>4, <1>5, <1>6, <1>7, <1>8, <1>9, <1>10, <1>11, <1>12 DEF Connect!Next

-----------------------------------------------------------------------------
(* Undisturbed.                                                            *)

(* What it says of one call.                                               *)
Alone(t) ==
  /\ \A u \in Connect!Going : call[u].request = call[t].request => u = t
  /\ call[t].pc \in {"member", "mint", "complete"} => call[t].request \in pending \ aged
  /\ call[t].pc \in {"pending", "member", "mint", "refused"} => call[t].key = 0

LEMMA UndisturbedStep == ASSUME Connect!TypeOK, Known, Undisturbed, Connect!Next PROVE Undisturbed'
<1>1. Undisturbed <=> \A t \in Connect!Going : call[t].alone => Alone(t)
  BY DEF Undisturbed, Alone
<1> SUFFICES ASSUME NEW u \in Connect!Going', call'[u].alone PROVE Alone(u)'
  BY DEF Undisturbed, Alone
<1>2. CASE (\E c \in Clients : Connect!Register(c)) \/ (\E c \in Clients, k \in Connect!KeyIds : Connect!Exchange(c, k))
           \/ (\E k \in codes : Connect!CodeExpires(k)) \/ (\E w \in Memberships : Connect!MembershipChanges(w))
           \/ (\E c \in Clients : Connect!Authorize(c))
           \/ (\E t \in ConsentTabs : \/ \E r \in Connect!Requests : Connect!OpenConsent(t, r)
                               \/ Connect!LoadConsent(t) \/ Connect!LoadFails(t) \/ \E w \in Memberships : Connect!Pick(t, w))
  <2>1. call' = call /\ aged' = aged /\ pending \ aged \subseteq pending'
    BY <1>2 DEF Connect!Register, Connect!Authorize, Connect!Exchange, Connect!CodeExpires, Connect!MembershipChanges, Connect!OpenConsent, Connect!LoadConsent,
                Connect!LoadFails, Connect!Pick, Connect!Kept, Connect!client, Connect!memory
  <2>2. u \in Connect!Going /\ Alone(u)
    BY <1>1, <2>1 DEF Connect!Going
  <2> QED BY <2>1, <2>2 DEF Alone, Connect!Going
<1>3. CASE (\E r \in Connect!Requests : Connect!Age(r)) \/ Connect!Restart \/ (\E t \in ConsentTabs : Connect!LeaveTab(t))
  <2>1. Connect!Going' = Connect!Going /\ (\A t \in Connect!Going : Kind(t)) /\ Alone(u)
    BY <1>1, <1>3, CallsKeep DEF Kind
  <2>2. call[u].request \in pending \ aged => call[u].request \in (pending \ aged)'
    <3>1. CASE \E t \in ConsentTabs : Connect!LeaveTab(t)
      BY <3>1 DEF Connect!LeaveTab, Connect!memory
    <3>2. CASE Connect!Restart
      <4>1. call'[u].alone = FALSE
        <5>1. call[u] \in Connect!Call /\ call[u] # Connect!Idle
          BY <2>1, CallFields DEF Connect!Going
        <5>2. call'[u] = [call[u] EXCEPT !.pc = "refused", !.alone = FALSE]
          BY <2>1, <3>2, <5>1 DEF Connect!Restart, Connect!Going
        <5> QED BY <5>1, <5>2 DEF Connect!Call
      <4> QED BY <4>1
    <3>3. ASSUME NEW r \in Connect!Requests, Connect!Age(r)
          PROVE  call[u].request \in pending \ aged => call[u].request \in (pending \ aged)'
      <4>1. call[u].request # r
        BY <2>1, <3>3, DisturbedCalls DEF Connect!Age, Connect!Going
      <4> QED BY <3>3, <4>1 DEF Connect!Age, Connect!memory
    <3> QED BY <1>3, <3>1, <3>2, <3>3
  <2> QED BY <2>1, <2>2 DEF Alone, Kind
<1>4. ASSUME NEW t \in ConsentTabs, Connect!Approve(t) \/ Connect!Deny(t) PROVE Alone(u)'
  <2>1. PICK ws \in Connect!Maybe(Memberships) : Connect!Decide(t, ws)
    BY <1>4, ApproveDecides
  <2>2. pending' = pending /\ aged' = aged
    BY <2>1 DEF Connect!Decide, Connect!memory
  <2>3. CASE u = t
    BY <2>1, <2>3, CallStarts DEF Alone
  <2>4. CASE u # t
    BY <1>1, <2>1, <2>2, <2>4, CallStarts DEF Alone
  <2> QED BY <2>3, <2>4
<1>5. ASSUME NEW t \in ConsentTabs, NEW pc \in {"member", "redirect", "refused"},
             t \in Connect!Going, Connect!Goto(t, pc), aged' = aged,
             \A v \in Connect!Going : v # t /\ call[v].request \in pending \ aged =>
               call[v].request \in pending' \/ call[v].request = call[t].request,
             pc = "member" => call[t].pc = "pending" /\ call[t].request \in pending' \ aged,
             pc = "refused" => call[t].pc # "complete" \/ call[t].request \notin pending
      PROVE  call[t].pc \in {"pending", "complete"} => Alone(u)'
  <2> SUFFICES ASSUME call[t].pc \in {"pending", "complete"} PROVE Alone(u)'
    OBVIOUS
  <2>1. /\ Connect!Going' = Connect!Going
        /\ \A v \in Connect!Going : call'[v].request = call[v].request /\ call'[v].key = call[v].key
                            /\ call'[v].alone = call[v].alone
        /\ call'[t].pc = pc
        /\ \A v \in Connect!Going : v # t => call'[v] = call[v]
    BY <1>5, GotoCalls DEF Connect!Going
  <2>2. u \in Connect!Going /\ Alone(u)
    BY <1>1, <2>1
  <2>3. CASE u = t
    BY <1>5, <2>1, <2>2, <2>3 DEF Alone
  <2>4. CASE u # t
    BY <1>5, <2>1, <2>2, <2>4 DEF Alone
  <2> QED BY <2>3, <2>4
<1>6. ASSUME NEW t \in ConsentTabs, Connect!LookUp(t) PROVE Alone(u)'
  <2>1. t \in Connect!Going /\ pending' = pending \ aged /\ aged' = aged
    BY <1>6 DEF Connect!LookUp, Connect!Going, Connect!Idle, Connect!Kept
  <2>2. CASE call[t].request \in pending \ aged
    BY <1>5, <1>6, <2>1, <2>2 DEF Connect!LookUp, Connect!Kept
  <2>3. CASE call[t].request \notin pending \ aged
    BY <1>5, <1>6, <2>1, <2>3 DEF Connect!LookUp, Connect!Kept
  <2> QED BY <2>2, <2>3
<1>7. ASSUME NEW t \in ConsentTabs, Connect!CheckMember(t) PROVE Alone(u)'
  <2>1. t \in Connect!Going /\ pending' = pending /\ aged' = aged /\ call[t].pc = "member"
    BY <1>7 DEF Connect!CheckMember, Connect!Going, Connect!Idle, Connect!memory
  <2>2. PICK pc \in {"mint", "refused"} : Connect!Goto(t, pc)
    BY <1>7 DEF Connect!CheckMember
  <2>3. /\ Connect!Going' = Connect!Going /\ call'[t].pc = pc
        /\ \A v \in Connect!Going : call'[v].request = call[v].request /\ call'[v].key = call[v].key
                            /\ call'[v].alone = call[v].alone
        /\ \A v \in Connect!Going : v # t => call'[v] = call[v]
    BY <2>1, <2>2, GotoCalls DEF Connect!Going
  <2>4. u \in Connect!Going /\ Alone(u)
    BY <1>1, <2>3
  <2>5. CASE u = t
    BY <2>1, <2>2, <2>3, <2>4, <2>5 DEF Alone
  <2>6. CASE u # t
    BY <2>1, <2>3, <2>4, <2>6 DEF Alone
  <2> QED BY <2>5, <2>6
<1>8. ASSUME NEW t \in ConsentTabs, Connect!Complete(t) \/ Connect!ServeDeny(t) PROVE Alone(u)'
  <2>1. t \in Connect!Going /\ aged' = aged
    BY <1>8, CallGoes, Decides, NotDecides
  <2>2. call[t].pc \in {"pending", "complete"}
    BY <1>8 DEF Connect!Complete, Connect!ServeDeny
  <2>3. CASE call[t].request \in pending
    <3>1. Connect!Goto(t, "redirect") /\ pending' = pending \ {call[t].request}
      BY <1>8, <2>3, Decides DEF Connect!Decided
    <3> QED BY <1>5, <2>1, <2>2, <2>3, <3>1
  <2>4. CASE call[t].request \notin pending
    <3>1. Connect!Goto(t, "refused") /\ pending' = pending
      BY <1>8, <2>4, NotDecides
    <3> QED BY <1>5, <2>1, <2>2, <2>4, <3>1
  <2> QED BY <2>3, <2>4
<1>9. ASSUME NEW t \in ConsentTabs, Connect!Mint(t) PROVE Alone(u)'
  <2>1. pending' = pending /\ aged' = aged /\ call[t].pc = "mint"
    BY <1>9 DEF Connect!Mint, Connect!memory
  <2>2. u \in Connect!Going /\ Alone(u)
    BY <1>1, <1>9, Minted DEF Connect!Going
  <2>3. \A v \in Connect!Going : call'[v].request = call[v].request
    BY <1>9, Minted DEF Connect!Going
  <2>4. CASE u = t
    BY <1>9, <2>1, <2>2, <2>3, <2>4, Minted DEF Alone
  <2>5. CASE u # t
    BY <1>9, <2>1, <2>2, <2>3, <2>5, Minted DEF Alone, Connect!Going
  <2> QED BY <2>4, <2>5
<1>10. ASSUME NEW t \in ConsentTabs, Connect!Redirected(t) \/ Connect!Error(t) PROVE Alone(u)'
  <2>1. pending' = pending /\ aged' = aged
    BY <1>10 DEF Connect!Redirected, Connect!Error, Connect!memory
  <2> QED BY <1>1, <1>10, <2>1, CallEnds DEF Alone, Connect!Going
<1> QED BY <1>2, <1>3, <1>4, <1>6, <1>7, <1>8, <1>9, <1>10 DEF Connect!Next

-----------------------------------------------------------------------------
(* Connecting an app: the theorems.                                        *)

LEMMA ConnectInvStep == ConnectInv /\ [Connect!Next]_(Connect!vars) => ConnectInv'
<1> SUFFICES ASSUME ConnectInv, [Connect!Next]_(Connect!vars) PROVE ConnectInv'
  OBVIOUS
<1>1. CASE Connect!Next
  BY <1>1, ConnectTypeStep, KnownStep, RedirectsStep, IssuedStep, UndisturbedStep DEF ConnectInv
<1>2. CASE UNCHANGED Connect!vars
  BY <1>2 DEF Connect!vars, ConnectInv, Connect!TypeOK, Known, Redirects, IssuedOnce, Issued, Undisturbed, Connect!Requests, Connect!KeyIds, Connect!Going
<1> QED BY <1>1, <1>2

THEOREM ConnectInvariance == Connect!Spec => []ConnectInv
<1>1. Connect!Init => ConnectInv
  BY ConnectInvInit
<1>2. ConnectInv /\ [Connect!Next]_(Connect!vars) => ConnectInv'
  BY ConnectInvStep
<1> QED BY <1>1, <1>2, PTL DEF Connect!Spec

(* The server, the pages, their decisions and the keys keep to their types *)
(* whatever is restarted, lost or left.                                    *)
THEOREM ConnectTypes == Connect!Spec => []Connect!TypeOK
<1>1. ConnectInv => Connect!TypeOK
  BY DEF ConnectInv
<1> QED BY <1>1, ConnectInvariance, PTL

LEMMA OnceFollows == ConnectInv => Connect!DecidedOnce
<1> SUFFICES ASSUME ConnectInv, NEW r \in Connect!Requests
             PROVE  redirects[r] <= 1 /\ Cardinality({k \in holds : keys[k].request = r}) <= 1
  BY SameCardinality DEF Connect!DecidedOnce
<1>1. redirects[r] <= 1
  <2>1. r \in 1 .. MaxRequests
    BY Limits DEF ConnectInv, Connect!TypeOK, Connect!Requests
  <2> QED BY <2>1 DEF ConnectInv, Redirects
<1> DEFINE K == {k \in holds : keys[k].request = r}
<1>2. CASE K = {}
  BY <1>1, <1>2, FS_EmptySet
<1>3. CASE K # {}
  <2>1. PICK k \in K : TRUE
    BY <1>3
  <2>2. \A l \in K : l = k
    BY <2>1 DEF ConnectInv, IssuedOnce, Issued
  <2> HIDE DEF K
  <2>3. K = {k} /\ Cardinality({k}) = 1
    BY <2>1, <2>2, FS_Singleton
  <2> QED BY <1>1, <2>3 DEF K
<1> QED BY <1>2, <1>3

LEMMA RefusalFollows == ConnectInv => Connect!RefusalLeavesNoKey
BY DEF ConnectInv, Undisturbed, Connect!RefusalLeavesNoKey

(* complete_authorization and deny_authorization decide a request once,    *)
(* however many tabs answer it: its client gets one token at most.         *)
THEOREM OnceDecided == Connect!Spec => []Connect!DecidedOnce
BY OnceFollows, ConnectInvariance, PTL

(* submit_consent mints the key before it completes the request, and yet a *)
(* decision that runs alone and is refused has minted none.                *)
THEOREM NoKeyAfterRefusal == Connect!Spec => []Connect!RefusalLeavesNoKey
BY RefusalFollows, ConnectInvariance, PTL

-----------------------------------------------------------------------------
(* Deleting an account: the inductive invariant.                           *)

Owners(w) == {p \in Deletion!People : roles[w][p] = "owner"}

(* The workspaces that a step of the request has to do are owned, or were  *)
(* found to have no heir, and what was on file has ended once billing is   *)
(* over.                                                                   *)
Surveyed ==
  /\ request.pc = "survey" => request.left \cup request.survey \subseteq Deletion!Owned
  /\ request.pc = "cancel" =>
       /\ request.survey \subseteq Deletion!Owned
       /\ request.left \subseteq Deletion!Purges
       /\ \A w \in Deletion!Purges \ request.left : Deletion!Ended(w)
  /\ request.pc \in {"owner_id", "role", "purge"} => \A w \in Deletion!Purges : Deletion!Ended(w)
  /\ request.pc = "owner_id" => request.left \subseteq Deletion!Transfers \cap Deletion!Owned
  /\ request.pc = "role" =>
       \E w \in Deletion!Transfers : request.left = {w} /\ owner[w] = heir[w] /\ Owners(w) = {Me}
  /\ request.pc = "purge" => request.left \subseteq Deletion!Purges

(* The request of a user who is gone has nothing to do; it is a success    *)
(* only if the user is gone.                                               *)
Gone ==
  /\ ~user /\ request \in Deletion!Request => request.survey = {} /\ request.left = {}
  /\ request.pc = "answered" /\ request.error = "none" => ~user

(* The heirs of the survey are members, as long as it is up to date.       *)
HeirsAreMembers ==
  request.pc \in {"survey", "cancel", "owner_id", "role"} /\ ~troubled =>
    \A w \in request.survey : \A h \in heir[w] : roles[w][h] # "none"

(* A workspace that is the user's has no other owner; one handed over has  *)
(* the new one, but between the two steps of handing it over.              *)
Handing ==
  \A w \in Workspaces :
    /\ owner[w] = {Me} => Owners(w) = {Me}
    /\ \/ owner[w] \in {{}, {Me}} \/ troubled \/ (request.pc = "role" /\ w \in request.left)
       \/ Owners(w) \ {Me} = owner[w]

(* What was on file for what is erased has ended.                          *)
Erased == \A w \in Workspaces : owner[w] = {} => Deletion!Ended(w)

DeletionInv == Deletion!TypeOK /\ Surveyed /\ Gone /\ HeirsAreMembers /\ Handing /\ Erased

-----------------------------------------------------------------------------
(* A request that is not answered has its fields.                          *)
LEMMA RequestFields ==
  ASSUME Deletion!TypeOK
  PROVE  /\ request.pc \notin {"idle", "answered"} => request \in Deletion!Request
         /\ request \in Deletion!Request => request.pc \notin {"idle", "answered"} /\ request # Deletion!Idle
         /\ request = Deletion!Idle => request.pc = "idle"
         /\ request.pc = "answered" => request \in Deletion!Answered
BY DEF Deletion!TypeOK, Deletion!Request, Deletion!Idle, Deletion!Answered

LEMMA DeletionInvInit == Deletion!Init => DeletionInv
<1> SUFFICES ASSUME Deletion!Init PROVE DeletionInv
  OBVIOUS
<1>1. PICK rest \in [Workspaces -> [Others -> {"admin", "member", "none"}]] :
        roles = [w \in Workspaces |-> [p \in Deletion!People |-> IF p = Me THEN "owner" ELSE rest[w][p]]]
  BY DEF Deletion!Init
<1>2. \A w \in Workspaces : \A p \in Deletion!People :
        roles[w][p] = IF p = Me THEN "owner" ELSE rest[w][p]
  BY <1>1
<1>3. roles \in [Workspaces -> [Deletion!People -> Deletion!Roles \cup {"none"}]]
  <2>1. ASSUME NEW w \in Workspaces
        PROVE  [p \in Deletion!People |-> IF p = Me THEN "owner" ELSE rest[w][p]] \in [Deletion!People -> Deletion!Roles \cup {"none"}]
    BY DEF Deletion!People, Deletion!Roles
  <2> QED BY <1>1, <2>1
<1>4. owner \in [Workspaces -> Deletion!Maybe(Deletion!People)] /\ heir \in [Workspaces -> Deletion!Maybe(Others)]
      /\ \A w \in Workspaces : owner[w] = {Me} /\ heir[w] = {}
  BY DEF Deletion!Init, Deletion!Maybe, Deletion!People
<1>5. \A w \in Workspaces : Owners(w) = {Me}
  BY <1>2 DEF Owners, Deletion!People
<1>6. request = Deletion!Idle /\ request.pc = "idle" /\ request \notin Deletion!Request /\ user /\ ~troubled
  BY DEF Deletion!Init, Deletion!Idle, Deletion!Request
<1>7. Deletion!TypeOK
  <2>1. /\ charged \in [Workspaces -> SUBSET Deletion!Bought] /\ moves \in 0 .. MaxMoves
        /\ filed \in [Workspaces -> Deletion!Bought \cup {"none"}]
        /\ found \in [Workspaces -> Deletion!Bought \cup {"none", "unread"}]
    BY Limits DEF Deletion!Init, Deletion!Bought
  <2>2. modal \in {"closed", "none", "wrong", "right"} /\ error \in Deletion!Errors /\ signedIn = TRUE /\ user = TRUE
        /\ troubled = FALSE
    BY DEF Deletion!Init, Deletion!Errors
  <2>3. \A w \in Workspaces : owner[w] # {}
    BY <1>4
  <2> QED BY <1>3, <1>4, <1>6, <2>1, <2>2, <2>3 DEF Deletion!TypeOK
<1>8. Surveyed /\ Gone /\ HeirsAreMembers
  BY <1>6 DEF Surveyed, Gone, HeirsAreMembers
<1>9. Handing /\ Erased
  BY <1>4, <1>5 DEF Handing, Erased
<1> QED BY <1>7, <1>8, <1>9 DEF DeletionInv

-----------------------------------------------------------------------------
(* Type correctness.                                                       *)

(* The request goes on to another step.                                    *)
LEMMA GotoRequest ==
  ASSUME Deletion!TypeOK, request.pc \notin {"idle", "answered"},
         NEW pc \in {"password", "survey", "cancel", "owner_id", "role", "purge", "user"},
         NEW left, left \subseteq Workspaces, Deletion!Goto(pc, left)
  PROVE  /\ request' \in Deletion!Request /\ request'.pc = pc /\ request'.left = left
         /\ request'.survey = request.survey
BY RequestFields DEF Deletion!Goto, Deletion!Request

LEMMA TypeCard ==
  ASSUME Deletion!TypeOK, Gone, Deletion!Open \/ (\E x \in {"none", "wrong", "right"} : Deletion!TypePassword(x)) \/ Deletion!Close \/ Deletion!Submit \/ Deletion!Answer
  PROVE  Deletion!TypeOK'
<1>1. UNCHANGED <<roles, owner, charged, filed, user, found, heir>>
      /\ troubled' = troubled /\ moves' = moves
  BY DEF Deletion!Open, Deletion!TypePassword, Deletion!Close, Deletion!Submit, Deletion!Answer, Deletion!database
<1>2. request' \in {Deletion!Idle} \cup Deletion!Request \cup Deletion!Answered
  <2>1. CASE Deletion!Submit
    <3>1. [pc |-> "password", left |-> {}, survey |-> {}] \in Deletion!Request
      BY DEF Deletion!Request
    <3>2. [pc |-> "answered", error |-> "password"] \in Deletion!Answered
      BY DEF Deletion!Answered, Deletion!Errors
    <3> QED BY <2>1, <3>1, <3>2 DEF Deletion!Submit
  <2>2. CASE ~Deletion!Submit
    BY <2>2 DEF Deletion!Open, Deletion!TypePassword, Deletion!Close, Deletion!Answer, Deletion!TypeOK
  <2> QED BY <2>1, <2>2
<1>3. error' \in Deletion!Errors /\ modal' \in {"closed", "none", "wrong", "right"}
  <2>1. request.pc = "answered" => request.error \in Deletion!Errors
    BY RequestFields DEF Deletion!Answered
  <2> QED BY <2>1 DEF Deletion!Open, Deletion!TypePassword, Deletion!Close, Deletion!Submit, Deletion!Answer, Deletion!TypeOK, Deletion!Errors
<1>4. signedIn' \in BOOLEAN /\ (~signedIn' => ~user')
  BY <1>1 DEF Deletion!Open, Deletion!TypePassword, Deletion!Close, Deletion!Submit, Deletion!Answer, Deletion!TypeOK, Gone
<1>5. /\ \A w \in Workspaces : owner'[w] = {} => \A p \in Deletion!People : roles'[w][p] = "none"
      /\ ~user' => \A w \in Workspaces : owner'[w] # {Me} /\ roles'[w][Me] = "none"
  BY <1>1 DEF Deletion!TypeOK
<1> QED BY <1>1, <1>2, <1>3, <1>4, <1>5 DEF Deletion!TypeOK

(* The types of what is charged for and on file.                           *)
BillingOK ==
  /\ charged \in [Workspaces -> SUBSET Deletion!Bought]
  /\ filed \in [Workspaces -> Deletion!Bought \cup {"none"}]
  /\ found \in [Workspaces -> Deletion!Bought \cup {"none", "unread"}]

LEMMA BillingStays == ASSUME Deletion!TypeOK, UNCHANGED <<charged, filed, found>> PROVE BillingOK'
BY DEF Deletion!TypeOK, BillingOK

(* What the steps of the request leave alone: only the database moves.     *)
LEMMA TypeDatabase ==
  ASSUME Deletion!TypeOK,
         roles' \in [Workspaces -> [Deletion!People -> Deletion!Roles \cup {"none"}]],
         owner' \in [Workspaces -> Deletion!Maybe(Deletion!People)],
         BillingOK', user' \in BOOLEAN, ~user => ~user',
         request' \in {Deletion!Idle} \cup Deletion!Request \cup Deletion!Answered,
         heir' \in [Workspaces -> Deletion!Maybe(Others)], troubled' \in BOOLEAN, moves' \in 0 .. MaxMoves,
         Deletion!card' = Deletion!card,
         \A w \in Workspaces : owner'[w] = {} => \A p \in Deletion!People : roles'[w][p] = "none",
         ~user' => \A w \in Workspaces : owner'[w] # {Me} /\ roles'[w][Me] = "none"
  PROVE  Deletion!TypeOK'
BY DEF Deletion!TypeOK, Deletion!card, BillingOK

LEMMA TypeSurvey ==
  ASSUME Deletion!TypeOK, Deletion!FindOwned \/ (\E w \in Workspaces : Deletion!Survey(w)) \/ Deletion!Advance \/ Deletion!Breaks
  PROVE  Deletion!TypeOK'
<1> USE DEF Deletion!database
<1>1. CASE Deletion!FindOwned
  <2>1. [pc |-> "survey", left |-> Deletion!Owned, survey |-> {}] \in Deletion!Request
    BY DEF Deletion!Request, Deletion!Owned
  <2>2. request' \in Deletion!Request
    BY <1>1, <2>1 DEF Deletion!FindOwned
  <2>3. BillingOK'
    BY <1>1 DEF Deletion!FindOwned, Deletion!TypeOK, BillingOK
  <2> QED BY <1>1, <2>2, <2>3, TypeDatabase DEF Deletion!FindOwned, Deletion!TypeOK
<1>2. ASSUME NEW w \in Workspaces, Deletion!Survey(w) PROVE Deletion!TypeOK'
  <2>1. request \in Deletion!Request
    BY <1>2, RequestFields DEF Deletion!Survey
  <2>2. request' \in Deletion!Request
    BY <1>2, <2>1 DEF Deletion!Survey, Deletion!Request
  <2>3. PICK h \in Deletion!Maybe(Deletion!Successors(w)) : heir' = [heir EXCEPT ![w] = h]
    BY <1>2 DEF Deletion!Survey
  <2>4. h \in Deletion!Maybe(Others)
    BY DEF Deletion!Maybe, Deletion!Successors
  <2>5. heir' \in [Workspaces -> Deletion!Maybe(Others)]
    BY <2>3, <2>4 DEF Deletion!TypeOK
  <2> QED BY <1>2, <2>2, <2>5, BillingStays, TypeDatabase DEF Deletion!Survey, Deletion!TypeOK
<1>3. CASE Deletion!Advance
  <2>1. request \in Deletion!Request
    BY <1>3, RequestFields DEF Deletion!Advance
  <2>2. Deletion!Purges \subseteq Workspaces /\ Deletion!Transfers \subseteq Workspaces
    BY <2>1 DEF Deletion!Purges, Deletion!Transfers, Deletion!Request
  <2>3. \E pc \in {"cancel", "owner_id", "purge", "user"} : \E left \in {Deletion!Purges, Deletion!Transfers, {}} : Deletion!Goto(pc, left)
    BY <1>3 DEF Deletion!Advance
  <2>4. request' \in Deletion!Request
    BY <1>3, <2>2, <2>3, GotoRequest DEF Deletion!Advance
  <2> QED BY <1>3, <2>4, BillingStays, TypeDatabase DEF Deletion!Advance, Deletion!TypeOK
<1>4. CASE Deletion!Breaks
  <2>1. request' \in Deletion!Answered
    BY <1>4 DEF Deletion!Breaks, Deletion!Answered, Deletion!Errors
  <2>2. moves' \in 0 .. MaxMoves
    BY <1>4, Limits DEF Deletion!Breaks, Deletion!TypeOK
  <2>3. troubled' \in BOOLEAN
    BY <1>4 DEF Deletion!Breaks, Deletion!TypeOK
  <2> QED BY <1>4, <2>1, <2>2, <2>3, BillingStays, TypeDatabase DEF Deletion!Breaks, Deletion!TypeOK
<1> QED BY <1>1, <1>2, <1>3, <1>4

(* The heir takes the place of the owner, and of the role.                 *)
LEMMA HeirFields ==
  ASSUME Deletion!TypeOK, NEW w \in Workspaces
  PROVE  heir[w] \in Deletion!Maybe(Deletion!People) /\ heir[w] # {Me} /\ Me \notin heir[w]
BY Limits DEF Deletion!TypeOK, Deletion!Maybe, Deletion!People

LEMMA TypeWrites ==
  ASSUME Deletion!TypeOK, Surveyed, Gone,
         NEW w \in Workspaces, Deletion!ReadSubscription(w) \/ Deletion!CancelSubscription(w) \/ Deletion!SetOwnerId(w) \/ Deletion!SetRole(w) \/ Deletion!Purge(w)
  PROVE  Deletion!TypeOK'
<1>1. request \in Deletion!Request
  BY RequestFields DEF Deletion!ReadSubscription, Deletion!CancelSubscription, Deletion!SetOwnerId, Deletion!SetRole, Deletion!Purge
<1>2. request.left \subseteq Workspaces /\ request.survey \subseteq Workspaces
  BY <1>1 DEF Deletion!Request
<1>3. CASE Deletion!CancelSubscription(w)
  <2>1. request' \in Deletion!Request
    BY <1>1, <1>2, <1>3 DEF Deletion!CancelSubscription, Deletion!Goto, Deletion!Request
  <2>2. BillingOK'
    BY <1>3 DEF Deletion!CancelSubscription, Deletion!TypeOK, BillingOK
  <2> QED BY <1>3, <2>1, <2>2, TypeDatabase DEF Deletion!CancelSubscription, Deletion!TypeOK
<1>4. CASE Deletion!SetOwnerId(w)
  <2>1. request' \in Deletion!Request
    BY <1>1, <1>4 DEF Deletion!SetOwnerId, Deletion!Request
  <2>2. heir[w] # {} /\ owner[w] = {Me}
    BY <1>4 DEF Deletion!SetOwnerId, Surveyed, Deletion!Transfers, Deletion!Owned
  <2>3. owner' = [owner EXCEPT ![w] = heir[w]]
    BY <1>4, <2>2 DEF Deletion!SetOwnerId
  <2>4. owner' \in [Workspaces -> Deletion!Maybe(Deletion!People)] /\ owner'[w] # {}
        /\ \A v \in Workspaces : owner'[v] = {Me} \/ owner'[v] = {} => owner'[v] = owner[v]
    BY <2>2, <2>3, HeirFields DEF Deletion!TypeOK
  <2>5. UNCHANGED <<roles, charged, filed, user, found, heir, troubled, Deletion!card, moves>>
    BY <1>4 DEF Deletion!SetOwnerId
  <2>6. BillingOK'
    BY <2>5, BillingStays
  <2> QED BY <2>1, <2>4, <2>5, <2>6, TypeDatabase DEF Deletion!TypeOK
<1>5. CASE Deletion!SetRole(w)
  <2>1. request' \in Deletion!Request
    BY <1>1, <1>2, <1>5 DEF Deletion!SetRole, Deletion!Goto, Deletion!Request, Deletion!Transfers
  <2>2. [p \in Deletion!People |-> IF {p} = heir[w] /\ roles[w][p] # "none" THEN "owner" ELSE roles[w][p]]
          \in [Deletion!People -> Deletion!Roles \cup {"none"}]
    BY DEF Deletion!TypeOK, Deletion!Roles
  <2>3. /\ roles' \in [Workspaces -> [Deletion!People -> Deletion!Roles \cup {"none"}]]
        /\ \A v \in Workspaces : \A p \in Deletion!People : roles[v][p] = "none" => roles'[v][p] = "none"
    BY <1>5, <2>2 DEF Deletion!SetRole, Deletion!TypeOK
  <2>4. UNCHANGED <<owner, charged, filed, user, found, heir, troubled, Deletion!card, moves>>
    BY <1>5 DEF Deletion!SetRole
  <2>5. BillingOK'
    BY <2>4, BillingStays
  <2> QED BY <2>1, <2>3, <2>4, <2>5, TypeDatabase DEF Deletion!TypeOK, Deletion!People
<1>6. CASE Deletion!Purge(w)
  <2>1. request' \in Deletion!Request
    BY <1>1, <1>2, <1>6 DEF Deletion!Purge, Deletion!Goto, Deletion!Request
  <2>2. Deletion!Nobody \in [Deletion!People -> Deletion!Roles \cup {"none"}] /\ {} \in Deletion!Maybe(Deletion!People)
    BY DEF Deletion!Nobody, Deletion!Maybe
  <2>3. /\ roles' \in [Workspaces -> [Deletion!People -> Deletion!Roles \cup {"none"}]]
        /\ owner' \in [Workspaces -> Deletion!Maybe(Deletion!People)]
        /\ roles'[w] = Deletion!Nobody /\ owner'[w] = {}
        /\ \A v \in Workspaces : v # w => roles'[v] = roles[v] /\ owner'[v] = owner[v]
    BY <1>6, <2>2 DEF Deletion!Purge, Deletion!TypeOK
  <2>4. \A v \in Workspaces : owner'[v] = {} => \A p \in Deletion!People : roles'[v][p] = "none"
    BY <2>3 DEF Deletion!TypeOK, Deletion!Nobody
  <2>5. ~user => \A v \in Workspaces : owner'[v] # {Me} /\ roles'[v][Me] = "none"
    <3>1. owner'[w] # {Me} /\ Me \in Deletion!People /\ roles'[w][Me] = "none"
      BY <2>3 DEF Deletion!Nobody, Deletion!People
    <3>2. ~user => \A v \in Workspaces : owner[v] # {Me} /\ roles[v][Me] = "none"
      BY DEF Deletion!TypeOK
    <3> QED BY <2>3, <3>1, <3>2
  <2>6. /\ UNCHANGED <<charged, found>> /\ user' = user /\ heir' = heir /\ troubled' = troubled /\ Deletion!card' = Deletion!card
        /\ moves' = moves
    BY <1>6 DEF Deletion!Purge
  <2>7. BillingOK'
    BY <1>6 DEF Deletion!Purge, Deletion!TypeOK, BillingOK
  <2> QED BY <2>1, <2>3, <2>4, <2>5, <2>6, <2>7, TypeDatabase DEF Deletion!TypeOK
<1>7. CASE Deletion!ReadSubscription(w)
  <2>1. BillingOK'
    BY <1>7 DEF Deletion!ReadSubscription, Deletion!database, Deletion!TypeOK, BillingOK
  <2> QED BY <1>7, <2>1, TypeDatabase DEF Deletion!ReadSubscription, Deletion!database, Deletion!TypeOK
<1> QED BY <1>3, <1>4, <1>5, <1>6, <1>7

LEMMA TypeFiles ==
  ASSUME Deletion!TypeOK, NEW w \in Workspaces, Deletion!Files(w)
  PROVE  Deletion!TypeOK'
<1>1. BillingOK'
  BY DEF Deletion!Files, Deletion!TypeOK, BillingOK
<1>2. moves' \in 0 .. MaxMoves
  BY Limits DEF Deletion!Files, Deletion!TypeOK
<1> QED BY <1>1, <1>2, TypeDatabase DEF Deletion!Files, Deletion!TypeOK

LEMMA TypeOthers ==
  ASSUME Deletion!TypeOK, NEW p \in Others, NEW w \in Workspaces, Deletion!Join(p, w) \/ Deletion!Leave(p, w)
  PROVE  /\ Deletion!TypeOK'
         /\ \E r \in {"member", "none"} :
              /\ roles' = [roles EXCEPT ![w] = [roles[w] EXCEPT ![p] = r]]
              /\ r = "member" => owner[w] # {}
         /\ roles[w][p] # "owner"
         /\ \A v \in Workspaces : v # w => roles'[v] = roles[v]
         /\ \A q \in Deletion!People : q # p => roles'[w][q] = roles[w][q]
         /\ roles'[w][p] # "owner"
         /\ owner' = owner /\ UNCHANGED <<charged, found>> /\ user' = user /\ request' = request /\ heir' = heir
<1>1. PICK r \in {"member", "none"} :
        /\ roles' = [roles EXCEPT ![w] = [roles[w] EXCEPT ![p] = r]]
        /\ r = "member" => owner[w] # {}
  BY DEF Deletion!Join, Deletion!Leave
<1>2. [roles[w] EXCEPT ![p] = r] \in [Deletion!People -> Deletion!Roles \cup {"none"}] /\ p \in Deletion!People /\ p # Me
  BY Limits DEF Deletion!TypeOK, Deletion!Roles, Deletion!People
<1>3. /\ roles' \in [Workspaces -> [Deletion!People -> Deletion!Roles \cup {"none"}]]
      /\ roles'[w] = [roles[w] EXCEPT ![p] = r]
      /\ \A v \in Workspaces : v # w => roles'[v] = roles[v]
  BY <1>1, <1>2 DEF Deletion!TypeOK
<1>4. roles'[w][p] = r /\ \A q \in Deletion!People : q # p => roles'[w][q] = roles[w][q]
  BY <1>2, <1>3 DEF Deletion!TypeOK
<1>5. moves' \in 0 .. MaxMoves /\ troubled' \in BOOLEAN
  <2>1. moves' = moves + 1 /\ moves < MaxMoves /\ Deletion!Race(w)
    BY DEF Deletion!Join, Deletion!Leave
  <2>2. moves' \in 0 .. MaxMoves
    BY <2>1, Limits DEF Deletion!TypeOK
  <2>3. troubled' \in BOOLEAN
    BY <2>1, Zenon DEF Deletion!Race
  <2> QED BY <2>2, <2>3
<1>6. /\ owner' = owner /\ UNCHANGED <<charged, filed, found>> /\ user' = user /\ request' = request /\ heir' = heir
      /\ modal' = modal /\ error' = error /\ signedIn' = signedIn
  BY DEF Deletion!Join, Deletion!Leave, Deletion!card
<1>7. \A v \in Workspaces : owner'[v] = {} => \A q \in Deletion!People : roles'[v][q] = "none"
  BY <1>1, <1>3, <1>4, <1>6 DEF Deletion!TypeOK
<1>8. ~user' => \A v \in Workspaces : owner'[v] # {Me} /\ roles'[v][Me] = "none"
  BY <1>2, <1>3, <1>4, <1>6 DEF Deletion!TypeOK, Deletion!People
<1>9. Deletion!TypeOK'
  <2>1. /\ owner' \in [Workspaces -> Deletion!Maybe(Deletion!People)] /\ user' \in BOOLEAN
        /\ (~user => ~user') /\ request' \in {Deletion!Idle} \cup Deletion!Request \cup Deletion!Answered
        /\ heir' \in [Workspaces -> Deletion!Maybe(Others)]
    BY <1>6 DEF Deletion!TypeOK
  <2> QED BY <1>3, <1>5, <1>6, <1>7, <1>8, <2>1, BillingStays, TypeDatabase DEF Deletion!card
<1>10. roles[w][p] # "owner"
  BY DEF Deletion!Join, Deletion!Leave
<1> QED BY <1>1, <1>3, <1>4, <1>6, <1>9, <1>10

LEMMA TypeDelete == ASSUME Deletion!TypeOK, Deletion!DeleteUser PROVE Deletion!TypeOK'
<1>1. request' \in Deletion!Answered
  BY DEF Deletion!DeleteUser, Deletion!Answered, Deletion!Errors
<1>2. CASE Deletion!Owned = {}
  <2>1. \A w \in Workspaces : [roles[w] EXCEPT ![Me] = "none"] \in [Deletion!People -> Deletion!Roles \cup {"none"}]
    BY DEF Deletion!TypeOK, Deletion!Roles
  <2>2. roles' = [w \in Workspaces |-> [roles[w] EXCEPT ![Me] = "none"]]
    BY <1>2 DEF Deletion!DeleteUser
  <2>3. /\ roles' \in [Workspaces -> [Deletion!People -> Deletion!Roles \cup {"none"}]]
        /\ \A w \in Workspaces : roles'[w] = [roles[w] EXCEPT ![Me] = "none"]
    BY <2>1, <2>2
  <2>4. \A w \in Workspaces : owner[w] # {Me} /\ roles'[w][Me] = "none"
    BY <1>2, <2>3 DEF Deletion!Owned, Deletion!TypeOK, Deletion!People
  <2>5. \A w \in Workspaces : \A p \in Deletion!People : roles[w][p] = "none" => roles'[w][p] = "none"
    BY <2>3 DEF Deletion!TypeOK
  <2>6. /\ user' = FALSE /\ Deletion!card' = Deletion!card
        /\ UNCHANGED <<owner, charged, filed, found, heir, troubled, moves>>
    BY <1>2 DEF Deletion!DeleteUser
  <2>7. \A w \in Workspaces : owner[w] = {} => \A p \in Deletion!People : roles'[w][p] = "none"
    BY <2>5 DEF Deletion!TypeOK
  <2> QED BY <1>1, <2>3, <2>4, <2>6, <2>7, BillingStays, TypeDatabase DEF Deletion!TypeOK
<1>3. CASE Deletion!Owned # {}
  <2>1. user
    BY <1>3 DEF Deletion!Owned, Deletion!TypeOK
  <2> QED BY <1>1, <1>3, <2>1, BillingStays, TypeDatabase DEF Deletion!DeleteUser, Deletion!TypeOK
<1> QED BY <1>2, <1>3

LEMMA DeletionTypeStep == ASSUME Deletion!TypeOK, Surveyed, Gone, Deletion!Next PROVE Deletion!TypeOK'
BY TypeCard, TypeSurvey, TypeWrites, TypeDelete, TypeOthers, TypeFiles DEF Deletion!Next

-----------------------------------------------------------------------------
(* What is surveyed stays so.                                              *)

LEMMA AnsweredSteps ==
  ASSUME request'.pc \notin {"survey", "cancel", "owner_id", "role", "purge"}
  PROVE  Surveyed' /\ HeirsAreMembers'
BY DEF Surveyed, HeirsAreMembers

LEMMA DeletionCardSteps ==
  ASSUME Deletion!TypeOK, Gone, Surveyed, HeirsAreMembers,
         Deletion!Open \/ (\E x \in {"none", "wrong", "right"} : Deletion!TypePassword(x)) \/ Deletion!Close \/ Deletion!Submit \/ Deletion!Answer
  PROVE  Surveyed' /\ Gone' /\ HeirsAreMembers'
<1>1. roles' = roles /\ owner' = owner /\ UNCHANGED <<charged, found>> /\ user' = user /\ heir' = heir /\ troubled' = troubled
  BY DEF Deletion!Open, Deletion!TypePassword, Deletion!Close, Deletion!Submit, Deletion!Answer, Deletion!database
<1>2. CASE request' = request
  BY <1>1, <1>2 DEF Surveyed, Gone, HeirsAreMembers, Deletion!Owned, Deletion!Purges, Deletion!Transfers, Deletion!Ended, Owners
<1>3. CASE Deletion!Submit
  <2>1. request'.pc \in {"password", "answered"} /\ (request'.pc = "answered" => request'.error # "none")
        /\ (request' \in Deletion!Request => request'.survey = {} /\ request'.left = {})
    BY <1>3 DEF Deletion!Submit, Deletion!Request
  <2> QED BY <2>1, AnsweredSteps DEF Gone
<1>4. CASE Deletion!Answer
  <2>1. request'.pc = "idle" /\ request' \notin Deletion!Request
    BY <1>4 DEF Deletion!Answer, Deletion!Idle, Deletion!Request
  <2> QED BY <2>1, AnsweredSteps DEF Gone
<1> QED BY <1>2, <1>3, <1>4 DEF Deletion!Open, Deletion!TypePassword, Deletion!Close

LEMMA FindSteps ==
  ASSUME Deletion!TypeOK, Gone, Surveyed, HeirsAreMembers, Deletion!FindOwned \/ Deletion!Breaks \/ Deletion!DeleteUser
  PROVE  Surveyed' /\ Gone' /\ HeirsAreMembers'
<1>1. CASE Deletion!FindOwned
  <2>1. request'.pc = "survey" /\ request'.left = Deletion!Owned /\ request'.survey = {}
    BY <1>1 DEF Deletion!FindOwned
  <2>2. owner' = owner /\ user' = user /\ Deletion!Owned' = Deletion!Owned
    BY <1>1 DEF Deletion!FindOwned, Deletion!database, Deletion!Owned
  <2>3. ~user => Deletion!Owned = {}
    BY DEF Deletion!TypeOK, Deletion!Owned
  <2> QED BY <2>1, <2>2, <2>3 DEF Surveyed, Gone, HeirsAreMembers
<1>2. CASE Deletion!Breaks
  <2>1. request'.pc = "answered" /\ request'.error # "none" /\ request' \notin Deletion!Request
    BY <1>2 DEF Deletion!Breaks, Deletion!Request
  <2> QED BY <2>1, AnsweredSteps DEF Gone
<1>3. CASE Deletion!DeleteUser
  <2>1. request'.pc = "answered" /\ request' \notin Deletion!Request /\ (request'.error = "none" => ~user')
    BY <1>3 DEF Deletion!DeleteUser, Deletion!Request
  <2> QED BY <2>1, AnsweredSteps DEF Gone
<1> QED BY <1>1, <1>2, <1>3

LEMMA SurveySteps ==
  ASSUME Deletion!TypeOK, Gone, Surveyed, HeirsAreMembers, NEW w \in Workspaces, Deletion!Survey(w)
  PROVE  Surveyed' /\ Gone' /\ HeirsAreMembers'
<1>1. request \in Deletion!Request /\ request.pc = "survey" /\ w \in request.left
  BY RequestFields DEF Deletion!Survey
<1>2. request'.pc = "survey" /\ request'.left = request.left \ {w} /\ request'.survey = request.survey \cup {w}
  BY <1>1 DEF Deletion!Survey, Deletion!Request
<1>3. roles' = roles /\ owner' = owner /\ user' = user /\ troubled' = troubled
  BY DEF Deletion!Survey, Deletion!database
<1>4. PICK h \in Deletion!Maybe(Deletion!Successors(w)) : heir' = [heir EXCEPT ![w] = h]
  BY DEF Deletion!Survey
<1>5. \A p \in h : roles[w][p] # "none"
  BY DEF Deletion!Maybe, Deletion!Successors
<1>6. heir'[w] = h /\ \A v \in Workspaces : v # w => heir'[v] = heir[v]
  BY <1>4 DEF Deletion!TypeOK
<1>7. Surveyed'
  BY <1>1, <1>2, <1>3 DEF Surveyed, Deletion!Owned
<1>8. Gone'
  BY <1>1, <1>2, <1>3 DEF Gone
<1>9. HeirsAreMembers'
  BY <1>1, <1>2, <1>3, <1>5, <1>6 DEF HeirsAreMembers, Deletion!Request
<1> QED BY <1>7, <1>8, <1>9

LEMMA AdvanceSteps ==
  ASSUME Deletion!TypeOK, Gone, Surveyed, HeirsAreMembers, Deletion!Advance
  PROVE  Surveyed' /\ Gone' /\ HeirsAreMembers'
<1>1. request \in Deletion!Request /\ request.left = {} /\ request.survey \subseteq Workspaces
  BY RequestFields DEF Deletion!Advance, Deletion!Request
<1>2. roles' = roles /\ owner' = owner /\ UNCHANGED <<charged, found>> /\ user' = user /\ troubled' = troubled /\ heir' = heir
  BY DEF Deletion!Advance, Deletion!database
<1>3. /\ Deletion!Purges \subseteq Workspaces /\ Deletion!Transfers \subseteq Workspaces
      /\ \A w : Deletion!Ended(w)' <=> Deletion!Ended(w)
  BY <1>1, <1>2 DEF Deletion!Purges, Deletion!Transfers, Deletion!Ended
<1>4. ASSUME NEW pc \in {"cancel", "owner_id", "purge", "user"}, NEW left, left \subseteq Workspaces, Deletion!Goto(pc, left)
      PROVE  /\ request'.pc = pc /\ request'.left = left /\ request' \in Deletion!Request
             /\ request'.survey = request.survey /\ Deletion!Purges' = Deletion!Purges /\ Deletion!Transfers' = Deletion!Transfers /\ Deletion!Owned' = Deletion!Owned
  <2>1. request.pc \notin {"idle", "answered"}
    BY DEF Deletion!Advance
  <2>2. request'.pc = pc /\ request'.left = left /\ request' \in Deletion!Request /\ request'.survey = request.survey
    BY <1>4, <2>1, GotoRequest
  <2> QED BY <1>2, <2>2 DEF Deletion!Purges, Deletion!Transfers, Deletion!Owned
<1>5. CASE request.pc = "survey"
  <2>1. Deletion!Goto("cancel", Deletion!Purges)
    BY <1>5 DEF Deletion!Advance
  <2> QED BY <1>1, <1>2, <1>3, <1>4, <1>5, <2>1 DEF Surveyed, Gone, HeirsAreMembers, Deletion!Purges
<1>6. CASE request.pc = "cancel"
  <2>1. Deletion!Goto("owner_id", Deletion!Transfers)
    BY <1>6 DEF Deletion!Advance
  <2>2. Deletion!Transfers \subseteq Deletion!Owned
    BY <1>6 DEF Surveyed, Deletion!Transfers
  <2>3. ~user => Deletion!Transfers = {}
    BY <1>1 DEF Gone, Deletion!Transfers
  <2> QED BY <1>1, <1>2, <1>3, <1>4, <1>6, <2>1, <2>2, <2>3 DEF Surveyed, Gone, HeirsAreMembers
<1>7. CASE request.pc = "owner_id"
  <2>1. Deletion!Goto("purge", Deletion!Purges)
    BY <1>7 DEF Deletion!Advance
  <2> QED BY <1>1, <1>2, <1>3, <1>4, <1>7, <2>1 DEF Surveyed, Gone, HeirsAreMembers, Deletion!Purges
<1>8. CASE request.pc = "purge"
  <2>1. Deletion!Goto("user", {})
    BY <1>8 DEF Deletion!Advance
  <2>2. request'.pc = "user" /\ request'.left = {} /\ request'.survey = request.survey
    BY <1>4, <2>1
  <2> QED BY <1>1, <1>2, <2>2, AnsweredSteps DEF Gone
<1> QED BY <1>5, <1>6, <1>7, <1>8 DEF Deletion!Advance

LEMMA WriteSteps ==
  ASSUME Deletion!TypeOK, Gone, Surveyed, HeirsAreMembers, Handing,
         NEW w \in Workspaces, Deletion!ReadSubscription(w) \/ Deletion!CancelSubscription(w) \/ Deletion!SetOwnerId(w) \/ Deletion!SetRole(w) \/ Deletion!Purge(w)
  PROVE  Surveyed' /\ Gone' /\ HeirsAreMembers'
<1>1. request \in Deletion!Request /\ request.left \subseteq Workspaces /\ request.survey \subseteq Workspaces /\ w \in request.left
  BY RequestFields DEF Deletion!ReadSubscription, Deletion!CancelSubscription, Deletion!SetOwnerId, Deletion!SetRole, Deletion!Purge, Deletion!Request
<1>2. user' = user /\ heir' = heir /\ troubled' = troubled
  BY DEF Deletion!ReadSubscription, Deletion!CancelSubscription, Deletion!SetOwnerId, Deletion!SetRole, Deletion!Purge, Deletion!database
<1>3. user
  BY <1>1 DEF Gone
<1>4. request'.survey = request.survey /\ request'.pc # "answered"
  BY <1>1 DEF Deletion!ReadSubscription, Deletion!CancelSubscription, Deletion!SetOwnerId, Deletion!SetRole, Deletion!Purge, Deletion!Goto, Deletion!Request
<1>5. Gone'
  BY <1>2, <1>3, <1>4 DEF Gone
<1>6. /\ Deletion!Purges' = Deletion!Purges /\ Deletion!Transfers' = Deletion!Transfers
      /\ UNCHANGED <<charged, found>> => \A v : Deletion!Ended(v)' <=> Deletion!Ended(v)
  BY <1>2, <1>4 DEF Deletion!Purges, Deletion!Transfers, Deletion!Ended
<1>7. CASE Deletion!CancelSubscription(w)
  <2>1. request'.pc = "cancel" /\ request'.left = request.left \ {w} /\ found' = found /\ found[w] # "unread"
        /\ roles' = roles /\ owner' = owner /\ request.pc = "cancel"
    BY <1>1, <1>7 DEF Deletion!CancelSubscription, Deletion!Goto, Deletion!Request
  <2>2. Deletion!Ended(w)' /\ \A v \in Workspaces : Deletion!Ended(v) => Deletion!Ended(v)'
    BY <1>7, <2>1 DEF Deletion!CancelSubscription, Deletion!Ended, Deletion!TypeOK
  <2>3. Deletion!Purges \subseteq Workspaces
    BY <1>1 DEF Deletion!Purges
  <2>4. \A v \in Deletion!Purges \ request'.left : Deletion!Ended(v)'
    BY <2>1, <2>2, <2>3 DEF Surveyed
  <2> QED BY <1>2, <1>4, <1>5, <1>6, <2>1, <2>4 DEF Surveyed, HeirsAreMembers, Deletion!Owned
<1>11. CASE Deletion!ReadSubscription(w)
  <2>1. request' = request /\ charged' = charged /\ roles' = roles /\ owner' = owner /\ request.pc = "cancel"
    BY <1>11 DEF Deletion!ReadSubscription, Deletion!database
  <2>2. \A v \in Workspaces \ request.left : Deletion!Ended(v) => Deletion!Ended(v)'
    BY <1>1, <1>11, <2>1 DEF Deletion!ReadSubscription, Deletion!Ended, Deletion!TypeOK
  <2>3. Deletion!Purges \subseteq Workspaces
    BY <1>1 DEF Deletion!Purges
  <2>4. \A v \in Deletion!Purges \ request.left : Deletion!Ended(v)'
    BY <2>1, <2>2, <2>3 DEF Surveyed
  <2> QED BY <1>2, <1>4, <1>5, <1>6, <2>1, <2>4 DEF Surveyed, HeirsAreMembers, Deletion!Owned
<1>8. CASE Deletion!SetOwnerId(w)
  <2>1. request'.pc = "role" /\ request'.left = {w} /\ UNCHANGED <<charged, found>>
        /\ roles' = roles /\ request.pc = "owner_id"
    BY <1>1, <1>8 DEF Deletion!SetOwnerId, Deletion!Request
  <2>2. w \in Deletion!Transfers /\ owner[w] = {Me} /\ Owners(w) = {Me}
    BY <1>1, <2>1 DEF Surveyed, Deletion!Owned, Handing
  <2>3. owner'[w] = heir[w]
    BY <1>8, <2>2 DEF Deletion!SetOwnerId, Deletion!TypeOK
  <2>4. Owners(w)' = Owners(w)
    BY <2>1 DEF Owners
  <2> QED BY <1>2, <1>4, <1>5, <1>6, <2>1, <2>2, <2>3, <2>4 DEF Surveyed, HeirsAreMembers
<1>9. CASE Deletion!SetRole(w)
  <2>1. request'.pc = "owner_id" /\ request'.left = {v \in Deletion!Transfers : owner[v] = {Me}} /\ UNCHANGED <<charged, found>>
        /\ owner' = owner /\ request.pc = "role"
    BY <1>1, <1>9 DEF Deletion!SetRole, Deletion!Goto, Deletion!Request
  <2>2. \A v \in Workspaces : \A p \in Deletion!People : roles[v][p] # "none" => roles'[v][p] # "none"
    <3>1. [p \in Deletion!People |-> IF {p} = heir[w] /\ roles[w][p] # "none" THEN "owner" ELSE roles[w][p]]
            \in [Deletion!People -> Deletion!Roles \cup {"none"}]
      BY DEF Deletion!TypeOK, Deletion!Roles
    <3> QED BY <1>9, <3>1 DEF Deletion!SetRole, Deletion!TypeOK
  <2>3. \A v \in Workspaces : heir[v] \subseteq Deletion!People
    BY HeirFields DEF Deletion!Maybe
  <2>4. Surveyed'
    BY <1>1, <1>4, <1>6, <2>1 DEF Surveyed, Deletion!Owned, Deletion!Transfers
  <2>5. HeirsAreMembers'
    BY <1>1, <1>2, <1>4, <2>1, <2>2, <2>3 DEF HeirsAreMembers
  <2> QED BY <1>5, <2>4, <2>5
<1>10. CASE Deletion!Purge(w)
  <2>1. request'.pc = "purge" /\ request'.left = request.left \ {w} /\ UNCHANGED <<charged, found>> /\ request.pc = "purge"
    BY <1>1, <1>10 DEF Deletion!Purge, Deletion!Goto, Deletion!Request
  <2> QED BY <1>5, <1>6, <2>1 DEF Surveyed, HeirsAreMembers
<1> QED BY <1>7, <1>8, <1>9, <1>10, <1>11

LEMMA OtherSteps ==
  ASSUME Deletion!TypeOK, Gone, Surveyed, HeirsAreMembers, NEW p \in Others, NEW w \in Workspaces, Deletion!Join(p, w) \/ Deletion!Leave(p, w)
  PROVE  Surveyed' /\ Gone' /\ HeirsAreMembers' /\ \A v \in Workspaces : Owners(v)' = Owners(v)
<1>1. \A v \in Workspaces : Owners(v)' = Owners(v)
  <2>1. \A v \in Workspaces, q \in Deletion!People : roles'[v][q] = "owner" <=> roles[v][q] = "owner"
    BY TypeOthers
  <2> QED BY <2>1 DEF Owners
<1>2. owner' = owner /\ UNCHANGED <<charged, found>> /\ user' = user /\ request' = request /\ heir' = heir
  BY TypeOthers
<1>3. /\ Deletion!Owned' = Deletion!Owned /\ Deletion!Purges' = Deletion!Purges /\ Deletion!Transfers' = Deletion!Transfers
      /\ \A v : Deletion!Ended(v)' <=> Deletion!Ended(v)
  BY <1>2 DEF Deletion!Owned, Deletion!Purges, Deletion!Transfers, Deletion!Ended
<1>4. Gone'
  BY <1>2 DEF Gone
<1>5. Surveyed'
  <2>1. request.pc = "role" => Deletion!Transfers \subseteq Workspaces
    BY RequestFields DEF Deletion!Transfers, Deletion!Request
  <2> QED BY <1>1, <1>2, <1>3, <2>1 DEF Surveyed
<1>6. HeirsAreMembers'
  <2> SUFFICES ASSUME request.pc \in {"survey", "cancel", "owner_id", "role"}, ~troubled',
                      NEW v \in request.survey, NEW h \in heir[v]
               PROVE  roles'[v][h] # "none"
    BY <1>2 DEF HeirsAreMembers
  <2>1. ~troubled /\ w \notin request.survey
    BY DEF Deletion!Join, Deletion!Leave, Deletion!Race
  <2>2. v \in Workspaces
    BY RequestFields DEF Deletion!Request
  <2> QED BY <2>1, <2>2, TypeOthers DEF HeirsAreMembers
<1> QED BY <1>1, <1>4, <1>5, <1>6

(* What is on file does not matter before it is read.                      *)
LEMMA FilesSteps ==
  ASSUME Surveyed, Gone, HeirsAreMembers, Handing, Erased, NEW w \in Workspaces, Deletion!Files(w)
  PROVE  Surveyed' /\ Gone' /\ HeirsAreMembers' /\ Handing' /\ Erased'
<1>1. UNCHANGED <<roles, owner, charged, user, request, found, heir, troubled>>
  BY DEF Deletion!Files
<1> QED BY <1>1 DEF Surveyed, Gone, HeirsAreMembers, Handing, Erased, Owners, Deletion!Ended, Deletion!Owned, Deletion!Purges, Deletion!Transfers

LEMMA StepsStep ==
  ASSUME Deletion!TypeOK, Gone, Surveyed, HeirsAreMembers, Handing, Erased, Deletion!Next
  PROVE  Surveyed' /\ Gone' /\ HeirsAreMembers'
BY DeletionCardSteps, FindSteps, SurveySteps, AdvanceSteps, WriteSteps, OtherSteps, FilesSteps DEF Deletion!Next

-----------------------------------------------------------------------------
(* Owners.                                                                 *)

LEMMA OwnersStep ==
  ASSUME Deletion!TypeOK, Gone, Surveyed, HeirsAreMembers, Handing, Erased, Deletion!Next
  PROVE  Handing' /\ Erased'
<1>1. ASSUME \A w \in Workspaces : Owners(w)' = Owners(w), owner' = owner, troubled => troubled',
             \A w \in Workspaces : owner[w] = {} /\ Deletion!Ended(w) => Deletion!Ended(w)',
             request.pc = "role" => troubled' \/ request' = request
      PROVE  Handing' /\ Erased'
  BY <1>1 DEF Handing, Erased
<1>0. UNCHANGED <<charged, found>> => \A w : Deletion!Ended(w) => Deletion!Ended(w)'
  BY DEF Deletion!Ended
<1>2. CASE Deletion!Open \/ (\E x \in {"none", "wrong", "right"} : Deletion!TypePassword(x)) \/ Deletion!Close \/ Deletion!Submit \/ Deletion!Answer
           \/ Deletion!FindOwned \/ (\E w \in Workspaces : Deletion!Survey(w)) \/ Deletion!Advance \/ Deletion!Breaks
  <2>1. roles' = roles /\ owner' = owner /\ (troubled => troubled')
    <3>1. roles' = roles /\ owner' = owner
      BY <1>2 DEF Deletion!Open, Deletion!TypePassword, Deletion!Close, Deletion!Submit, Deletion!Answer, Deletion!FindOwned, Deletion!Survey, Deletion!Advance, Deletion!Breaks, Deletion!database
    <3>2. troubled => troubled'
      <4>1. CASE Deletion!Breaks
        BY <4>1, Zenon DEF Deletion!Breaks
      <4>2. CASE ~Deletion!Breaks
        BY <1>2, <4>2 DEF Deletion!Open, Deletion!TypePassword, Deletion!Close, Deletion!Submit, Deletion!Answer, Deletion!FindOwned, Deletion!Survey, Deletion!Advance
      <4> QED BY <4>1, <4>2
    <3> QED BY <3>1, <3>2
  <2>3. \A w \in Workspaces : owner[w] = {} /\ Deletion!Ended(w) => Deletion!Ended(w)'
    <3>1. CASE Deletion!FindOwned
      <4>1. charged' = charged /\ found' = [w \in Workspaces |-> IF w \in Deletion!Owned THEN "unread" ELSE found[w]]
        BY <3>1 DEF Deletion!FindOwned, Deletion!database
      <4>2. \A w \in Workspaces : owner[w] = {} => found'[w] = found[w]
        BY <4>1 DEF Deletion!Owned
      <4> QED BY <4>1, <4>2 DEF Deletion!Ended
    <3>2. CASE ~Deletion!FindOwned
      <4>1. UNCHANGED <<charged, found>>
        BY <1>2, <3>2 DEF Deletion!Open, Deletion!TypePassword, Deletion!Close, Deletion!Submit, Deletion!Answer, Deletion!Survey, Deletion!Advance, Deletion!Breaks, Deletion!database
      <4> QED BY <1>0, <4>1
    <3> QED BY <3>1, <3>2
  <2>2. request.pc = "role" => troubled' \/ request' = request
    <3> SUFFICES ASSUME request.pc = "role" PROVE troubled' \/ request' = request
      OBVIOUS
    <3>1. CASE Deletion!Breaks
      BY <3>1, Zenon DEF Deletion!Breaks
    <3>2. CASE Deletion!Submit \/ Deletion!Answer \/ Deletion!FindOwned \/ (\E w \in Workspaces : Deletion!Survey(w)) \/ Deletion!Advance
      BY <3>2 DEF Deletion!Submit, Deletion!IsPending, Deletion!Idle, Deletion!Answer, Deletion!FindOwned, Deletion!Survey, Deletion!Advance
    <3>3. CASE Deletion!Open \/ (\E x \in {"none", "wrong", "right"} : Deletion!TypePassword(x)) \/ Deletion!Close
      BY <3>3 DEF Deletion!Open, Deletion!TypePassword, Deletion!Close
    <3> QED BY <1>2, <3>1, <3>2, <3>3
  <2> QED BY <1>1, <2>1, <2>2, <2>3 DEF Owners
<1>3. ASSUME NEW p \in Others, NEW w \in Workspaces, Deletion!Join(p, w) \/ Deletion!Leave(p, w) PROVE Handing' /\ Erased'
  <2>1. owner' = owner /\ UNCHANGED <<charged, found>> /\ request' = request
    BY <1>3, TypeOthers
  <2>2. troubled => troubled'
    BY <1>3 DEF Deletion!Join, Deletion!Leave, Deletion!Race
  <2> QED BY <1>0, <1>1, <1>3, <2>1, <2>2, OtherSteps
<1>4. ASSUME NEW w \in Workspaces, Deletion!ReadSubscription(w) \/ Deletion!CancelSubscription(w) PROVE Handing' /\ Erased'
  <2>1. roles' = roles /\ owner' = owner /\ troubled' = troubled /\ request.pc = "cancel" /\ w \in request.left
    BY <1>4 DEF Deletion!ReadSubscription, Deletion!CancelSubscription, Deletion!database
  <2>2. owner[w] # {}
    BY <2>1 DEF Surveyed, Deletion!Purges, Deletion!Owned
  <2>3. \A v \in Workspaces : v # w => found'[v] = found[v] /\ charged'[v] = charged[v]
    BY <1>4 DEF Deletion!ReadSubscription, Deletion!CancelSubscription, Deletion!database, Deletion!TypeOK
  <2>4. \A v \in Workspaces : owner[v] = {} /\ Deletion!Ended(v) => Deletion!Ended(v)'
    BY <2>2, <2>3 DEF Deletion!Ended
  <2> QED BY <1>1, <2>1, <2>4 DEF Owners
<1>5. ASSUME NEW w \in Workspaces, Deletion!SetOwnerId(w) PROVE Handing' /\ Erased'
  <2>1. request \in Deletion!Request /\ request.pc = "owner_id" /\ w \in request.left
    BY <1>5, RequestFields DEF Deletion!SetOwnerId
  <2>2. w \in Deletion!Transfers /\ owner[w] = {Me}
    BY <2>1 DEF Surveyed, Deletion!Owned
  <2>3. request'.pc = "role" /\ request'.left = {w} /\ roles' = roles /\ UNCHANGED <<charged, found>> /\ troubled' = troubled
    BY <1>5, <2>1 DEF Deletion!SetOwnerId, Deletion!Request
  <2>4. owner'[w] = heir[w] /\ \A v \in Workspaces : v # w => owner'[v] = owner[v]
    BY <1>5, <2>2 DEF Deletion!SetOwnerId, Deletion!TypeOK
  <2>5. heir[w] # {} /\ heir[w] # {Me}
    BY <2>2, HeirFields DEF Deletion!Transfers
  <2>6. \A v \in Workspaces : Owners(v)' = Owners(v)
    BY <2>3 DEF Owners
  <2>7. Handing'
    BY <2>1, <2>3, <2>4, <2>5, <2>6 DEF Handing
  <2> QED BY <1>0, <2>3, <2>4, <2>5, <2>7 DEF Erased
<1>6. ASSUME NEW w \in Workspaces, Deletion!SetRole(w) PROVE Handing' /\ Erased'
  <2>1. request \in Deletion!Request /\ request.pc = "role" /\ w \in request.left
    BY <1>6, RequestFields DEF Deletion!SetRole
  <2>2. request.left = {w} /\ w \in request.survey /\ heir[w] # {} /\ owner[w] = heir[w] /\ Owners(w) = {Me}
    BY <2>1 DEF Surveyed, Deletion!Transfers
  <2>3. owner' = owner /\ UNCHANGED <<charged, found>> /\ troubled' = troubled
    BY <1>6 DEF Deletion!SetRole
  <2>4. /\ roles'[w] = [p \in Deletion!People |-> IF {p} = heir[w] /\ roles[w][p] # "none" THEN "owner" ELSE roles[w][p]]
        /\ \A v \in Workspaces : v # w => roles'[v] = roles[v]
    BY <1>6 DEF Deletion!SetRole, Deletion!TypeOK
  <2>5. \A v \in Workspaces : v # w => Owners(v)' = Owners(v)
    BY <2>4 DEF Owners
  <2>6. owner[w] # {Me} /\ owner[w] # {}
    BY <2>2, HeirFields
  <2>7. ~troubled => Owners(w)' \ {Me} = owner[w]
    <3> SUFFICES ASSUME ~troubled PROVE Owners(w)' \ {Me} = owner[w]
      OBVIOUS
    <3>1. PICK h : heir[w] = {h} /\ h \in Deletion!People /\ h # Me
      BY <2>2, HeirFields DEF Deletion!Maybe, Deletion!TypeOK
    <3>2. roles[w][h] # "none"
      BY <2>1, <2>2, <3>1 DEF HeirsAreMembers
    <3>3. \A p \in Deletion!People : roles'[w][p] = "owner" <=> p \in {Me, h}
      <4>1. \A p \in Deletion!People : {p} = heir[w] <=> p = h
        BY <3>1
      <4>2. \A p \in Deletion!People : roles[w][p] = "owner" <=> p = Me
        BY <2>2 DEF Owners, Deletion!People
      <4> QED BY <2>4, <3>2, <4>1, <4>2
    <3> QED BY <2>2, <3>1, <3>3 DEF Owners, Deletion!People
  <2>8. Handing'
    <3> SUFFICES ASSUME NEW v \in Workspaces
                 PROVE  /\ owner[v] = {Me} => Owners(v)' = {Me}
                        /\ owner[v] \in {{}, {Me}} \/ troubled \/ Owners(v)' \ {Me} = owner[v]
      BY <2>3 DEF Handing
    <3>1. CASE v = w
      BY <2>6, <2>7, <3>1
    <3>2. CASE v # w
      BY <2>2, <2>5, <3>2 DEF Handing
    <3> QED BY <3>1, <3>2
  <2> QED BY <1>0, <2>3, <2>8 DEF Erased
<1>7. ASSUME NEW w \in Workspaces, Deletion!Purge(w) PROVE Handing' /\ Erased'
  <2>1. request \in Deletion!Request /\ request.pc = "purge" /\ w \in request.left
    BY <1>7, RequestFields DEF Deletion!Purge
  <2>2. Deletion!Ended(w) /\ UNCHANGED <<charged, found>> /\ troubled' = troubled
    BY <1>7, <2>1 DEF Deletion!Purge, Surveyed
  <2>3. /\ owner'[w] = {}
        /\ \A v \in Workspaces : v # w => roles'[v] = roles[v] /\ owner'[v] = owner[v]
    BY <1>7 DEF Deletion!Purge, Deletion!TypeOK
  <2>4. \A v \in Workspaces : v # w => Owners(v)' = Owners(v)
    BY <2>3 DEF Owners
  <2>5. Handing'
    BY <2>1, <2>2, <2>3, <2>4 DEF Handing
  <2> QED BY <1>0, <2>2, <2>3, <2>5 DEF Erased
<1>8. CASE Deletion!DeleteUser
  <2>1. owner' = owner /\ UNCHANGED <<charged, found>> /\ troubled' = troubled /\ request.pc = "user"
    BY <1>8 DEF Deletion!DeleteUser
  <2>2. CASE Deletion!Owned # {}
    BY <1>0, <1>1, <1>8, <2>1, <2>2 DEF Deletion!DeleteUser, Owners
  <2>3. CASE Deletion!Owned = {}
    <3>1. \A w \in Workspaces : owner[w] # {Me}
      BY <2>3 DEF Deletion!Owned
    <3>2. roles' = [w \in Workspaces |-> [roles[w] EXCEPT ![Me] = "none"]]
      BY <1>8, <2>3 DEF Deletion!DeleteUser
    <3>3. \A w \in Workspaces : \A p \in Deletion!People :
            roles'[w][p] = "owner" <=> p # Me /\ roles[w][p] = "owner"
      BY <3>2 DEF Deletion!TypeOK
    <3>4. \A w \in Workspaces : Owners(w)' \ {Me} = Owners(w) \ {Me}
      BY <3>3 DEF Owners
    <3> QED BY <1>0, <2>1, <3>1, <3>4 DEF Handing, Erased
  <2> QED BY <2>2, <2>3
<1>9. ASSUME NEW w \in Workspaces, Deletion!Files(w) PROVE Handing' /\ Erased'
  BY <1>9, FilesSteps
<1> QED BY <1>2, <1>3, <1>4, <1>5, <1>6, <1>7, <1>8, <1>9 DEF Deletion!Next

-----------------------------------------------------------------------------
(* Deleting an account: the theorems.                                      *)

LEMMA DeletionInvStep == DeletionInv /\ [Deletion!Next]_(Deletion!vars) => DeletionInv'
<1> SUFFICES ASSUME DeletionInv, [Deletion!Next]_(Deletion!vars) PROVE DeletionInv'
  OBVIOUS
<1>1. CASE Deletion!Next
  BY <1>1, DeletionTypeStep, StepsStep, OwnersStep DEF DeletionInv
<1>2. CASE UNCHANGED Deletion!vars
  BY <1>2 DEF Deletion!vars, DeletionInv, Deletion!TypeOK, Surveyed, Gone, HeirsAreMembers, Handing, Erased, Owners, Deletion!Ended, Deletion!Owned, Deletion!Purges, Deletion!Transfers
<1> QED BY <1>1, <1>2

THEOREM DeletionInvariance == Deletion!Spec => []DeletionInv
<1>1. Deletion!Init => DeletionInv
  BY DeletionInvInit
<1>2. DeletionInv /\ [Deletion!Next]_(Deletion!vars) => DeletionInv'
  BY DeletionInvStep
<1> QED BY <1>1, <1>2, PTL DEF Deletion!Spec

(* The roles, the request and the card keep to their types, an erased      *)
(* workspace has no members, and a user who is gone owns nothing.          *)
THEOREM DeletionTypes == Deletion!Spec => []Deletion!TypeOK
<1>1. DeletionInv => Deletion!TypeOK
  BY DEF DeletionInv
<1> QED BY <1>1, DeletionInvariance, PTL

LEMMA HandedOverFollows == DeletionInv => Deletion!HandedOver
<1> SUFFICES ASSUME DeletionInv, ~user, ~troubled, NEW w \in Workspaces PROVE Owners(w) = owner[w]
  BY DEF Deletion!HandedOver, Owners
<1>1. roles[w][Me] = "none" /\ owner[w] # {Me}
  BY DEF DeletionInv, Deletion!TypeOK
<1>2. Me \notin Owners(w)
  BY <1>1 DEF Owners
<1>3. ~(request.pc = "role" /\ w \in request.left)
  BY RequestFields DEF DeletionInv, Gone
<1>4. CASE owner[w] = {}
  BY <1>4 DEF DeletionInv, Deletion!TypeOK, Owners
<1>5. CASE owner[w] # {}
  <2>1. Owners(w) \ {Me} = Owners(w)
    BY <1>2
  <2> QED BY <1>1, <1>3, <1>5, <2>1 DEF DeletionInv, Handing
<1> QED BY <1>4, <1>5

LEMMA BillingFollows == DeletionInv => Deletion!BillingEndsFirst
BY DEF DeletionInv, Surveyed, Erased, Deletion!BillingEndsFirst, Deletion!Owned

(* delete_account hands every workspace that it does not erase to one      *)
(* owner, however often it fails and is tried again, unless the survey     *)
(* went out of date or a handing over stopped half-way.                    *)
THEOREM WorkspacesHandedOver == Deletion!Spec => []Deletion!HandedOver
BY HandedOverFollows, DeletionInvariance, PTL

(* No workspace is erased, and none handed over, before the subscriptions  *)
(* on file for those to be erased have ended: the request that finds one   *)
(* that does not end breaks off with the account untouched.                *)
THEOREM BillingEndsBefore == Deletion!Spec => []Deletion!BillingEndsFirst
BY BillingFollows, DeletionInvariance, PTL

-----------------------------------------------------------------------------
(* Signing in: the inductive invariant.                                    *)

(* The requests for a mail that are at one of some steps.                  *)
At(pcs) == {c \in Asks : ask[c].pc \in pcs}

(* What is sent was recorded or let through; and what was counted before   *)
(* the limit was reached is sent, or about to be recorded and sent.        *)
Mails ==
  /\ mails + Cardinality(At({"send"})) <= rows + open
  /\ mails + Cardinality(At({"send"})) + Cardinality(At({"record"})) < MaxSends + open + Cardinality(Asks)

(* The view waits for one request at most.                                 *)
OneAwaited ==
  \A c, d \in Asks : {ask[c].for, ask[d].for} \subseteq SignIn!Awaited => c = d

(* The form knows where its visitor is going, and is there while it waits; *)
(* one that was left knows where its visitor was going.                    *)
Heading ==
  /\ screen \in SignIn!Views => screen = headed
  /\ screen \in {"form", "verify"} => next = headed
  /\ loading # "nothing" => screen \in {"form", "verify"}
  /\ orphan # SignIn!NoOrphan => orphan.next = orphan.headed

SignInInv == SignIn!TypeOK /\ Mails /\ OneAwaited /\ Heading

-----------------------------------------------------------------------------
(* Signing in: the requests for mails.                                     *)

LEMMA AtSize == ASSUME NEW pcs PROVE Cardinality(At(pcs)) \in Nat /\ Cardinality(At(pcs)) <= Cardinality(Asks)
BY Limits, FS_Subset, FS_CardinalityType DEF At

(* One of them goes on to another step.                                    *)
LEMMA AtStep ==
  ASSUME NEW CONSTANT pcs, NEW c \in Asks, NEW x, SignIn!TypeOK, ask' = [ask EXCEPT ![c] = x]
  PROVE  /\ Cardinality(At(pcs)) \in Nat
         /\ Cardinality(At(pcs)') \in Nat /\ Cardinality(At(pcs)') <= Cardinality(Asks)
         /\ ask[c].pc \in pcs /\ x.pc \in pcs => Cardinality(At(pcs)') = Cardinality(At(pcs))
         /\ ask[c].pc \in pcs /\ x.pc \notin pcs => Cardinality(At(pcs)') = Cardinality(At(pcs)) - 1
         /\ ask[c].pc \notin pcs /\ x.pc \in pcs => Cardinality(At(pcs)') = Cardinality(At(pcs)) + 1
         /\ ask[c].pc \notin pcs /\ x.pc \notin pcs => Cardinality(At(pcs)') = Cardinality(At(pcs))
<1>1. /\ IsFiniteSet(At(pcs)) /\ Cardinality(At(pcs)) \in Nat
      /\ IsFiniteSet(At(pcs)') /\ Cardinality(At(pcs)') \in Nat /\ Cardinality(At(pcs)') <= Cardinality(Asks)
  BY Limits, FS_Subset, FS_CardinalityType DEF At
<1>2. At(pcs)' = IF x.pc \in pcs THEN At(pcs) \cup {c} ELSE At(pcs) \ {c}
  BY DEF At, SignIn!TypeOK
<1>3. c \in At(pcs) <=> ask[c].pc \in pcs
  BY DEF At
<1>4. CASE x.pc \in pcs
  BY <1>1, <1>2, <1>3, <1>4, FS_AddElement
<1>5. CASE x.pc \notin pcs
  <2>1. CASE c \in At(pcs)
    BY <1>1, <1>2, <1>3, <1>5, <2>1, FS_RemoveElement
  <2>2. CASE c \notin At(pcs)
    <3>1. At(pcs)' = At(pcs)
      BY <1>2, <1>5, <2>2
    <3> QED BY <1>1, <1>3, <1>5, <2>2, <3>1
  <2> QED BY <2>1, <2>2
<1> QED BY <1>4, <1>5

LEMMA SignInInit == SignIn!Init => SignInInv
<1> SUFFICES ASSUME SignIn!Init PROVE SignInInv
  OBVIOUS
<1>1. SignIn!TypeOK
  <2>1. /\ ask \in [Asks -> SignIn!Ask \cup {SignIn!Idle}]
        /\ \A c \in Asks : ask[c].for \notin SignIn!Awaited
    BY DEF SignIn!Init, SignIn!Idle, SignIn!Awaited
  <2>2. 0 \in Nat /\ 0 \in 0 .. MaxAsks
    BY Limits
  <2> QED BY <2>1, <2>2 DEF SignIn!Init, SignIn!TypeOK, SignIn!Views, SignIn!Home
<1>2. \A pcs : "idle" \notin pcs => At(pcs) = {}
  BY DEF At, SignIn!Init, SignIn!Idle
<1>3. Cardinality(At({"send"})) = 0 /\ Cardinality(At({"record"})) = 0
  BY <1>2, FS_EmptySet
<1>4. Cardinality(Asks) \in Nat
  BY Limits, FS_CardinalityType
<1>5. Mails
  BY <1>3, <1>4, Limits DEF Mails, SignIn!Init
<1>6. OneAwaited /\ Heading
  BY DEF OneAwaited, Heading, SignIn!Init, SignIn!Idle, SignIn!Awaited, SignIn!Views, SignIn!Home
<1> QED BY <1>1, <1>5, <1>6 DEF SignInInv

LEMMA LimiterStays ==
  ASSUME SignInInv, mails' = mails, UNCHANGED SignIn!limiter
  PROVE  Mails' /\ OneAwaited'
BY DEF SignInInv, Mails, OneAwaited, At, SignIn!limiter

(* A new request.                                                          *)
LEMMA AskBegins ==
  ASSUME SignInInv, NEW c \in Asks, NEW f \in {"signup", "signin", "resend"}, SignIn!Wait(c, f),
         UNCHANGED <<mails, rows, open>>,
         f # "resend" => \A d \in Asks : ask[d].for \notin SignIn!Awaited
  PROVE  /\ Mails' /\ OneAwaited'
         /\ ask' \in [Asks -> SignIn!Ask \cup {SignIn!Idle}] /\ asked' = asked + 1 /\ asked' \in 1 .. MaxAsks
         /\ ask' = [ask EXCEPT ![c] = [pc |-> "count", for |-> f]] /\ ask[c] = SignIn!Idle
<1> DEFINE x == [pc |-> "count", for |-> f]
<1>0. x \in SignIn!Ask /\ x.pc = "count" /\ x.for = f
  BY DEF SignIn!Ask
<1>1. /\ ask[c] = SignIn!Idle /\ ask' = [ask EXCEPT ![c] = x] /\ asked' = asked + 1 /\ asked < MaxAsks
      /\ SignIn!TypeOK /\ asked \in Nat
  BY DEF SignIn!Wait, SignInInv, SignIn!TypeOK
<1> HIDE DEF x
<1>2. ask[c].pc = "idle"
  BY <1>1 DEF SignIn!Idle
<1>3. ASSUME NEW pcs \in SUBSET {"count", "record", "send"}
      PROVE  /\ "count" \notin pcs => Cardinality(At(pcs)') = Cardinality(At(pcs))
             /\ "count" \in pcs => Cardinality(At(pcs)') = Cardinality(At(pcs)) + 1
  BY <1>0, <1>1, <1>2, AtStep
<1>4. Mails'
  <2>1. /\ Cardinality(At({"send"}))' = Cardinality(At({"send"}))
        /\ Cardinality(At({"record"}))' = Cardinality(At({"record"}))
    BY <1>3
  <2> QED BY <2>1 DEF SignInInv, Mails
<1>5. OneAwaited'
  BY <1>0, <1>1 DEF SignInInv, OneAwaited, SignIn!Awaited, SignIn!TypeOK
<1>6. ask' \in [Asks -> SignIn!Ask \cup {SignIn!Idle}]
  BY <1>0, <1>1 DEF SignIn!TypeOK
<1>7. asked' \in 1 .. MaxAsks
  BY <1>1, Limits
<1> QED BY <1>1, <1>4, <1>5, <1>6, <1>7 DEF x

(* A request goes on with its mail, which is for the same.                 *)
LEMMA AskGoes ==
  ASSUME SignInInv, NEW c \in Asks, NEW pc \in {"record", "refused", "send"}, ask[c].pc \in {"count", "record"},
         ask' = [ask EXCEPT ![c] = [ask[c] EXCEPT !.pc = pc]]
  PROVE  /\ ask' \in [Asks -> SignIn!Ask \cup {SignIn!Idle}]
         /\ OneAwaited'
         /\ \A d \in Asks : ask'[d].for = ask[d].for
         /\ \A pcs \in SUBSET {"count", "record", "send"} :
              /\ Cardinality(At(pcs)) \in Nat /\ Cardinality(At(pcs)') \in Nat /\ Cardinality(At(pcs)') <= Cardinality(Asks)
              /\ ask[c].pc \in pcs /\ pc \in pcs => Cardinality(At(pcs)') = Cardinality(At(pcs))
              /\ ask[c].pc \in pcs /\ pc \notin pcs => Cardinality(At(pcs)') = Cardinality(At(pcs)) - 1
              /\ ask[c].pc \notin pcs /\ pc \in pcs => Cardinality(At(pcs)') = Cardinality(At(pcs)) + 1
              /\ ask[c].pc \notin pcs /\ pc \notin pcs => Cardinality(At(pcs)') = Cardinality(At(pcs))
<1> DEFINE x == [ask[c] EXCEPT !.pc = pc]
<1>1. SignIn!TypeOK /\ OneAwaited /\ ask \in [Asks -> SignIn!Ask \cup {SignIn!Idle}]
  BY DEF SignInInv, SignIn!TypeOK
<1>2. ask[c] \in SignIn!Ask
  BY <1>1 DEF SignIn!Idle
<1>3. x \in SignIn!Ask /\ x.pc = pc /\ x.for = ask[c].for
  BY <1>2 DEF SignIn!Ask
<1>4. ask' = [ask EXCEPT ![c] = x]
  OBVIOUS
<1> HIDE DEF x
<1>5. ask' \in [Asks -> SignIn!Ask \cup {SignIn!Idle}]
  BY <1>1, <1>3, <1>4
<1>6. \A d \in Asks : ask'[d].for = ask[d].for
  BY <1>1, <1>3, <1>4
<1>7. OneAwaited'
  BY <1>1, <1>6 DEF OneAwaited
<1>8. ASSUME NEW pcs \in SUBSET {"count", "record", "send"}
      PROVE  /\ Cardinality(At(pcs)) \in Nat /\ Cardinality(At(pcs)') \in Nat /\ Cardinality(At(pcs)') <= Cardinality(Asks)
             /\ ask[c].pc \in pcs /\ pc \in pcs => Cardinality(At(pcs)') = Cardinality(At(pcs))
             /\ ask[c].pc \in pcs /\ pc \notin pcs => Cardinality(At(pcs)') = Cardinality(At(pcs)) - 1
             /\ ask[c].pc \notin pcs /\ pc \in pcs => Cardinality(At(pcs)') = Cardinality(At(pcs)) + 1
             /\ ask[c].pc \notin pcs /\ pc \notin pcs => Cardinality(At(pcs)') = Cardinality(At(pcs))
  BY <1>1, <1>3, <1>4, AtStep
<1> QED BY <1>5, <1>6, <1>7, <1>8

(* The steps of the limit.                                                 *)
LEMMA LimiterStep ==
  ASSUME SignInInv, NEW c \in Asks, SignIn!Count(c) \/ SignIn!Record(c) \/ SignIn!AskFails(c)
  PROVE  SignInInv'
<1> DEFINE S == Cardinality(At({"send"}))
           R == Cardinality(At({"record"}))
           N == Cardinality(Asks)
<1>1. /\ SignIn!TypeOK /\ Heading /\ rows \in Nat /\ open \in Nat /\ mails \in Nat /\ asked \in Nat
      /\ UNCHANGED <<account, mails, asked, SignIn!view, headed, session>>
  BY Limits DEF SignInInv, SignIn!TypeOK, SignIn!Count, SignIn!Record, SignIn!AskFails
<1>2. /\ S \in Nat /\ R \in Nat /\ N \in Nat
      /\ mails + S <= rows + open /\ mails + S + R < MaxSends + open + N
  BY AtSize, Limits, FS_CardinalityType DEF SignInInv, Mails
<1>3. ASSUME Mails', rows' \in Nat, open' \in Nat, OneAwaited',
             ask' \in [Asks -> SignIn!Ask \cup {SignIn!Idle}], \A d \in Asks : ask'[d].for = ask[d].for
      PROVE  SignInInv'
  <2>1. SignIn!TypeOK'
    BY <1>1, <1>3 DEF SignIn!TypeOK, SignIn!view
  <2>2. Heading'
    BY <1>1 DEF Heading, SignIn!view
  <2> QED BY <1>3, <2>1, <2>2 DEF SignInInv
<1>4. CASE SignIn!Count(c)
  <2>1. ask[c].pc = "count" /\ UNCHANGED <<rows, open>>
    BY <1>4 DEF SignIn!Count
  <2>2. CASE rows < MaxSends
    <3>1. ask' = [ask EXCEPT ![c] = [ask[c] EXCEPT !.pc = "record"]]
      BY <1>4, <2>2 DEF SignIn!Count
    <3>2. S' = S /\ R' = R + 1 /\ R' <= N
      BY <2>1, <3>1, AskGoes
    <3>3. Mails'
      BY <1>1, <1>2, <2>1, <2>2, <3>2, Limits DEF Mails
    <3> QED BY <1>1, <1>3, <2>1, <3>1, <3>3, AskGoes
  <2>3. CASE ~(rows < MaxSends)
    <3>1. ask' = [ask EXCEPT ![c] = [ask[c] EXCEPT !.pc = "refused"]]
      BY <1>4, <2>3 DEF SignIn!Count
    <3>2. S' = S /\ R' = R
      BY <2>1, <3>1, AskGoes
    <3>3. Mails'
      BY <1>1, <1>2, <2>1, <3>2 DEF Mails
    <3> QED BY <1>1, <1>3, <2>1, <3>1, <3>3, AskGoes
  <2> QED BY <2>2, <2>3
<1>5. CASE SignIn!Record(c)
  <2>1. PICK n \in 1 .. InsertAttempts : rows' = rows + n
    BY <1>5 DEF SignIn!Record
  <2>2. /\ ask[c].pc = "record" /\ open' = open
        /\ ask' = [ask EXCEPT ![c] = [ask[c] EXCEPT !.pc = "send"]]
    BY <1>5 DEF SignIn!Record
  <2>3. S' = S + 1 /\ R' = R - 1
    BY <2>2, AskGoes
  <2>4. rows' \in Nat /\ rows' >= rows + 1
    BY <1>1, <2>1, InsertAttemptsAssumption
  <2> HIDE DEF S, R, N
  <2>5. mails' + S' <= rows' + open' /\ mails' + S' + R' < MaxSends + open' + N
    BY <1>1, <1>2, <2>2, <2>3, <2>4, Limits
  <2>6. Mails'
    BY <2>5 DEF Mails, S, R, N
  <2> QED BY <1>1, <1>3, <2>2, <2>4, <2>6, AskGoes
<1>6. CASE SignIn!AskFails(c)
  <2>1. PICK n \in 0 .. InsertAttempts : rows' = rows + n
    BY <1>6 DEF SignIn!AskFails
  <2>2. /\ ask[c].pc \in {"count", "record"} /\ open' = open + 1
        /\ ask' = [ask EXCEPT ![c] = [ask[c] EXCEPT !.pc = "send"]]
    BY <1>6 DEF SignIn!AskFails
  <2>3. S' = S + 1 /\ R' \in {R, R - 1}
    BY <2>2, AskGoes
  <2>4. rows' \in Nat /\ rows' >= rows
    BY <1>1, <2>1, InsertAttemptsAssumption
  <2> HIDE DEF S, R, N
  <2>5. mails' + S' <= rows' + open' /\ mails' + S' + R' < MaxSends + open' + N
    BY <1>1, <1>2, <2>2, <2>3, <2>4, Limits
  <2>6. Mails'
    BY <2>5 DEF Mails, S, R, N
  <2>7. /\ ask' \in [Asks -> SignIn!Ask \cup {SignIn!Idle}] /\ OneAwaited'
        /\ \A d \in Asks : ask'[d].for = ask[d].for
    BY <2>2, AskGoes
  <2>8. open' \in Nat
    BY <1>1, <2>2
  <2> QED BY <1>3, <2>4, <2>6, <2>7, <2>8
<1> QED BY <1>4, <1>5, <1>6

(* A request is answered: the view waits no more, unless for another one.  *)
LEMMA AskEnds ==
  ASSUME SignInInv, NEW c \in Asks, SignIn!Send(c) \/ SignIn!NoMail(c)
  PROVE  SignInInv'
<1>1. /\ SignIn!TypeOK /\ Mails /\ OneAwaited /\ Heading
      /\ rows \in Nat /\ open \in Nat /\ mails \in Nat /\ asked \in Nat
      /\ ask[c].pc \in {"refused", "send"} /\ ask' = [ask EXCEPT ![c] = SignIn!Idle]
      /\ loading' = IF ask[c].for \in SignIn!Awaited THEN "nothing" ELSE loading
      /\ UNCHANGED <<rows, open, asked, mode, next, headed, orphan, session>>
  BY Limits DEF SignInInv, SignIn!TypeOK, SignIn!Send, SignIn!NoMail, SignIn!Finish
<1>2. ask[c] \in SignIn!Ask
  BY <1>1 DEF SignIn!TypeOK, SignIn!Idle
<1>3. /\ ask' \in [Asks -> SignIn!Ask \cup {SignIn!Idle}]
      /\ \A d \in Asks : ask'[d].for = IF d = c THEN "nothing" ELSE ask[d].for
  BY <1>1 DEF SignIn!TypeOK, SignIn!Idle
<1>4. OneAwaited'
  BY <1>1, <1>3 DEF OneAwaited, SignIn!Awaited
<1>5. Mails' /\ mails' \in Nat
  <2> DEFINE S == Cardinality(At({"send"}))
             R == Cardinality(At({"record"}))
  <2>1. /\ S \in Nat /\ R \in Nat /\ mails + S <= rows + open
        /\ mails + S + R < MaxSends + open + Cardinality(Asks) /\ Cardinality(Asks) \in Nat
    BY <1>1, AtSize, Limits, FS_CardinalityType DEF Mails
  <2>2. SignIn!Idle.pc = "idle"
    BY DEF SignIn!Idle
  <2>3. R' = R
    BY <1>1, <2>2, AtStep
  <2>4. /\ ask[c].pc = "send" => S' = S - 1 /\ mails' \in {mails, mails + 1}
        /\ ask[c].pc = "refused" => S' = S /\ mails' = mails
    BY <1>1, <2>2, AtStep DEF SignIn!Send, SignIn!NoMail
  <2> HIDE DEF S, R
  <2>5. /\ mails' \in Nat
        /\ mails' + S' <= rows' + open' /\ mails' + S' + R' < MaxSends + open' + Cardinality(Asks)
    BY <1>1, <2>1, <2>3, <2>4, Limits
  <2> QED BY <2>5 DEF Mails, S, R
<1>6. /\ loading' \in {"nothing", "signin", "mail", "code"}
      /\ loading' = "mail" <=> \E d \in Asks : ask'[d].for \in SignIn!Awaited
  <2>1. CASE ask[c].for \notin SignIn!Awaited
    BY <1>1, <1>3, <2>1 DEF SignIn!TypeOK, SignIn!Awaited
  <2>2. CASE ask[c].for \in SignIn!Awaited
    <3>1. \A d \in Asks : ask'[d].for \notin SignIn!Awaited
      BY <1>1, <1>3, <2>2 DEF OneAwaited, SignIn!Awaited
    <3> QED BY <1>1, <2>2, <3>1
  <2> QED BY <2>1, <2>2
<1>7. /\ account' \in {"none", "unconfirmed", "confirmed"}
      /\ account = "confirmed" => account' = "confirmed"
      /\ screen' \in {screen, "verify"}
      /\ screen' # screen => ask[c].for = "signup"
  BY <1>1 DEF SignIn!Send, SignIn!NoMail, SignIn!TypeOK
<1>8. "verify" \notin SignIn!Views
  BY DEF SignIn!Views, SignIn!Home
<1>9. SignIn!TypeOK'
  BY <1>1, <1>3, <1>5, <1>6, <1>7, <1>8 DEF SignIn!TypeOK
<1>10. Heading'
  <2>1. screen' # screen => loading = "mail"
    BY <1>1, <1>7 DEF SignIn!TypeOK, SignIn!Awaited
  <2> QED BY <1>1, <1>7, <1>8, <2>1 DEF Heading
<1> QED BY <1>4, <1>5, <1>9, <1>10 DEF SignInInv

(* A request that the view begins.                                         *)
LEMMA AskStep ==
  ASSUME SignInInv, NEW c \in Asks, SignIn!SignUp(c) \/ SignIn!NotConfirmed(c) \/ SignIn!Resend(c) \/ SignIn!OrphanNotConfirmed(c)
  PROVE  SignInInv'
<1>1. /\ SignIn!TypeOK /\ Heading
      /\ UNCHANGED <<account, mails, rows, open, mode, next, headed, session>>
  BY DEF SignInInv, SignIn!SignUp, SignIn!NotConfirmed, SignIn!Resend, SignIn!OrphanNotConfirmed, SignIn!view
<1>2. loading # "mail" => \A d \in Asks : ask[d].for \notin SignIn!Awaited
  BY <1>1 DEF SignIn!TypeOK
<1>3. PICK f \in {"signup", "signin", "resend"} :
        /\ SignIn!Wait(c, f)
        /\ f # "resend" => loading \in {"nothing", "signin"} /\ loading' = "mail"
        /\ f = "resend" => loading' = loading
  BY DEF SignIn!SignUp, SignIn!NotConfirmed, SignIn!Resend, SignIn!OrphanNotConfirmed, SignIn!view
<1>4. /\ Mails' /\ OneAwaited'
      /\ ask' \in [Asks -> SignIn!Ask \cup {SignIn!Idle}] /\ asked' = asked + 1 /\ asked' \in 1 .. MaxAsks
      /\ ask' = [ask EXCEPT ![c] = [pc |-> "count", for |-> f]] /\ ask[c] = SignIn!Idle
  BY <1>1, <1>2, <1>3, AskBegins
<1>5. \A d \in Asks : ask'[d].for = IF d = c THEN f ELSE ask[d].for
  BY <1>1, <1>4 DEF SignIn!TypeOK
<1>6. ask[c].for = "nothing"
  BY <1>4 DEF SignIn!Idle
<1>7. /\ loading' \in {"nothing", "signin", "mail", "code"}
      /\ loading' = "mail" <=> \E d \in Asks : ask'[d].for \in SignIn!Awaited
  BY <1>1, <1>3, <1>5, <1>6 DEF SignIn!TypeOK, SignIn!Awaited
<1>8. asked' \in 0 .. MaxAsks /\ orphan' \in {orphan, SignIn!NoOrphan}
  BY <1>1, <1>4, Limits DEF SignIn!TypeOK, SignIn!SignUp, SignIn!NotConfirmed, SignIn!Resend, SignIn!OrphanNotConfirmed, SignIn!view
<1>9. "form" \notin SignIn!Views /\ "verify" \notin SignIn!Views
  BY DEF SignIn!Views, SignIn!Home
<1>10. screen' \in {screen, "verify"} /\ (screen' # screen => loading = "signin") /\ (f # "resend" => screen \in {"form", "verify"})
  BY <1>1, <1>3 DEF SignIn!SignUp, SignIn!NotConfirmed, SignIn!Resend, SignIn!OrphanNotConfirmed, SignIn!view, Heading
<1>11. SignIn!TypeOK'
  BY <1>1, <1>4, <1>7, <1>8, <1>9, <1>10 DEF SignIn!TypeOK
<1>12. Heading'
  BY <1>1, <1>3, <1>8, <1>9, <1>10 DEF Heading
<1> QED BY <1>4, <1>11, <1>12 DEF SignInInv

(* A view is left, and what it waits for goes on.                          *)
LEMMA LeftSteps == ASSUME SignInInv, SignIn!Leave \/ SignIn!OrphanSignsIn PROVE SignInInv'
<1>1. SignIn!TypeOK /\ Mails /\ Heading /\ UNCHANGED <<mails, rows, open, asked, mode, next>>
  BY DEF SignInInv, SignIn!Leave, SignIn!OrphanSignsIn
<1>2. PICK rest \in {orphan, SignIn!NoOrphan} : SignIn!Abandon(rest)
  BY DEF SignIn!Leave, SignIn!OrphanSignsIn
<1>3. ASSUME NEW c \in Asks
      PROVE  /\ ask'[c] \in SignIn!Ask \cup {SignIn!Idle} /\ ask'[c].pc = ask[c].pc
             /\ ask'[c].for \notin SignIn!Awaited
  <2>1. CASE ask[c] = SignIn!Idle
    BY <1>2, <2>1 DEF SignIn!Abandon, SignIn!Idle, SignIn!Awaited
  <2>2. CASE ask[c] \in SignIn!Ask
    BY <1>2, <2>2 DEF SignIn!Abandon, SignIn!Ask, SignIn!Awaited
  <2> QED BY <1>1, <2>1, <2>2 DEF SignIn!TypeOK
<1>4. ask' \in [Asks -> SignIn!Ask \cup {SignIn!Idle}]
  <2>1. ask' = [c \in Asks |-> ask'[c]]
    BY <1>2 DEF SignIn!Abandon
  <2> QED BY <1>3, <2>1
<1>5. \A pcs : At(pcs)' = At(pcs)
  BY <1>3 DEF At
<1>6. Mails'
  BY <1>1, <1>5 DEF Mails
<1>7. OneAwaited'
  BY <1>3 DEF OneAwaited
<1>8. loading' = "nothing" /\ ~ \E c \in Asks : ask'[c].for \in SignIn!Awaited
  BY <1>2, <1>3 DEF SignIn!Abandon
<1>9. /\ orphan' \in SignIn!Orphan \cup {SignIn!NoOrphan}
      /\ orphan' # SignIn!NoOrphan => orphan'.next = orphan'.headed
  <2>1. CASE loading \in {"signin", "code"}
    BY <1>1, <1>2, <2>1 DEF SignIn!Abandon, SignIn!Orphan, SignIn!TypeOK, Heading
  <2>2. CASE loading \notin {"signin", "code"}
    BY <1>1, <1>2, <2>2 DEF SignIn!Abandon, SignIn!TypeOK, Heading
  <2> QED BY <2>1, <2>2
<1>10. {"form", "verify", "away"} \cap SignIn!Views = {}
  BY DEF SignIn!Views, SignIn!Home
<1>11. CASE SignIn!Leave
  <2>1. screen' = "away" /\ UNCHANGED <<account, headed, session>>
    BY <1>11 DEF SignIn!Leave
  <2>2. SignIn!TypeOK'
    BY <1>1, <1>4, <1>8, <1>9, <1>10, <2>1 DEF SignIn!TypeOK
  <2>3. Heading'
    BY <1>8, <1>9, <1>10, <2>1 DEF Heading
  <2> QED BY <1>6, <1>7, <2>2, <2>3 DEF SignInInv
<1>12. CASE SignIn!OrphanSignsIn
  <2>1. orphan \in SignIn!Orphan /\ orphan # SignIn!NoOrphan
    BY <1>1, <1>12 DEF SignIn!OrphanSignsIn, SignIn!TypeOK, SignIn!NoOrphan, SignIn!Orphan
  <2>2. screen' = orphan.next /\ headed' = orphan.headed /\ session' = TRUE /\ account' = "confirmed"
    BY <1>12 DEF SignIn!OrphanSignsIn
  <2>3. screen' \in SignIn!Views /\ headed' = screen'
    BY <1>1, <2>1, <2>2 DEF SignIn!Orphan, Heading
  <2>4. SignIn!TypeOK'
    BY <1>1, <1>4, <1>8, <1>9, <2>2, <2>3 DEF SignIn!TypeOK
  <2>5. Heading'
    BY <1>8, <1>9, <1>10, <2>3 DEF Heading
  <2> QED BY <1>6, <1>7, <2>4, <2>5 DEF SignInInv
<1> QED BY <1>11, <1>12

(* The rest of the view.                                                   *)
ViewSteps ==
  \/ \E p \in SignIn!Views : SignIn!Visit(p)
  \/ \E link \in SignIn!Links, m \in {"signin", "signup"} : SignIn!OpenLogin(link, m)
  \/ SignIn!OrphanEnds \/ SignIn!SignOut \/ SignIn!Expire
  \/ SignIn!SignIn \/ SignIn!SignedIn \/ SignIn!Refused \/ SignIn!SwitchMode
  \/ SignIn!Verify \/ SignIn!Verified \/ SignIn!ConfirmedElsewhere

LEMMA ViewStep == ASSUME SignInInv, ViewSteps PROVE SignInInv'
<1>1. SignIn!TypeOK /\ Heading
  BY DEF SignInInv
<1>2. /\ {"form", "verify", "away"} \cap SignIn!Views = {} /\ SignIn!Home \in SignIn!Views
      /\ \A link \in SignIn!Links : SignIn!SafeNext(link) \in SignIn!Views
      /\ \A p \in SignIn!Views : SignIn!SafeNext(p) = p
  BY DEF SignIn!Views, SignIn!Home, SignIn!SafeNext
<1>3. /\ UNCHANGED <<mails, SignIn!limiter>>
      /\ account' \in {"none", "unconfirmed", "confirmed"}
      /\ loading' = "mail" <=> loading = "mail"
  BY <1>1 DEF ViewSteps, SignIn!Visit, SignIn!OpenLogin, SignIn!OrphanEnds, SignIn!SignOut, SignIn!Expire, SignIn!SignIn,
              SignIn!SignedIn, SignIn!Refused, SignIn!SwitchMode, SignIn!Verify, SignIn!Verified,
              SignIn!ConfirmedElsewhere, SignIn!view, SignIn!TypeOK
<1>4. Mails' /\ OneAwaited'
  BY <1>3, LimiterStays
<1>5. ASSUME account = "confirmed" => account' = "confirmed",
             /\ screen' \in SignIn!Views \cup {"form", "verify", "away"} /\ mode' \in {"signin", "signup"}
             /\ next' \in SignIn!Views /\ headed' \in SignIn!Views
             /\ loading' \in {"nothing", "signin", "mail", "code"} /\ session' \in BOOLEAN,
             orphan' \in SignIn!Orphan \cup {SignIn!NoOrphan},
             session' => account' = "confirmed", screen' \in SignIn!Views => session', Heading'
      PROVE  SignInInv'
  <2>1. SignIn!TypeOK'
    BY <1>1, <1>3, <1>5 DEF SignIn!TypeOK, SignIn!limiter
  <2> QED BY <1>4, <1>5, <2>1 DEF SignInInv
<1>6. CASE (\E p \in SignIn!Views : SignIn!Visit(p)) \/ (\E link \in SignIn!Links, m \in {"signin", "signup"} : SignIn!OpenLogin(link, m))
  BY <1>1, <1>2, <1>5, <1>6 DEF SignIn!Visit, SignIn!OpenLogin, SignIn!TypeOK, Heading
<1>7. CASE SignIn!OrphanEnds \/ SignIn!SignOut \/ SignIn!Expire
  BY <1>1, <1>2, <1>5, <1>7 DEF SignIn!OrphanEnds, SignIn!SignOut, SignIn!Expire, SignIn!TypeOK, Heading
<1>8. CASE SignIn!SignIn \/ SignIn!Refused \/ SignIn!SwitchMode \/ SignIn!Verify \/ SignIn!ConfirmedElsewhere
  BY <1>1, <1>2, <1>5, <1>8 DEF SignIn!SignIn, SignIn!Refused, SignIn!SwitchMode, SignIn!Verify,
                                SignIn!ConfirmedElsewhere, SignIn!view, SignIn!TypeOK, Heading
<1>9. CASE SignIn!SignedIn \/ SignIn!Verified
  BY <1>1, <1>2, <1>5, <1>9 DEF SignIn!SignedIn, SignIn!Verified, SignIn!Push, SignIn!TypeOK, Heading
<1> QED BY <1>6, <1>7, <1>8, <1>9 DEF ViewSteps

-----------------------------------------------------------------------------
(* Signing in: the theorems.                                               *)

LEMMA SignInStep == SignInInv /\ [SignIn!Next]_(SignIn!vars) => SignInInv'
<1> SUFFICES ASSUME SignInInv, [SignIn!Next]_(SignIn!vars) PROVE SignInInv'
  OBVIOUS
<1>1. CASE SignIn!Next
  BY <1>1, LimiterStep, AskEnds, AskStep, ViewStep, LeftSteps DEF SignIn!Next, ViewSteps
<1>2. CASE UNCHANGED SignIn!vars
  BY <1>2 DEF SignIn!vars, SignInInv, SignIn!TypeOK, Mails, OneAwaited, Heading, At
<1> QED BY <1>1, <1>2

LEMMA MailsFollow == SignInInv => SignIn!MailsBounded
<1> SUFFICES ASSUME SignInInv PROVE SignIn!MailsBounded
  OBVIOUS
<1>1. /\ SignIn!TypeOK /\ Mails
      /\ Cardinality(At({"send"})) \in Nat /\ Cardinality(At({"record"})) \in Nat /\ Cardinality(Asks) \in Nat
  BY AtSize, Limits, FS_CardinalityType DEF SignInInv
<1>2. mails \in Nat /\ rows \in Nat /\ open \in Nat /\ MaxSends \in Nat
  BY <1>1, Limits DEF SignIn!TypeOK
<1> QED BY <1>1, <1>2, SameCardinality DEF Mails, SignIn!MailsBounded

(* The account, the mails, the requests for them and the form keep to      *)
(* their types, and no page behind the sign-in is shown without a session. *)
THEOREM SignInTypes == SignIn!Spec => []SignIn!TypeOK
<1>1. SignInInv => SignIn!TypeOK
  BY DEF SignInInv
<1> QED BY <1>1, SignInInit, SignInStep, PTL DEF SignIn!Spec

(* The endpoint counts before it records, so an address gets no more mails *)
(* than its limit, those sent while it could not be told, and one for each *)
(* further request counted at the same time.                               *)
THEOREM MailsAreBounded == SignIn!Spec => []SignIn!MailsBounded
BY SignInInit, SignInStep, MailsFollow, PTL DEF SignIn!Spec

(* ?next= survives every way through the form, leaving it while it waits   *)
(* included: the page shown after a sign-in is the one that the visitor    *)
(* was on the way to when they opened the view that signed them in.        *)
THEOREM VisitorsArrive == SignIn!Spec => []SignIn!ArrivesWhereHeaded
<1>1. SignInInv => SignIn!ArrivesWhereHeaded
  BY DEF SignInInv, Heading, SignIn!ArrivesWhereHeaded
<1> QED BY <1>1, SignInInit, SignInStep, PTL DEF SignIn!Spec

-----------------------------------------------------------------------------
(* The browser: the inductive invariant.                                   *)

(* The request for a workspace that the page waits for.                    *)
Creating == create # Browser!Idle /\ create.from # "gone"

(* A workspace has no row before its request inserts one, and a page that  *)
(* was left waits for none.                                                *)
Inserts ==
  /\ create.pc = "insert" => made[create.ws] = "none"
  /\ Creating => page
  /\ list.flight = "read" <=> list.got # {}

(* The lists are of the user signed in, each within the next one.          *)
OwnLists ==
  /\ cookie # {}
  /\ \A l \in list.data \cup list.got : l.user \in cookie /\ l.has \subseteq belongs[l.user]
  /\ \A l \in list.data, g \in list.got : l.has \subseteq g.has

(* The workspace chosen is on the list.                                    *)
Listed ==
  /\ chosen # {} => list.data # {}
  /\ \A l \in list.data : chosen \subseteq l.has /\ (chosen = {} => l.has = {})

(* The workspace made is the user's once it has a member, and the list     *)
(* that the switcher waits for will have it.                               *)
Awaited ==
  Creating =>
    /\ create.by \in cookie
    /\ create.pc \in {"policy", "answered", "refetching"} => create.ws \in belongs[create.by]
    /\ create.pc = "refetching" =>
         /\ list.data # {}
         /\ list.flight = "none" => \A l \in list.data : create.ws \in l.has
         /\ \A l \in list.got : create.ws \in l.has

Untroubled == OwnLists /\ Listed /\ Awaited

BrowserInv == Browser!TypeOK /\ Inserts /\ (page /\ ~astray => Untroubled)

-----------------------------------------------------------------------------
(* The browser: its lists, and the sets of at most one element.            *)

LEMMA FewOnes ==
  /\ {} \in Browser!Maybe(SessionUsers) /\ {} \in Browser!Maybe(Workspaces)
  /\ \A u \in SessionUsers : {u} \in Browser!Maybe(SessionUsers)
  /\ \A w \in Workspaces : {w} \in Browser!Maybe(Workspaces)
BY DEF Browser!Maybe

LEMMA BrowserLists ==
  ASSUME NEW e \in Browser!Entry(Browser!Lists)
  PROVE  /\ Browser!Send(e) \in Browser!Entry(Browser!Lists)
         /\ Browser!Invalidate(e, TRUE) \in Browser!Entry(Browser!Lists)
         /\ Browser!Landed(e) \in Browser!Entry(Browser!Lists)
         /\ Browser!Failed(e) \in Browser!Entry(Browser!Lists)
         /\ \A a \in Browser!Lists : Browser!Read(e, a) \in Browser!Entry(Browser!Lists)
<1>1. {} \in Browser!Maybe(Browser!Lists) /\ \A a \in Browser!Lists : {a} \in Browser!Maybe(Browser!Lists)
  BY DEF Browser!Maybe
<1> QED BY <1>1 DEF Browser!Entry, Browser!Send, Browser!Invalidate,
             Browser!Read, Browser!Landed, Browser!Failed

(* What becomes of the fields of a list.                                   *)
LEMMA ListFields ==
  ASSUME NEW e \in Browser!Entry(Browser!Lists), NEW a
  PROVE  /\ Browser!Send(e).data = e.data /\ Browser!Send(e).flight = "sent" /\ Browser!Send(e).got = {}
         /\ Browser!Invalidate(e, TRUE).data = e.data
         /\ \/ Browser!Invalidate(e, TRUE).flight = "sent" /\ Browser!Invalidate(e, TRUE).got = {}
            \/ /\ Browser!Invalidate(e, TRUE).flight = e.flight /\ Browser!Invalidate(e, TRUE).got = e.got
               /\ e.data = {} /\ e.flight # "none"
         /\ Browser!Read(e, a).data = e.data /\ Browser!Read(e, a).flight = "read" /\ Browser!Read(e, a).got = {a}
         /\ Browser!Landed(e).data = e.got /\ Browser!Landed(e).flight = "none" /\ Browser!Landed(e).got = {}
         /\ Browser!Failed(e).data = e.data /\ Browser!Failed(e).flight = "none" /\ Browser!Failed(e).got = {}
BY DEF Browser!Entry, Browser!Send, Browser!Invalidate, Browser!Read, Browser!Landed, Browser!Failed

LEMMA CreateFields ==
  ASSUME Browser!TypeOK
  PROVE  /\ create # Browser!Idle <=> create \in Browser!Create
         /\ create.pc # "idle" => create \in Browser!Create
<1>1. \A c \in Browser!Create : c # Browser!Idle
  <2>1. \A c \in Browser!Create : c.pc # "idle"
    BY DEF Browser!Create
  <2> QED BY <2>1 DEF Browser!Idle
<1>2. create \in {Browser!Idle} \cup Browser!Create
  BY DEF Browser!TypeOK
<1> QED BY <1>1, <1>2 DEF Browser!Idle

(* What the menu may be, as the first run comes and goes.                  *)
MenuFits(p, l, m) == m \in {"closed"} \cup IF p /\ Browser!FirstRunOf(l) THEN {"joining"} ELSE {"open", "naming"}

LEMMA MenuBecomes ==
  ASSUME MenuFits(page, list, menu), NEW l, Browser!ListBecomes(l)
  PROVE  list' = l /\ MenuFits(page, list', menu') /\ menu' \in {menu, "closed"}
<1>1. list' = l /\ (menu' = "closed" \/ (menu' = menu /\ Browser!FirstRunOf(l) = Browser!FirstRunOf(list)))
  BY DEF Browser!ListBecomes
<1>2. (\A e : Browser!FirstRunOf(e) \in BOOLEAN)
  BY DEF Browser!FirstRunOf
<1> QED BY <1>1, <1>2 DEF MenuFits

(* The types, but for the menu.                                            *)
Types ==
  /\ belongs \in [SessionUsers -> SUBSET Workspaces]
  /\ made \in [Workspaces -> Browser!Rows]
  /\ cookie \in Browser!Maybe(SessionUsers)
  /\ stored \in Browser!Maybe(Workspaces)
  /\ page \in BOOLEAN
  /\ list \in Browser!Entry(Browser!Lists)
  /\ chosen \in Browser!Maybe(Workspaces)
  /\ create \in {Browser!Idle} \cup Browser!Create
  /\ astray \in BOOLEAN
  /\ changes \in 0 .. MaxChanges
  /\ \A u \in SessionUsers : \A w \in belongs[u] : made[w] \in {"member", "whole"}
  /\ ~page => list = Browser!NoEntry /\ chosen = {} /\ menu = "closed"

LEMMA BrowserTypes == Browser!TypeOK <=> Types /\ MenuFits(page, list, menu)
<1>1. MenuFits(page, list, menu) <=> menu \in {"closed"} \cup IF Browser!IsFirstRun THEN {"joining"} ELSE {"open", "naming"}
  BY DEF MenuFits, Browser!IsFirstRun
<1> QED BY <1>1 DEF Browser!TypeOK, Types

LEMMA BrowserTypesAfter == Types' /\ MenuFits(page, list, menu)' => Browser!TypeOK'
BY BrowserTypes, PTL

LEMMA BrowserInit == Browser!Init => BrowserInv
<1> SUFFICES ASSUME Browser!Init PROVE BrowserInv
  OBVIOUS
<1>1. Browser!NoEntry \in Browser!Entry(Browser!Lists)
  BY DEF Browser!NoEntry, Browser!Entry, Browser!Maybe
<1>2. /\ made \in [Workspaces -> Browser!Rows]
      /\ \A u \in SessionUsers : \A w \in belongs[u] : made[w] \in {"member", "whole"}
  BY DEF Browser!Init, Browser!Rows
<1>3. Types
  <2>1. changes \in 0 .. MaxChanges
    BY Limits DEF Browser!Init
  <2> QED BY <1>1, <1>2, <2>1, FewOnes DEF Browser!Init, Types
<1>4. MenuFits(page, list, menu)
  BY DEF Browser!Init, MenuFits
<1>5. Inserts /\ ~page
  BY DEF Browser!Init, Inserts, Creating, Browser!Idle, Browser!NoEntry
<1> QED BY <1>3, <1>4, <1>5, BrowserTypes DEF BrowserInv

-----------------------------------------------------------------------------
(* Coming and going.                                                       *)

LEMMA NoList ==
  /\ Browser!NoEntry.data = {} /\ Browser!NoEntry.flight = "none" /\ Browser!NoEntry.got = {}
  /\ Browser!NoEntry \in Browser!Entry(Browser!Lists)
  /\ Browser!Send(Browser!NoEntry) \in Browser!Entry(Browser!Lists)
  /\ Browser!Send(Browser!NoEntry).data = {} /\ Browser!Send(Browser!NoEntry).flight = "sent"
  /\ Browser!Send(Browser!NoEntry).got = {}
BY DEF Browser!NoEntry, Browser!Entry, Browser!Maybe, Browser!Send

(* The page waits for nothing any more.                                    *)
LEMMA OrphanedCreate ==
  ASSUME Browser!TypeOK, Browser!Orphaned
  PROVE  /\ create' \in {Browser!Idle} \cup Browser!Create /\ ~Creating'
         /\ create'.pc = create.pc
         /\ create.pc = "insert" => create'.ws = create.ws
<1>1. CASE create = Browser!Idle
  BY <1>1 DEF Browser!Orphaned, Creating, Browser!Idle
<1>2. CASE create # Browser!Idle
  <2>1. create \in Browser!Create /\ create' = [create EXCEPT !.from = "gone"]
    BY <1>2, CreateFields DEF Browser!Orphaned
  <2> QED BY <2>1 DEF Browser!Create, Creating
<1> QED BY <1>1, <1>2

LEMMA OpenStep == ASSUME BrowserInv, Browser!OpenDashboard PROVE BrowserInv'
<1>1. Types /\ Inserts
  BY BrowserTypes DEF BrowserInv
<1>2. /\ UNCHANGED <<belongs, made, cookie, stored, create, changes>>
      /\ page' = TRUE /\ astray' = FALSE /\ ~page /\ cookie # {}
      /\ list' = Browser!Send(Browser!NoEntry) /\ chosen' = {} /\ menu' = "closed"
  BY DEF Browser!OpenDashboard, Browser!Load, Browser!database, Browser!browser
<1>3. list'.data = {} /\ list'.got = {} /\ list'.flight = "sent" /\ list' \in Browser!Entry(Browser!Lists)
  BY <1>2, NoList
<1>4. Types' /\ MenuFits(page, list, menu)'
  BY <1>1, <1>2, <1>3, FewOnes DEF Types, MenuFits
<1>5. ~Creating /\ ~Creating'
  BY <1>1, <1>2 DEF Inserts, Creating
<1>6. Inserts'
  BY <1>1, <1>2, <1>3, <1>5 DEF Inserts
<1>7. Untroubled'
  BY <1>2, <1>3, <1>5 DEF Untroubled, OwnLists, Listed, Awaited
<1> QED BY <1>4, <1>6, <1>7, BrowserTypesAfter DEF BrowserInv

LEMMA LeavePage == ASSUME BrowserInv, Browser!LeaveDashboard \/ Browser!SignOut PROVE BrowserInv'
<1>1. Browser!TypeOK /\ Types /\ Inserts
  BY BrowserTypes DEF BrowserInv
<1>2. /\ UNCHANGED <<belongs, made, stored, astray, changes>>
      /\ page' = FALSE /\ cookie' \in {cookie, {}}
      /\ list' = Browser!NoEntry /\ chosen' = {} /\ menu' = "closed" /\ Browser!Orphaned
  BY DEF Browser!LeaveDashboard, Browser!SignOut, Browser!Unload, Browser!database, Browser!browser
<1>3. /\ create' \in {Browser!Idle} \cup Browser!Create /\ ~Creating' /\ create'.pc = create.pc
      /\ create.pc = "insert" => create'.ws = create.ws
  BY <1>1, <1>2, OrphanedCreate
<1>4. Types'
  BY <1>1, <1>2, <1>3, FewOnes, NoList DEF Types
<1>5. MenuFits(page, list, menu)'
  BY <1>2 DEF MenuFits
<1>6. Inserts'
  BY <1>1, <1>2, <1>3, NoList DEF Inserts
<1> QED BY <1>2, <1>4, <1>5, <1>6, BrowserTypesAfter DEF BrowserInv

(* The session changes: on a page outside the dashboard, or under it.      *)
LEMMA SessionSteps ==
  ASSUME BrowserInv, \/ \E u \in SessionUsers : Browser!SignIn(u)
                     \/ \E s \in Browser!Maybe(SessionUsers) : Browser!SessionChanges(s)
  PROVE  BrowserInv'
<1>1. Types /\ Inserts /\ MenuFits(page, list, menu)
  BY BrowserTypes DEF BrowserInv
<1>2. /\ UNCHANGED <<belongs, made, stored, page, list, chosen, menu, create>>
      /\ cookie' \in Browser!Maybe(SessionUsers) /\ astray' \in BOOLEAN
      /\ page => astray'
  BY <1>1, FewOnes DEF Browser!SignIn, Browser!SessionChanges, Types, Browser!database, Browser!tab
<1>3. changes' \in 0 .. MaxChanges
  BY <1>1, Limits DEF Browser!SignIn, Browser!SessionChanges, Browser!Move, Types
<1>4. Types'
  BY <1>1, <1>2, <1>3 DEF Types
<1>5. MenuFits(page, list, menu)'
  BY <1>1, <1>2 DEF MenuFits
<1>6. Inserts'
  BY <1>1, <1>2 DEF Inserts, Creating
<1> QED BY <1>2, <1>4, <1>5, <1>6, BrowserTypesAfter DEF BrowserInv

(* The menu of the switcher, and the choice of the first run.              *)
LEMMA MenuSteps ==
  ASSUME BrowserInv, \/ Browser!OpenMenu \/ Browser!NameWorkspace \/ Browser!CloseMenu
                     \/ \E how \in {"closed", "joining"} : Browser!ChooseFirst(how)
  PROVE  BrowserInv'
<1>1. Types /\ Inserts /\ MenuFits(page, list, menu) /\ (page /\ ~astray => Untroubled)
  BY BrowserTypes DEF BrowserInv
<1>2. UNCHANGED <<belongs, made, cookie, stored, page, list, chosen, create, astray, changes>>
  BY DEF Browser!OpenMenu, Browser!NameWorkspace, Browser!CloseMenu, Browser!ChooseFirst, Browser!database, Browser!browser
<1>3. MenuFits(page, list, menu')
  BY <1>1 DEF Browser!OpenMenu, Browser!NameWorkspace, Browser!CloseMenu, Browser!ChooseFirst, Browser!IsFirstRun, MenuFits
<1>4. ~page => menu' = "closed"
  BY <1>1 DEF Browser!OpenMenu, Browser!NameWorkspace, Browser!CloseMenu, Browser!ChooseFirst, Browser!IsFirstRun, Types
<1>5. Types'
  BY <1>1, <1>2, <1>4 DEF Types
<1>6. MenuFits(page, list, menu)'
  BY <1>2, <1>3 DEF MenuFits, Browser!FirstRunOf
<1>7. Inserts' /\ (page' /\ ~astray' => Untroubled')
  BY <1>1, <1>2 DEF Inserts, Creating, Untroubled, OwnLists, Listed, Awaited
<1> QED BY <1>5, <1>6, <1>7, BrowserTypesAfter DEF BrowserInv

-----------------------------------------------------------------------------
(* The list of workspaces.                                                 *)

(* The list goes on, and what the page shows with it.                      *)
LEMMA ListFollows ==
  ASSUME BrowserInv, UNCHANGED <<belongs, made, cookie, stored, page, create, changes>>,
         page, astray' \in BOOLEAN, astray => astray',
         list' \in Browser!Entry(Browser!Lists), list'.flight = "read" <=> list'.got # {},
         MenuFits(page, list', menu'), chosen' \in Browser!Maybe(Workspaces),
         ~astray' /\ Untroubled => Untroubled'
  PROVE  BrowserInv'
<1>1. Types /\ Inserts /\ MenuFits(page, list, menu) /\ (page /\ ~astray => Untroubled)
  BY BrowserTypes DEF BrowserInv
<1>2. Types'
  BY <1>1 DEF Types
<1>3. MenuFits(page, list, menu)'
  BY DEF MenuFits, Browser!FirstRunOf
<1>4. Inserts' /\ (page' /\ ~astray' => Untroubled')
  BY <1>1 DEF Inserts, Creating
<1> QED BY <1>2, <1>3, <1>4, BrowserTypesAfter DEF BrowserInv

(* A list under way is that of a page.                                     *)
LEMMA ListOnPage == Types /\ list.flight # "none" => page
BY NoList DEF Types

LEMMA ReadListStep == ASSUME BrowserInv, Browser!ReadList PROVE BrowserInv'
<1>1. Types /\ Inserts /\ MenuFits(page, list, menu)
  BY BrowserTypes DEF BrowserInv
<1>2. PICK u \in cookie : list' = Browser!Read(list, [user |-> u, has |-> belongs[u]])
  BY DEF Browser!ReadList
<1>3. /\ UNCHANGED <<belongs, made, cookie, stored, page, chosen, menu, create, astray, changes>>
      /\ page /\ list.flight = "sent" /\ list \in Browser!Entry(Browser!Lists)
  BY <1>1, ListOnPage DEF Browser!ReadList, Browser!database, Browser!browser, Types
<1>4. u \in SessionUsers /\ [user |-> u, has |-> belongs[u]] \in Browser!Lists /\ cookie = {u}
  BY <1>1 DEF Types, Browser!Lists, Browser!Maybe
<1>5. /\ list' \in Browser!Entry(Browser!Lists) /\ list'.data = list.data /\ list'.flight = "read"
      /\ list'.got = {[user |-> u, has |-> belongs[u]]}
  BY <1>2, <1>3, <1>4, BrowserLists, ListFields
<1>6. Browser!FirstRunOf(list') = Browser!FirstRunOf(list)
  BY <1>3, <1>5 DEF Browser!FirstRunOf
<1>7. MenuFits(page, list', menu')
  BY <1>1, <1>3, <1>6 DEF MenuFits
<1>8. ASSUME Untroubled PROVE Untroubled'
  BY <1>3, <1>4, <1>5, <1>8 DEF Untroubled, OwnLists, Listed, Awaited, Creating
<1> QED BY <1>1, <1>3, <1>5, <1>7, <1>8, ListFollows DEF Types

LEMMA ListLandsStep == ASSUME BrowserInv, Browser!ListLands PROVE BrowserInv'
<1>1. Types /\ Inserts /\ MenuFits(page, list, menu)
  BY BrowserTypes DEF BrowserInv
<1>2. /\ UNCHANGED <<belongs, made, cookie, stored, page, create, astray, changes>>
      /\ page /\ list.flight = "read" /\ list \in Browser!Entry(Browser!Lists) /\ list.got # {}
      /\ Browser!ListBecomes(Browser!Landed(list))
  BY <1>1, ListOnPage DEF Browser!ListLands, Browser!database, Browser!browser, Types, Inserts
<1>3. list' = Browser!Landed(list) /\ MenuFits(page, list', menu')
  BY <1>1, <1>2, MenuBecomes
<1>4. list.got \subseteq Browser!Lists /\ \E l \in list.got : list.got = {l}
  BY <1>2 DEF Browser!Entry, Browser!Maybe
<1>5. PICK l \in Browser!Lists : list.got = {l}
  BY <1>4
<1>6. list' \in Browser!Entry(Browser!Lists) /\ list'.data = {l} /\ list'.flight = "none" /\ list'.got = {}
  BY <1>2, <1>3, <1>5, BrowserLists, ListFields
<1>7. /\ chosen' \in Browser!Maybe(Workspaces)
      /\ chosen # {} => chosen' = chosen
      /\ chosen = {} => chosen' \subseteq l.has /\ (chosen' = {} => l.has = {})
  <2>1. CASE chosen # {}
    BY <1>1, <2>1 DEF Browser!ListLands, Types
  <2>2. CASE chosen = {}
    <3>1. chosen' \in Browser!InitialOf(l.has) /\ l.has \subseteq Workspaces
      BY <1>5, <2>2 DEF Browser!ListLands, Browser!Lists
    <3> QED BY <2>2, <3>1 DEF Browser!InitialOf, Browser!Maybe
  <2> QED BY <2>1, <2>2
<1>8. ASSUME Untroubled PROVE Untroubled'
  <2>1. OwnLists' /\ Awaited'
    BY <1>2, <1>5, <1>6, <1>8 DEF Untroubled, OwnLists, Awaited, Creating
  <2>2. Listed'
    <3>1. CASE chosen = {}
      BY <1>6, <1>7, <3>1 DEF Listed
    <3>2. CASE chosen # {}
      BY <1>5, <1>6, <1>7, <1>8, <3>2 DEF Untroubled, OwnLists, Listed
    <3> QED BY <3>1, <3>2
  <2> QED BY <2>1, <2>2 DEF Untroubled
<1> QED BY <1>1, <1>2, <1>3, <1>6, <1>7, <1>8, ListFollows DEF Types

LEMMA ListFailsStep == ASSUME BrowserInv, Browser!ListFails PROVE BrowserInv'
<1>1. Types /\ Inserts /\ MenuFits(page, list, menu)
  BY BrowserTypes DEF BrowserInv
<1>2. /\ UNCHANGED <<belongs, made, cookie, stored, page, chosen, create, changes>>
      /\ page /\ list \in Browser!Entry(Browser!Lists)
      /\ Browser!ListBecomes(Browser!Failed(list))
      /\ astray' = (astray \/ create.pc = "refetching")
  BY <1>1, ListOnPage DEF Browser!ListFails, Browser!database, Browser!browser, Types
<1>3. list' = Browser!Failed(list) /\ MenuFits(page, list', menu')
  BY <1>1, <1>2, MenuBecomes
<1>4. list' \in Browser!Entry(Browser!Lists) /\ list'.data = list.data /\ list'.flight = "none" /\ list'.got = {}
  BY <1>2, <1>3, BrowserLists, ListFields
<1>5. ASSUME ~astray', Untroubled PROVE Untroubled'
  BY <1>2, <1>4, <1>5 DEF Untroubled, OwnLists, Listed, Awaited, Creating
<1> QED BY <1>1, <1>2, <1>3, <1>4, <1>5, ListFollows DEF Types

LEMMA ReconnectStep == ASSUME BrowserInv, Browser!Reconnect PROVE BrowserInv'
<1>1. Types /\ Inserts /\ MenuFits(page, list, menu)
  BY BrowserTypes DEF BrowserInv
<1>2. /\ UNCHANGED <<belongs, made, cookie, stored, page, chosen, create, astray, changes>>
      /\ page /\ list \in Browser!Entry(Browser!Lists)
      /\ Browser!ListBecomes(Browser!Send(list))
  BY <1>1 DEF Browser!Reconnect, Browser!database, Browser!browser, Types
<1>3. list' = Browser!Send(list) /\ MenuFits(page, list', menu')
  BY <1>1, <1>2, MenuBecomes
<1>4. list' \in Browser!Entry(Browser!Lists) /\ list'.data = list.data /\ list'.flight = "sent" /\ list'.got = {}
  BY <1>2, <1>3, BrowserLists, ListFields
<1>5. ASSUME Untroubled PROVE Untroubled'
  BY <1>2, <1>4, <1>5 DEF Untroubled, OwnLists, Listed, Awaited, Creating
<1> QED BY <1>1, <1>2, <1>3, <1>4, <1>5, ListFollows DEF Types

-----------------------------------------------------------------------------
(* A workspace is chosen, or made.                                         *)

LEMMA ChooseStep ==
  ASSUME BrowserInv, NEW w \in Workspaces, Browser!Choose(w)
  PROVE  BrowserInv'
<1>1. Types /\ Inserts /\ MenuFits(page, list, menu) /\ (page /\ ~astray => Untroubled)
  BY BrowserTypes DEF BrowserInv
<1>2. /\ UNCHANGED <<belongs, made, cookie, page, list, create, astray, changes>>
      /\ page /\ chosen' = {w} /\ stored' = {w} /\ menu' = "closed"
      /\ \E l \in list.data : w \in l.has
  BY <1>1 DEF Browser!Choose, Browser!SetWorkspaceId, Browser!Has, Browser!database, Types
<1>3. Types' /\ MenuFits(page, list, menu)'
  BY <1>1, <1>2, FewOnes DEF Types, MenuFits
<1>4. Inserts'
  BY <1>1, <1>2 DEF Inserts, Creating
<1>5. \A l, m \in list.data : l = m
  BY <1>1 DEF Types, Browser!Entry, Browser!Maybe
<1>6. ASSUME Untroubled PROVE Untroubled'
  BY <1>2, <1>5, <1>6 DEF Untroubled, OwnLists, Listed, Awaited, Creating
<1> QED BY <1>1, <1>2, <1>3, <1>4, <1>6, BrowserTypesAfter DEF BrowserInv

LEMMA SubmitStep ==
  ASSUME BrowserInv, NEW w \in Workspaces, Browser!Submit(w)
  PROVE  BrowserInv'
<1>1. Types /\ Inserts /\ MenuFits(page, list, menu) /\ (page /\ ~astray => Untroubled)
  BY BrowserTypes DEF BrowserInv
<1>2. /\ UNCHANGED <<belongs, made, cookie, stored, page, list, chosen, menu, astray>>
      /\ create = Browser!Idle /\ made[w] = "none" /\ page
  BY <1>1 DEF Browser!Submit, Browser!IsFirstRun, Browser!database, Browser!browser, Browser!tab, Types
<1>3. \E u \in cookie, how \in {"first run", "switcher"} : create' = [pc |-> "insert", from |-> how, by |-> u, ws |-> w]
  BY DEF Browser!Submit
<1>4. create' \in Browser!Create /\ create'.pc = "insert" /\ create'.ws = w /\ create'.by \in cookie
  <2>1. PICK u \in cookie, how \in {"first run", "switcher"} :
          create' = [pc |-> "insert", from |-> how, by |-> u, ws |-> w]
    BY <1>3
  <2>2. u \in SessionUsers
    BY <1>1 DEF Types, Browser!Maybe
  <2> QED BY <2>1, <2>2 DEF Browser!Create
<1>5. changes' \in 0 .. MaxChanges
  <2>1. Browser!Move /\ changes \in 0 .. MaxChanges
    BY <1>1 DEF Browser!Submit, Types
  <2> QED BY <2>1, Limits DEF Browser!Move
<1>6. Types'
  BY <1>1, <1>2, <1>4, <1>5 DEF Types
<1>7. MenuFits(page, list, menu)'
  BY <1>1, <1>2 DEF MenuFits
<1>8. Inserts'
  BY <1>1, <1>2, <1>4 DEF Inserts, Creating
<1>9. ASSUME Untroubled PROVE Untroubled'
  BY <1>2, <1>4, <1>9 DEF Untroubled, OwnLists, Listed, Awaited
<1> QED BY <1>1, <1>2, <1>6, <1>7, <1>8, <1>9, BrowserTypesAfter DEF BrowserInv

(* The three inserts.                                                      *)
LEMMA InsertSteps ==
  ASSUME BrowserInv, Browser!InsertWorkspace \/ Browser!InsertMember \/ Browser!InsertPolicy
  PROVE  BrowserInv'
<1>1. Types /\ Inserts /\ MenuFits(page, list, menu) /\ (page /\ ~astray => Untroubled)
  BY BrowserTypes DEF BrowserInv
<1>2. /\ UNCHANGED <<cookie, stored, page, list, chosen, menu, astray, changes>>
      /\ create.pc \in {"insert", "member", "policy"}
  BY DEF Browser!InsertWorkspace, Browser!InsertMember, Browser!InsertPolicy, Browser!browser, Browser!tab
<1>3. create \in Browser!Create /\ create # Browser!Idle /\ create.by \in SessionUsers /\ create.ws \in Workspaces
  BY <1>1, <1>2, BrowserTypes, CreateFields DEF Browser!Create
<1>4. \E pc \in {"member", "policy", "answered"} :
        /\ create' = [create EXCEPT !.pc = pc]
        /\ pc # "member" => \/ belongs' = [belongs EXCEPT ![create.by] = belongs[create.by] \cup {create.ws}]
                            \/ belongs' = belongs /\ create.pc = "policy"
        /\ pc = "member" => belongs' = belongs
  BY DEF Browser!InsertWorkspace, Browser!InsertMember, Browser!InsertPolicy
<1>5. /\ create' \in Browser!Create /\ create' # Browser!Idle
      /\ create'.pc \in {"member", "policy", "answered"}
      /\ create'.from = create.from /\ create'.by = create.by /\ create'.ws = create.ws
      /\ create'.pc # "member" => \/ belongs' = [belongs EXCEPT ![create.by] = belongs[create.by] \cup {create.ws}]
                                  \/ belongs' = belongs /\ create.pc = "policy"
      /\ create'.pc = "member" => belongs' = belongs
  <2>1. PICK pc \in {"member", "policy", "answered"} :
        /\ create' = [create EXCEPT !.pc = pc]
        /\ pc # "member" => \/ belongs' = [belongs EXCEPT ![create.by] = belongs[create.by] \cup {create.ws}]
                            \/ belongs' = belongs /\ create.pc = "policy"
        /\ pc = "member" => belongs' = belongs
    BY <1>4
  <2>2. /\ create' \in Browser!Create /\ create'.pc = pc
        /\ create'.from = create.from /\ create'.by = create.by /\ create'.ws = create.ws
    BY <1>3, <2>1 DEF Browser!Create
  <2>3. create' # Browser!Idle
    BY <2>2 DEF Browser!Idle
  <2> QED BY <2>1, <2>2, <2>3
<1>6. /\ belongs' \in [SessionUsers -> SUBSET Workspaces]
      /\ \A u \in SessionUsers : belongs[u] \subseteq belongs'[u]
      /\ create'.pc \in {"policy", "answered"} /\ (create.pc = "policy" => create.ws \in belongs[create.by]) =>
           create.ws \in belongs'[create.by]
  BY <1>1, <1>3, <1>5 DEF Types
<1>7. /\ made' \in [Workspaces -> Browser!Rows]
      /\ \A u \in SessionUsers : \A w \in belongs'[u] : made'[w] \in {"member", "whole"}
  <2>1. CASE Browser!InsertWorkspace
    BY <1>1, <1>3, <2>1 DEF Browser!InsertWorkspace, Types, Inserts, Browser!Rows
  <2>2. CASE Browser!InsertMember
    BY <1>1, <1>3, <2>2 DEF Browser!InsertMember, Types, Browser!Rows
  <2>3. CASE Browser!InsertPolicy
    BY <1>1, <1>3, <2>3 DEF Browser!InsertPolicy, Types, Browser!Rows
  <2> QED BY <2>1, <2>2, <2>3
<1>8. Types' /\ MenuFits(page, list, menu)'
  BY <1>1, <1>2, <1>5, <1>6, <1>7 DEF Types, MenuFits
<1>9. Inserts'
  BY <1>1, <1>2, <1>3, <1>5 DEF Inserts, Creating
<1>10. ASSUME page, Untroubled PROVE Untroubled'
  <2>1. OwnLists'
    <3>1. cookie \subseteq SessionUsers
      BY <1>1 DEF Types, Browser!Maybe
    <3> QED BY <1>2, <1>6, <1>10, <3>1 DEF Untroubled, OwnLists
  <2>2. Listed' /\ Awaited'
    BY <1>2, <1>3, <1>5, <1>6, <1>10 DEF Untroubled, Listed, Awaited, Creating
  <2> QED BY <2>1, <2>2 DEF Untroubled
<1> QED BY <1>1, <1>2, <1>8, <1>9, <1>10, BrowserTypesAfter DEF BrowserInv

(* The request ends without the page: it fails, or its page was left.      *)
LEMMA CreateEnds ==
  ASSUME BrowserInv, Browser!CreateFails \/ Browser!CreatedElsewhere
  PROVE  BrowserInv'
<1>1. Types /\ Inserts /\ MenuFits(page, list, menu) /\ (page /\ ~astray => Untroubled)
  BY BrowserTypes DEF BrowserInv
<1>2. /\ UNCHANGED <<belongs, made, cookie, page, list, chosen, menu, astray, changes>>
      /\ create' = Browser!Idle
      /\ stored' \in {stored, {create.ws}} /\ create.pc # "idle"
  BY DEF Browser!CreateFails, Browser!CreatedElsewhere, Browser!database, Browser!browser, Browser!tab
<1>3. stored' \in Browser!Maybe(Workspaces)
  <2>1. create.ws \in Workspaces
    BY <1>1, <1>2, BrowserTypes, CreateFields DEF Browser!Create
  <2> QED BY <1>1, <1>2, <2>1, FewOnes DEF Types
<1>4. Types'
  BY <1>1, <1>2, <1>3 DEF Types
<1>5. MenuFits(page, list, menu)'
  BY <1>1, <1>2 DEF MenuFits
<1>6. create'.pc # "insert" /\ ~Creating'
  BY <1>2 DEF Creating, Browser!Idle
<1>7. Inserts'
  BY <1>1, <1>2, <1>6 DEF Inserts
<1>8. ASSUME Untroubled PROVE Untroubled'
  BY <1>2, <1>6, <1>8 DEF Untroubled, OwnLists, Listed, Awaited
<1> QED BY <1>1, <1>2, <1>4, <1>5, <1>7, <1>8, BrowserTypesAfter DEF BrowserInv

(* It is answered, and the list is asked for again.                        *)
LEMMA WorkspaceCreated ==
  ASSUME BrowserInv, Browser!CreatedInFirstRun \/ Browser!CreatedInSwitcher
  PROVE  BrowserInv'
<1>1. Types /\ Inserts /\ MenuFits(page, list, menu) /\ (page /\ ~astray => Untroubled)
  BY BrowserTypes DEF BrowserInv
<1>2. /\ create \in Browser!Create /\ create # Browser!Idle /\ create.from \in {"first run", "switcher"}
      /\ create.pc = "answered" /\ create.ws \in Workspaces
  BY <1>1, BrowserTypes, CreateFields DEF Browser!CreatedInFirstRun, Browser!CreatedInSwitcher, Browser!Create
<1>3. /\ UNCHANGED <<belongs, made, cookie, page, chosen, changes>>
      /\ page /\ list \in Browser!Entry(Browser!Lists)
      /\ Browser!ListBecomes(Browser!Invalidate(list, TRUE))
      /\ stored' \in {stored, {create.ws}}
  BY <1>1, <1>2 DEF Browser!CreatedInFirstRun, Browser!CreatedInSwitcher, Browser!database, Browser!browser,
                    Types, Inserts, Creating
<1>4. list' = Browser!Invalidate(list, TRUE) /\ MenuFits(page, list', menu')
  BY <1>1, <1>3, MenuBecomes
<1>5. /\ list' \in Browser!Entry(Browser!Lists) /\ list'.data = list.data
      /\ \/ list'.flight = "sent" /\ list'.got = {}
         \/ list'.flight = list.flight /\ list'.got = list.got /\ list.data = {} /\ list.flight # "none"
  BY <1>3, <1>4, BrowserLists, ListFields
<1>6. /\ \/ create' = Browser!Idle /\ astray' = astray
         \/ create' = [create EXCEPT !.pc = "refetching"] /\ astray' = (astray \/ list.data = {})
  BY DEF Browser!CreatedInFirstRun, Browser!CreatedInSwitcher
<1>7. /\ create' \in {Browser!Idle} \cup Browser!Create /\ create'.pc # "insert"
      /\ create' # Browser!Idle => create'.pc = "refetching" /\ create'.by = create.by /\ create'.ws = create.ws /\ create'.from = create.from
  <2>1. CASE create' = Browser!Idle
    BY <2>1 DEF Browser!Idle
  <2>2. CASE create' = [create EXCEPT !.pc = "refetching"]
    BY <1>2, <2>2 DEF Browser!Create
  <2> QED BY <1>6, <2>1, <2>2
<1>8. Types'
  BY <1>1, <1>2, <1>3, <1>5, <1>6, <1>7, FewOnes DEF Types
<1>9. MenuFits(page, list, menu)'
  BY <1>3, <1>4 DEF MenuFits, Browser!FirstRunOf
<1>10. Inserts'
  BY <1>1, <1>3, <1>5, <1>7 DEF Inserts, Creating
<1>11. ASSUME Untroubled, ~astray' PROVE Untroubled'
  <2>1. OwnLists' /\ Listed'
    BY <1>3, <1>5, <1>11 DEF Untroubled, OwnLists, Listed
  <2>2. CASE create' = Browser!Idle
    BY <2>1, <2>2 DEF Untroubled, Awaited, Creating
  <2>3. CASE create' # Browser!Idle
    <3>1. list.data # {} /\ list'.flight = "sent" /\ list'.got = {}
      BY <1>2, <1>5, <1>6, <1>11, <2>3
    <3>2. create.by \in cookie /\ create.ws \in belongs[create.by]
      BY <1>2, <1>11 DEF Untroubled, Awaited, Creating
    <3> QED BY <1>3, <1>5, <1>7, <2>1, <2>3, <3>1, <3>2 DEF Untroubled, Awaited
  <2> QED BY <2>2, <2>3
<1> QED BY <1>1, <1>3, <1>6, <1>8, <1>9, <1>10, <1>11, BrowserTypesAfter DEF BrowserInv

LEMMA SwitchStep == ASSUME BrowserInv, Browser!Switch PROVE BrowserInv'
<1>1. Types /\ Inserts /\ MenuFits(page, list, menu) /\ (page /\ ~astray => Untroubled)
  BY BrowserTypes DEF BrowserInv
<1>2. /\ create \in Browser!Create /\ create # Browser!Idle /\ create.from = "switcher"
      /\ create.pc = "refetching" /\ create.ws \in Workspaces
  BY <1>1, BrowserTypes, CreateFields DEF Browser!Switch, Browser!Create
<1>3. /\ UNCHANGED <<belongs, made, cookie, page, list, astray, changes>>
      /\ page /\ list.flight = "none" /\ list.got = {}
      /\ chosen' = {create.ws} /\ stored' = {create.ws} /\ menu' = "closed" /\ create' = Browser!Idle
  BY <1>1, <1>2 DEF Browser!Switch, Browser!SetWorkspaceId, Browser!database, Inserts, Creating
<1>4. Types'
  BY <1>1, <1>2, <1>3, FewOnes DEF Types
<1>5. MenuFits(page, list, menu)'
  BY <1>3 DEF MenuFits
<1>6. create'.pc # "insert" /\ ~Creating'
  BY <1>3 DEF Creating, Browser!Idle
<1>7. Inserts'
  BY <1>1, <1>3, <1>6 DEF Inserts
<1>8. ASSUME Untroubled PROVE Untroubled'
  BY <1>2, <1>3, <1>6, <1>8 DEF Untroubled, OwnLists, Listed, Awaited, Creating
<1> QED BY <1>1, <1>3, <1>4, <1>5, <1>7, <1>8, BrowserTypesAfter DEF BrowserInv

-----------------------------------------------------------------------------
(* Members of workspaces come and go.                                      *)

LEMMA AdmitStep ==
  ASSUME BrowserInv, NEW u \in SessionUsers, NEW w \in Workspaces, Browser!Admit(u, w)
  PROVE  BrowserInv'
<1>1. Types /\ Inserts /\ MenuFits(page, list, menu) /\ (page /\ ~astray => Untroubled)
  BY BrowserTypes DEF BrowserInv
<1>2. /\ UNCHANGED <<made, cookie, stored, page, list, chosen, menu, create, astray>>
      /\ made[w] = "whole" /\ belongs' = [belongs EXCEPT ![u] = belongs[u] \cup {w}]
  BY DEF Browser!Admit, Browser!browser, Browser!tab
<1>3. changes' \in 0 .. MaxChanges
  BY <1>1, Limits DEF Browser!Admit, Browser!Move, Types
<1>4. /\ belongs' \in [SessionUsers -> SUBSET Workspaces]
      /\ \A v \in SessionUsers : belongs[v] \subseteq belongs'[v]
      /\ \A v \in SessionUsers : \A x \in belongs'[v] : made[x] \in {"member", "whole"}
  BY <1>1, <1>2 DEF Types
<1>5. Types'
  BY <1>1, <1>2, <1>3, <1>4 DEF Types
<1>6. MenuFits(page, list, menu)'
  BY <1>1, <1>2 DEF MenuFits
<1>7. Inserts'
  BY <1>1, <1>2 DEF Inserts, Creating
<1>8. ASSUME Untroubled PROVE Untroubled'
  <2>1. cookie \subseteq SessionUsers
    BY <1>1 DEF Types, Browser!Maybe
  <2> QED BY <1>2, <1>4, <1>8, <2>1 DEF Untroubled, OwnLists, Listed, Awaited, Creating
<1> QED BY <1>1, <1>2, <1>5, <1>6, <1>7, <1>8, BrowserTypesAfter DEF BrowserInv

LEMMA RemoveStep ==
  ASSUME BrowserInv, NEW u \in SessionUsers, NEW w \in Workspaces, Browser!Remove(u, w)
  PROVE  BrowserInv'
<1>1. Types /\ Inserts /\ MenuFits(page, list, menu)
  BY BrowserTypes DEF BrowserInv
<1>2. /\ UNCHANGED <<made, cookie, stored, page, list, chosen, menu, create>>
      /\ belongs' = [belongs EXCEPT ![u] = belongs[u] \ {w}] /\ astray' = (astray \/ page)
  BY DEF Browser!Remove, Browser!browser, Browser!tab
<1>3. changes' \in 0 .. MaxChanges
  BY <1>1, Limits DEF Browser!Remove, Browser!Move, Types
<1>4. /\ belongs' \in [SessionUsers -> SUBSET Workspaces]
      /\ \A v \in SessionUsers : \A x \in belongs'[v] : made[x] \in {"member", "whole"}
      /\ astray' \in BOOLEAN
  BY <1>1, <1>2 DEF Types
<1>5. Types'
  BY <1>1, <1>2, <1>3, <1>4 DEF Types
<1>6. MenuFits(page, list, menu)'
  BY <1>1, <1>2 DEF MenuFits
<1>7. Inserts'
  BY <1>1, <1>2 DEF Inserts, Creating
<1> QED BY <1>2, <1>5, <1>6, <1>7, BrowserTypesAfter DEF BrowserInv

LEMMA OpenWorkspaceStep ==
  ASSUME BrowserInv, NEW w \in Workspaces, Browser!OpenWorkspace(w)
  PROVE  BrowserInv'
<1>1. Browser!TypeOK /\ Types /\ Inserts /\ MenuFits(page, list, menu) /\ (page /\ ~astray => Untroubled)
  BY BrowserTypes DEF BrowserInv
<1>2. PICK u \in cookie : belongs' = [belongs EXCEPT ![u] = belongs[u] \cup {w}]
  BY DEF Browser!OpenWorkspace
<1>3. /\ UNCHANGED <<made, cookie, astray>>
      /\ made[w] = "whole" /\ page' = TRUE /\ stored' = {w} /\ Browser!Orphaned
      /\ list' = Browser!Send(Browser!NoEntry) /\ chosen' = {} /\ menu' = "closed"
  BY DEF Browser!OpenWorkspace, Browser!Load
<1>4. /\ create' \in {Browser!Idle} \cup Browser!Create /\ ~Creating' /\ create'.pc = create.pc
      /\ create.pc = "insert" => create'.ws = create.ws
  BY <1>1, <1>3, OrphanedCreate
<1>5. changes' \in 0 .. MaxChanges
  BY <1>1, Limits DEF Browser!OpenWorkspace, Browser!Move, Types
<1>6. /\ u \in SessionUsers /\ belongs' \in [SessionUsers -> SUBSET Workspaces]
      /\ \A v \in SessionUsers : \A x \in belongs'[v] : made[x] \in {"member", "whole"}
  BY <1>1, <1>2, <1>3 DEF Types, Browser!Maybe
<1>7. list'.data = {} /\ list'.got = {} /\ list'.flight = "sent" /\ list' \in Browser!Entry(Browser!Lists)
  BY <1>3, NoList
<1>8. Types'
  BY <1>1, <1>3, <1>4, <1>5, <1>6, <1>7, FewOnes DEF Types
<1>9. MenuFits(page, list, menu)'
  BY <1>3 DEF MenuFits
<1>10. Inserts'
  BY <1>1, <1>3, <1>4, <1>7 DEF Inserts
<1>11. Untroubled'
  BY <1>2, <1>3, <1>4, <1>7 DEF Untroubled, OwnLists, Listed, Awaited
<1> QED BY <1>8, <1>9, <1>10, <1>11, BrowserTypesAfter DEF BrowserInv

LEMMA BrowserInvStep == BrowserInv /\ [Browser!Next]_(Browser!vars) => BrowserInv'
<1> SUFFICES ASSUME BrowserInv, [Browser!Next]_(Browser!vars) PROVE BrowserInv'
  OBVIOUS
<1>1. CASE Browser!Next
  BY <1>1, OpenStep, LeavePage, SessionSteps, MenuSteps, ReadListStep, ListLandsStep, ListFailsStep, ReconnectStep,
     ChooseStep, SubmitStep, InsertSteps, CreateEnds, WorkspaceCreated, SwitchStep, AdmitStep, RemoveStep,
     OpenWorkspaceStep DEF Browser!Next
<1>2. CASE UNCHANGED Browser!vars
  <2>1. Types /\ Inserts /\ MenuFits(page, list, menu) /\ (page /\ ~astray => Untroubled)
    BY BrowserTypes DEF BrowserInv
  <2>2. Types'
    BY <1>2, <2>1 DEF Browser!vars, Types
  <2>3. MenuFits(page, list, menu)'
    BY <1>2, <2>1 DEF Browser!vars, MenuFits
  <2>4. Inserts' /\ (page' /\ ~astray' => Untroubled')
    BY <1>2, <2>1 DEF Browser!vars, Inserts, Creating, Untroubled, OwnLists, Listed, Awaited
  <2> QED BY <2>2, <2>3, <2>4, BrowserTypesAfter DEF BrowserInv
<1> QED BY <1>1, <1>2

LEMMA ShownFollows == BrowserInv => Browser!ShownIsOnesOwn /\ Browser!SomethingIsShown
<1> SUFFICES ASSUME BrowserInv PROVE Browser!ShownIsOnesOwn /\ Browser!SomethingIsShown
  OBVIOUS
<1>1. Types /\ (page /\ ~astray => Untroubled)
  BY BrowserTypes DEF BrowserInv
<1>2. CASE page /\ ~astray
  BY <1>1, <1>2 DEF Untroubled, OwnLists, Listed, Browser!ShownIsOnesOwn, Browser!SomethingIsShown, Browser!Shown, Browser!Has
<1>3. CASE ~page
  BY <1>1, <1>3, NoList DEF Types, Browser!ShownIsOnesOwn, Browser!SomethingIsShown, Browser!Shown, Browser!Has
<1>4. CASE astray
  BY <1>4 DEF Browser!ShownIsOnesOwn, Browser!SomethingIsShown
<1> QED BY <1>2, <1>3, <1>4

(* Signing out leaves the dashboard by a full navigation, so no list or    *)
(* choice of one user is there when the next one opens it.                 *)
THEOREM OwnIsShown == Browser!Spec => []Browser!ShownIsOnesOwn
BY BrowserInit, BrowserInvStep, ShownFollows, PTL DEF Browser!Spec

(* The workspace chosen stays on every later list, and the switcher turns  *)
(* to a new one only when a list with it came.                             *)
THEOREM OneIsShown == Browser!Spec => []Browser!SomethingIsShown
BY BrowserInit, BrowserInvStep, ShownFollows, PTL DEF Browser!Spec

-----------------------------------------------------------------------------
(* The tab of API keys: the inductive invariant.                           *)

(* A request is known to be the tab's only while the tab is open, and the  *)
(* key that it made is in the workspace that it was asked for.             *)
Making ==
  creation # KeysTab!Idle =>
    /\ creation.here => keysTab
    /\ creation.pc = "sent" => creation.key = {}
    /\ \A k \in creation.key : home[k] = {creation.in}

(* The key asked about is of the workspace selected, and the one being     *)
(* revoked of the workspace in the path.                                   *)
OfWorkspace ==
  /\ \A k \in confirm : home[k] = {selected}
  /\ revoking # KeysTab!Idle =>
       /\ home[revoking.key] = {revoking.in}
       /\ revoking.pc = "done" => revoking.key \in revoked

(* Rows `ks` of w have the changes in `listed` and `gone`.                 *)
Tells(w, ks) ==
  /\ \A k \in listed : home[k] = {w} => \E r \in ks : r.key = k
  /\ \A r \in ks : r.active => r.key \notin gone

(* The list of a workspace has rows of its own only; an answer under way   *)
(* tells the changes, and so does the last one unless it is stale.         *)
Listing(w, e) ==
  /\ e.flight # "read" => e.got = {}
  /\ \A ks \in e.data \cup e.got : \A r \in ks : home[r.key] = {w}
  /\ \A ks \in e.got : Tells(w, ks)
  /\ ~e.stale => \A ks \in e.data : Tells(w, ks)

Fresh ==
  /\ listed \subseteq {k \in Keys : home[k] # {}} /\ gone \subseteq revoked
  /\ \A w \in Workspaces : Listing(w, keyLists[w])

KeysInv == KeysTab!TypeOK /\ Making /\ OfWorkspace /\ Fresh /\ KeysTab!KeysAreShownOnce

-----------------------------------------------------------------------------
(* The tab of API keys: types, and what is on the screen.                  *)

(* What the list of a workspace becomes stays a list.                      *)
LEMMA KeyLists ==
  ASSUME NEW S, NEW e \in KeysTab!Entry(S), NEW late \in BOOLEAN, NEW on \in BOOLEAN, NEW a \in S
  PROVE  /\ KeysTab!NoEntry \in KeysTab!Entry(S)
         /\ KeysTab!Mount(e, late) \in KeysTab!Entry(S)
         /\ KeysTab!Invalidate(e, on) \in KeysTab!Entry(S)
         /\ KeysTab!Read(e, a) \in KeysTab!Entry(S)
         /\ KeysTab!Landed(e) \in KeysTab!Entry(S)
         /\ KeysTab!Failed(e) \in KeysTab!Entry(S)
<1>1. {} \in KeysTab!Maybe(S) /\ {a} \in KeysTab!Maybe(S)
  BY DEF KeysTab!Maybe
<1> QED BY <1>1 DEF KeysTab!Entry, KeysTab!NoEntry, KeysTab!Mount, KeysTab!Fetch, KeysTab!Send, KeysTab!Invalidate,
             KeysTab!Read, KeysTab!Landed, KeysTab!Failed

(* Requests have their fields.                                             *)
LEMMA KeyRequests ==
  ASSUME KeysTab!TypeOK
  PROVE  /\ creation # KeysTab!Idle <=> creation \in KeysTab!Creation
         /\ revoking # KeysTab!Idle <=> revoking \in KeysTab!Revocation
         /\ creation.pc \in {"sent", "made"} => creation \in KeysTab!Creation
         /\ revoking.pc \in {"sent", "done"} => revoking \in KeysTab!Revocation
<1>1. /\ \A c \in KeysTab!Creation : c # KeysTab!Idle
      /\ \A c \in KeysTab!Revocation : c # KeysTab!Idle
  BY DEF KeysTab!Creation, KeysTab!Revocation, KeysTab!Idle
<1> QED BY <1>1 DEF KeysTab!TypeOK, KeysTab!Idle

LEMMA KeysInvInit == KeysTab!Init => KeysInv
<1> SUFFICES ASSUME KeysTab!Init PROVE KeysInv
  OBVIOUS
<1>1. {} \in KeysTab!Maybe(Workspaces) /\ {} \in KeysTab!Maybe(Keys) /\ {} \in KeysTab!Maybe(SUBSET KeysTab!Rows)
  BY DEF KeysTab!Maybe
<1>2. KeysTab!NoEntry \in KeysTab!Entry(SUBSET KeysTab!Rows)
  BY <1>1 DEF KeysTab!NoEntry, KeysTab!Entry
<1>3. KeysTab!TypeOK
  <2>1. creation.pc # "made" /\ keyMoves \in 0 .. KeyMoves
    BY Limits DEF KeysTab!Init, KeysTab!Idle
  <2> QED BY <1>1, <1>2, <2>1 DEF KeysTab!Init, KeysTab!TypeOK
<1>4. Making /\ OfWorkspace /\ Fresh /\ KeysTab!KeysAreShownOnce
  BY <1>1 DEF KeysTab!Init, Making, OfWorkspace, Fresh, Listing, KeysTab!KeysAreShownOnce, KeysTab!NoEntry
<1> QED BY <1>3, <1>4 DEF KeysInv

(* Steps that only change what is on the screen, or a request.             *)
KeysHere ==
  \/ KeysTab!LeaveTab \/ KeysTab!ToggleForm \/ KeysTab!Submit \/ KeysTab!Done \/ KeysTab!Cancel
  \/ KeysTab!ConfirmRevoke \/ KeysTab!RevokeFails \/ KeysTab!CreateFails
  \/ \E k \in Keys : KeysTab!AskRevoke(k)

(* A request goes on when the tab is left, or shows another workspace.     *)
GoesOn(c, d, K) ==
  /\ d \in {KeysTab!Idle} \cup K
  /\ d = KeysTab!Idle <=> c = KeysTab!Idle
  /\ d.pc = c.pc
  /\ c # KeysTab!Idle => d.key = c.key /\ d.in = c.in /\ (d.here => c.here)

LEMMA CreationGoes ==
  ASSUME KeysTab!TypeOK, NEW w \in Workspaces
  PROVE  /\ GoesOn(creation, KeysTab!Away(creation), KeysTab!Creation)
         /\ creation # KeysTab!Idle => ~KeysTab!Away(creation).here
         /\ GoesOn(creation, KeysTab!Follow(creation, w), KeysTab!Creation)
<1>1. CASE creation = KeysTab!Idle
  BY <1>1 DEF GoesOn, KeysTab!Away, KeysTab!Follow
<1>2. CASE creation # KeysTab!Idle
  <2>1. creation \in KeysTab!Creation
    BY <1>2, KeyRequests
  <2>2. \A c \in KeysTab!Creation : c # KeysTab!Idle
    BY DEF KeysTab!Creation, KeysTab!Idle
  <2> QED BY <1>2, <2>1, <2>2 DEF GoesOn, KeysTab!Away, KeysTab!Follow, KeysTab!Creation
<1> QED BY <1>1, <1>2

LEMMA RevocationGoes ==
  ASSUME KeysTab!TypeOK, NEW w \in Workspaces
  PROVE  /\ GoesOn(revoking, KeysTab!Away(revoking), KeysTab!Revocation)
         /\ GoesOn(revoking, KeysTab!Follow(revoking, w), KeysTab!Revocation)
<1>1. CASE revoking = KeysTab!Idle
  BY <1>1 DEF GoesOn, KeysTab!Away, KeysTab!Follow
<1>2. CASE revoking # KeysTab!Idle
  <2>1. revoking \in KeysTab!Revocation
    BY <1>2, KeyRequests
  <2>2. \A c \in KeysTab!Revocation : c # KeysTab!Idle
    BY DEF KeysTab!Revocation, KeysTab!Idle
  <2> QED BY <1>2, <2>1, <2>2 DEF GoesOn, KeysTab!Away, KeysTab!Follow, KeysTab!Revocation
<1> QED BY <1>1, <1>2

(* The sets of at most one key.                                            *)
LEMMA FewKeys == {} \in KeysTab!Maybe(Keys) /\ \A k \in Keys : {k} \in KeysTab!Maybe(Keys)
BY DEF KeysTab!Maybe

(* What is shown of the tab changes, and not the keys or their lists.      *)
LEMMA TabSteps ==
  ASSUME KeysInv,
         \/ KeysTab!ToggleForm \/ KeysTab!Done \/ KeysTab!Cancel
         \/ \E k \in Keys : KeysTab!AskRevoke(k)
  PROVE  KeysInv'
<1>1. KeysTab!TypeOK /\ Making /\ OfWorkspace /\ Fresh /\ KeysTab!KeysAreShownOnce
  BY DEF KeysInv
<1>2. /\ UNCHANGED <<home, revoked, selected, keysTab, keyLists, creation, revoking, told, listed, gone, keyMoves>>
      /\ form' \in BOOLEAN /\ newKey' \in KeysTab!Maybe(Keys) /\ confirm' \in KeysTab!Maybe(Keys)
      /\ ~keysTab => ~form' /\ newKey' = {} /\ confirm' = {}
  BY <1>1, FewKeys DEF KeysTab!ToggleForm, KeysTab!Done, KeysTab!Cancel, KeysTab!AskRevoke, KeysTab!TypeOK,
     KeysTab!table, KeysTab!history
<1>3. \A k \in confirm' : home[k] = {selected}
  BY <1>1 DEF KeysTab!ToggleForm, KeysTab!Done, KeysTab!Cancel, KeysTab!AskRevoke, KeysTab!Active, OfWorkspace, Fresh, Listing,
     KeysTab!TypeOK
<1>4. KeysTab!TypeOK'
  BY <1>1, <1>2 DEF KeysTab!TypeOK
<1>5. Making' /\ OfWorkspace' /\ Fresh' /\ KeysTab!KeysAreShownOnce'
  BY <1>1, <1>2, <1>3 DEF Making, OfWorkspace, Fresh, Listing, Tells, KeysTab!KeysAreShownOnce
<1> QED BY <1>4, <1>5 DEF KeysInv

(* The tab is left, and opened.                                            *)
LEMMA LeaveStep ==
  ASSUME KeysInv, KeysTab!LeaveTab
  PROVE  KeysInv'
<1>1. KeysTab!TypeOK /\ Making /\ OfWorkspace /\ Fresh /\ KeysTab!KeysAreShownOnce
  BY DEF KeysInv
<1>2. /\ UNCHANGED <<home, revoked, selected, keyLists, newKey, confirm, told, listed, gone>>
      /\ keysTab' = FALSE /\ form' = FALSE /\ newKey = {} /\ confirm = {}
      /\ GoesOn(creation, creation', KeysTab!Creation) /\ GoesOn(revoking, revoking', KeysTab!Revocation)
      /\ creation # KeysTab!Idle => ~creation'.here
  BY <1>1, CreationGoes, RevocationGoes DEF KeysTab!LeaveTab, KeysTab!table, KeysTab!TypeOK
<1>3. keyMoves' \in 0 .. KeyMoves
  BY <1>1, Limits DEF KeysTab!LeaveTab, KeysTab!Move, KeysTab!TypeOK
<1>4. KeysTab!TypeOK'
  <2>1. creation'.pc = "made" => creation'.key # {}
    BY <1>1, <1>2, KeyRequests DEF KeysTab!TypeOK, GoesOn
  <2> QED BY <1>1, <1>2, <1>3, <2>1 DEF KeysTab!TypeOK, GoesOn
<1>5. Making' /\ OfWorkspace' /\ Fresh' /\ KeysTab!KeysAreShownOnce'
  BY <1>1, <1>2 DEF Making, OfWorkspace, Fresh, Listing, Tells, KeysTab!KeysAreShownOnce, GoesOn
<1> QED BY <1>4, <1>5 DEF KeysInv

-----------------------------------------------------------------------------
(* What becomes of the list of a workspace.                                *)

(* It is fetched, invalidated, or gets the answer under way.               *)
LEMMA ListGoes ==
  ASSUME KeysTab!TypeOK, NEW w \in Workspaces, NEW e \in KeysTab!Entry(SUBSET KeysTab!Rows), Listing(w, e),
         NEW late \in BOOLEAN, NEW on \in BOOLEAN
  PROVE  /\ Listing(w, KeysTab!Mount(e, late))
         /\ Listing(w, KeysTab!Invalidate(e, on))
         /\ Listing(w, KeysTab!Failed(e))
         /\ Listing(w, KeysTab!Landed(e))
<1>1. ASSUME NEW d, d.data \in {e.data, e.got}, d.got \in {{}, e.got},
             d.got = {} \/ d.flight = e.flight,
             d.stale \/ d.data = e.got \/ (d.stale = e.stale /\ d.data = e.data)
      PROVE  Listing(w, d)
  BY <1>1 DEF Listing
<1>2. Listing(w, KeysTab!Mount(e, late))
  BY DEF Listing, KeysTab!Mount, KeysTab!Fetch, KeysTab!Send, KeysTab!Entry
<1>3. Listing(w, KeysTab!Invalidate(e, on))
  <2> DEFINE d == KeysTab!Invalidate(e, on)
  <2>1. d.data = e.data /\ d.got \in {{}, e.got} /\ (d.got = {} \/ d.flight = e.flight) /\ d.stale
    BY DEF KeysTab!Invalidate, KeysTab!Send, KeysTab!Entry
  <2> QED BY <1>1, <2>1
<1>4. Listing(w, KeysTab!Failed(e))
  <2> DEFINE d == KeysTab!Failed(e)
  <2>1. d.data = e.data /\ d.got = {} /\ d.stale = e.stale
    BY DEF KeysTab!Failed, KeysTab!Entry
  <2> QED BY <1>1, <2>1
<1>5. Listing(w, KeysTab!Landed(e))
  <2> DEFINE d == KeysTab!Landed(e)
  <2>1. d.data = e.got /\ d.got = {}
    BY DEF KeysTab!Landed
  <2> QED BY <1>1, <2>1
<1> QED BY <1>2, <1>3, <1>4, <1>5

(* The API answers with the keys that there are.                           *)
RowsOf(w) == {[key |-> k, active |-> k \notin revoked] : k \in {k \in Keys : home[k] = {w}}}

LEMMA ListRead ==
  ASSUME KeysTab!TypeOK, Fresh, NEW w \in Workspaces, NEW e \in KeysTab!Entry(SUBSET KeysTab!Rows), Listing(w, e)
  PROVE  RowsOf(w) \in SUBSET KeysTab!Rows /\ Listing(w, KeysTab!Read(e, RowsOf(w)))
<1> DEFINE One(k) == [key |-> k, active |-> k \notin revoked]
<1>1. \A k \in Keys : One(k) \in KeysTab!Rows /\ One(k).key = k /\ (One(k).active => k \notin revoked)
  BY Zenon DEF KeysTab!Rows
<1>2. RowsOf(w) = {One(k) : k \in {k \in Keys : home[k] = {w}}}
  BY DEF RowsOf
<1> HIDE DEF One
<1>3. RowsOf(w) \in SUBSET KeysTab!Rows
  BY <1>1, <1>2
<1>4. Tells(w, RowsOf(w)) /\ \A r \in RowsOf(w) : home[r.key] = {w}
  BY <1>1, <1>2 DEF Tells, Fresh, KeysTab!TypeOK
<1>5. /\ KeysTab!Read(e, RowsOf(w)).data = e.data /\ KeysTab!Read(e, RowsOf(w)).got = {RowsOf(w)}
      /\ KeysTab!Read(e, RowsOf(w)).stale = e.stale /\ KeysTab!Read(e, RowsOf(w)).flight = "read"
  BY DEF KeysTab!Read, KeysTab!Entry
<1> QED BY <1>3, <1>4, <1>5 DEF Listing

(* One list goes on, and nothing else changes.                             *)
LEMMA ListSteps ==
  ASSUME KeysInv, NEW w \in Workspaces, KeysTab!ReadKeys(w) \/ KeysTab!KeysLand(w) \/ KeysTab!KeysFail(w)
  PROVE  KeysInv'
<1> DEFINE e == keyLists'[w]
<1>1. KeysTab!TypeOK /\ Making /\ OfWorkspace /\ Fresh /\ KeysTab!KeysAreShownOnce
  BY DEF KeysInv
<1>2. /\ UNCHANGED <<home, revoked, selected, keysTab, form, newKey, confirm, creation, revoking, told, listed, gone, keyMoves>>
      /\ keyLists' = [keyLists EXCEPT ![w] = e]
      /\ e \in {KeysTab!Read(keyLists[w], RowsOf(w)), KeysTab!Landed(keyLists[w]), KeysTab!Failed(keyLists[w])}
  BY <1>1 DEF KeysTab!ReadKeys, KeysTab!KeysLand, KeysTab!KeysFail, RowsOf, KeysTab!TypeOK,
     KeysTab!table, KeysTab!modals, KeysTab!history
<1>3. keyLists[w] \in KeysTab!Entry(SUBSET KeysTab!Rows) /\ Listing(w, keyLists[w])
  BY <1>1 DEF KeysTab!TypeOK, Fresh
<1> HIDE DEF e
<1>4. e \in KeysTab!Entry(SUBSET KeysTab!Rows) /\ Listing(w, e)
  <2>1. /\ KeysTab!Read(keyLists[w], RowsOf(w)) \in KeysTab!Entry(SUBSET KeysTab!Rows)
        /\ Listing(w, KeysTab!Read(keyLists[w], RowsOf(w)))
    BY <1>1, <1>3, ListRead, KeyLists
  <2>2. /\ KeysTab!Landed(keyLists[w]) \in KeysTab!Entry(SUBSET KeysTab!Rows)
        /\ Listing(w, KeysTab!Landed(keyLists[w]))
    BY <1>1, <1>3, ListGoes, KeyLists
  <2>3. /\ KeysTab!Failed(keyLists[w]) \in KeysTab!Entry(SUBSET KeysTab!Rows)
        /\ Listing(w, KeysTab!Failed(keyLists[w]))
    BY <1>1, <1>3, ListGoes, KeyLists
  <2> QED BY <1>2, <2>1, <2>2, <2>3
<1>5. KeysTab!TypeOK'
  BY <1>1, <1>2, <1>4 DEF KeysTab!TypeOK
<1>6. \A v \in Workspaces : Listing(v, keyLists'[v])
  BY <1>1, <1>2, <1>4 DEF Fresh, KeysTab!TypeOK
<1>7. Fresh'
  BY <1>1, <1>2, <1>6 DEF Fresh, Listing, Tells
<1>8. Making' /\ OfWorkspace' /\ KeysTab!KeysAreShownOnce'
  BY <1>1, <1>2 DEF Making, OfWorkspace, KeysTab!KeysAreShownOnce
<1> QED BY <1>5, <1>7, <1>8 DEF KeysInv

(* The tab is opened, or shows another workspace.                          *)
LEMMA MountSteps ==
  ASSUME KeysInv, \/ \E late \in BOOLEAN : KeysTab!OpenTab(late)
                  \/ \E w \in Workspaces, late \in BOOLEAN : KeysTab!Switch(w, late)
  PROVE  KeysInv'
<1>1. KeysTab!TypeOK /\ Making /\ OfWorkspace /\ Fresh /\ KeysTab!KeysAreShownOnce
  BY DEF KeysInv
<1>2. \A w \in Workspaces, late \in BOOLEAN :
        /\ KeysTab!Mount(keyLists[w], late) \in KeysTab!Entry(SUBSET KeysTab!Rows)
        /\ Listing(w, KeysTab!Mount(keyLists[w], late))
  <2> SUFFICES ASSUME NEW w \in Workspaces, NEW late \in BOOLEAN
               PROVE  /\ KeysTab!Mount(keyLists[w], late) \in KeysTab!Entry(SUBSET KeysTab!Rows)
                      /\ Listing(w, KeysTab!Mount(keyLists[w], late))
    OBVIOUS
  <2>1. keyLists[w] \in KeysTab!Entry(SUBSET KeysTab!Rows) /\ Listing(w, keyLists[w])
    BY <1>1 DEF KeysTab!TypeOK, Fresh
  <2> QED BY <1>1, <2>1, ListGoes, KeyLists
<1>3. /\ UNCHANGED <<home, revoked, form, newKey, confirm, told, listed, gone>>
      /\ selected' \in Workspaces /\ keysTab' \in BOOLEAN /\ (keysTab => keysTab')
      /\ selected' = selected \/ confirm = {}
      /\ GoesOn(creation, creation', KeysTab!Creation) /\ GoesOn(revoking, revoking', KeysTab!Revocation)
      /\ \/ keyLists' = keyLists
         \/ \E w \in Workspaces, late \in BOOLEAN : keyLists' = [keyLists EXCEPT ![w] = KeysTab!Mount(keyLists[w], late)]
  <2>1. CASE \E late \in BOOLEAN : KeysTab!OpenTab(late)
    <3>1. PICK late \in BOOLEAN : KeysTab!OpenTab(late)
      BY <2>1
    <3>2. /\ UNCHANGED <<home, revoked, selected, form, newKey, confirm, creation, revoking, told, listed, gone>>
          /\ keysTab' = TRUE /\ selected \in Workspaces
          /\ keyLists' = [keyLists EXCEPT ![selected] = KeysTab!Mount(keyLists[selected], late)]
      BY <1>1, <3>1 DEF KeysTab!OpenTab, KeysTab!MountKeys, KeysTab!TypeOK, KeysTab!table, KeysTab!modals, KeysTab!history
    <3> QED BY <1>1, <3>2 DEF KeysTab!TypeOK, GoesOn
  <2>2. CASE \E w \in Workspaces, late \in BOOLEAN : KeysTab!Switch(w, late)
    <3>1. PICK w \in Workspaces, late \in BOOLEAN : KeysTab!Switch(w, late)
      BY <2>2
    <3>2. /\ UNCHANGED <<home, revoked, keysTab, form, newKey, confirm, told, listed, gone>>
          /\ selected' = w /\ confirm = {}
          /\ creation' = KeysTab!Follow(creation, w) /\ revoking' = KeysTab!Follow(revoking, w)
          /\ keyLists' \in {keyLists, [keyLists EXCEPT ![w] = KeysTab!Mount(keyLists[w], late)]}
      BY <3>1 DEF KeysTab!Switch, KeysTab!MountKeys, KeysTab!table, KeysTab!modals
    <3>3. GoesOn(creation, creation', KeysTab!Creation) /\ GoesOn(revoking, revoking', KeysTab!Revocation)
      BY <1>1, <3>2, CreationGoes, RevocationGoes
    <3> QED BY <1>1, <3>2, <3>3 DEF KeysTab!TypeOK
  <2> QED BY <2>1, <2>2
<1>4. keyMoves' \in 0 .. KeyMoves
  BY <1>1, Limits DEF KeysTab!OpenTab, KeysTab!Switch, KeysTab!Move, KeysTab!TypeOK, KeysTab!history
<1>5. /\ keyLists' \in [Workspaces -> KeysTab!Entry(SUBSET KeysTab!Rows)]
      /\ \A w \in Workspaces : Listing(w, keyLists'[w])
  BY <1>1, <1>2, <1>3 DEF KeysTab!TypeOK, Fresh
<1>6. KeysTab!TypeOK'
  <2>1. creation'.pc = "made" => creation'.key # {}
    BY <1>1, <1>3, KeyRequests DEF KeysTab!TypeOK, GoesOn
  <2> QED BY <1>1, <1>3, <1>4, <1>5, <2>1 DEF KeysTab!TypeOK, GoesOn
<1>7. Making' /\ OfWorkspace' /\ KeysTab!KeysAreShownOnce'
  BY <1>1, <1>3 DEF Making, OfWorkspace, KeysTab!KeysAreShownOnce, GoesOn
<1>8. Fresh'
  BY <1>1, <1>3, <1>5 DEF Fresh, Listing, Tells
<1> QED BY <1>6, <1>7, <1>8 DEF KeysInv

-----------------------------------------------------------------------------
(* A new key.                                                              *)

LEMMA CreateSteps ==
  ASSUME KeysInv, KeysTab!Submit \/ \E k \in Keys : KeysTab!CreateApiKey(k)
  PROVE  KeysInv'
<1>1. KeysTab!TypeOK /\ Making /\ OfWorkspace /\ Fresh /\ KeysTab!KeysAreShownOnce
  BY DEF KeysInv
<1>2. CASE KeysTab!Submit
  <2>1. /\ UNCHANGED <<home, revoked, selected, keysTab, keyLists, form, newKey, confirm, revoking, told, listed, gone, keyMoves>>
        /\ creation = KeysTab!Idle
        /\ creation' \in KeysTab!Creation /\ creation'.pc = "sent" /\ creation'.key = {} /\ keysTab
    BY <1>1, <1>2, FewKeys DEF KeysTab!Submit, KeysTab!Creation, KeysTab!TypeOK, KeysTab!table, KeysTab!modals, KeysTab!history
  <2>2. KeysTab!TypeOK'
    BY <1>1, <2>1 DEF KeysTab!TypeOK
  <2>3. Making' /\ OfWorkspace' /\ Fresh' /\ KeysTab!KeysAreShownOnce'
    BY <1>1, <2>1 DEF Making, OfWorkspace, Fresh, Listing, Tells, KeysTab!KeysAreShownOnce
  <2> QED BY <2>2, <2>3 DEF KeysInv
<1>3. ASSUME NEW k \in Keys, KeysTab!CreateApiKey(k) PROVE KeysInv'
  <2>1. creation \in KeysTab!Creation /\ creation # KeysTab!Idle /\ creation.pc = "sent" /\ creation.key = {}
    BY <1>1, <1>3, KeyRequests DEF KeysTab!CreateApiKey, Making
  <2>2. /\ UNCHANGED <<revoked, selected, keysTab, keyLists, form, newKey, confirm, revoking, told, listed, gone, keyMoves>>
        /\ home[k] = {} /\ home' = [home EXCEPT ![k] = {creation.in}] /\ creation.in \in Workspaces
        /\ creation' \in KeysTab!Creation /\ creation'.pc = "made" /\ creation'.key = {k}
        /\ creation'.in = creation.in /\ creation'.here = creation.here
    BY <1>3, <2>1, FewKeys DEF KeysTab!CreateApiKey, KeysTab!Creation, KeysTab!modals, KeysTab!history
  <2>3. {creation.in} \in KeysTab!Maybe(Workspaces) /\ creation' # KeysTab!Idle
    BY <2>2 DEF KeysTab!Maybe, KeysTab!Creation, KeysTab!Idle
  <2>4. /\ home' \in [Keys -> KeysTab!Maybe(Workspaces)]
        /\ home'[k] = {creation.in} /\ \A l \in Keys : l # k => home'[l] = home[l]
    BY <1>1, <2>2, <2>3 DEF KeysTab!TypeOK
  <2>5. KeysTab!TypeOK'
    BY <1>1, <2>2, <2>4 DEF KeysTab!TypeOK
  <2>6. Making' /\ OfWorkspace' /\ KeysTab!KeysAreShownOnce'
    BY <1>1, <2>1, <2>2, <2>3, <2>4, KeyRequests DEF Making, OfWorkspace, KeysTab!KeysAreShownOnce, KeysTab!TypeOK, KeysTab!Revocation, KeysTab!Maybe
  <2>7. ASSUME NEW w \in Workspaces PROVE Listing(w, keyLists[w])'
    <3>1. Listing(w, keyLists[w]) /\ keyLists[w] \in KeysTab!Entry(SUBSET KeysTab!Rows) /\ k \notin listed
      BY <1>1, <2>2 DEF Fresh, KeysTab!TypeOK
    <3>2. \A l \in Keys : l \in listed => home'[l] = home[l]
      BY <2>4, <3>1
    <3> QED BY <1>1, <2>2, <2>4, <3>1, <3>2 DEF Listing, Tells, KeysTab!TypeOK, KeysTab!Entry, KeysTab!Maybe, KeysTab!Rows
  <2>8. Fresh'
    BY <1>1, <2>2, <2>4, <2>7 DEF Fresh
  <2> QED BY <2>5, <2>6, <2>8 DEF KeysInv
<1> QED BY <1>2, <1>3

(* The list of a workspace is invalidated once a change in it is answered; *)
(* if it was asked for again by that, its answer will tell the change.     *)
LEMMA Invalidated ==
  ASSUME KeysInv, NEW w \in Workspaces, KeysTab!InvalidateKeys(w)
  PROVE  /\ keyLists' \in [Workspaces -> KeysTab!Entry(SUBSET KeysTab!Rows)]
         /\ keyLists' = [keyLists EXCEPT ![w] = KeysTab!Invalidate(keyLists[w], keysTab /\ w = selected)]
         /\ \A v \in Workspaces : Listing(v, keyLists'[v])
         /\ keyLists'[w].stale
         /\ (IF keysTab /\ w = selected THEN keyLists[w].data # {} ELSE keyLists[w].flight = "none") =>
              keyLists'[w].got = {}
<1>1. KeysTab!TypeOK /\ Fresh
  BY DEF KeysInv
<1> DEFINE on == keysTab /\ w = selected
           e == keyLists[w]
           d == KeysTab!Invalidate(e, on)
<1>2. on \in BOOLEAN
  BY <1>1 DEF KeysTab!TypeOK
<1>3. e \in KeysTab!Entry(SUBSET KeysTab!Rows) /\ Listing(w, e)
  BY <1>1 DEF KeysTab!TypeOK, Fresh
<1>4. keyLists' = [keyLists EXCEPT ![w] = d] /\ d = KeysTab!Invalidate(keyLists[w], keysTab /\ w = selected)
  BY DEF KeysTab!InvalidateKeys
<1>5. d \in KeysTab!Entry(SUBSET KeysTab!Rows) /\ Listing(w, d)
  BY <1>1, <1>2, <1>3, ListGoes, KeyLists
<1>6. d.stale /\ ((IF on THEN e.data # {} ELSE e.flight = "none") => d.got = {})
  BY <1>3 DEF KeysTab!Invalidate, KeysTab!Send, KeysTab!Entry, Listing
<1> HIDE DEF d
<1> QED BY <1>1, <1>4, <1>5, <1>6 DEF Fresh, KeysTab!TypeOK

LEMMA CreatedStep == ASSUME KeysInv, KeysTab!Created PROVE KeysInv'
<1> DEFINE w == creation.at
<1>1. KeysTab!TypeOK /\ Making /\ OfWorkspace /\ Fresh /\ KeysTab!KeysAreShownOnce
  BY DEF KeysInv
<1>2. /\ creation \in KeysTab!Creation /\ creation # KeysTab!Idle /\ creation.pc = "made"
      /\ creation.key \in KeysTab!Maybe(Keys) /\ creation.key \subseteq Keys
      /\ \A k \in creation.key : home[k] = {creation.in}
      /\ w \in Workspaces /\ creation.in \in Workspaces
  BY <1>1, KeyRequests DEF KeysTab!Created, Making, KeysTab!Creation, KeysTab!Maybe
<1>3. /\ UNCHANGED <<home, revoked, selected, keysTab, confirm, revoking, gone, keyMoves>>
      /\ creation' = KeysTab!Idle /\ told' = told \cup creation.key
      /\ \/ newKey' = newKey /\ form' = form
         \/ newKey' = creation.key /\ form' = FALSE /\ creation.here
      /\ listed' = IF KeysTab!Asked(creation) THEN listed \cup creation.key ELSE listed
      /\ KeysTab!InvalidateKeys(w)
  BY DEF KeysTab!Created, KeysTab!table
<1>4. /\ keyLists' \in [Workspaces -> KeysTab!Entry(SUBSET KeysTab!Rows)]
      /\ \A v \in Workspaces : v # w => keyLists'[v] = keyLists[v]
      /\ \A v \in Workspaces : Listing(v, keyLists'[v])
      /\ keyLists'[w].stale
      /\ KeysTab!Asked(creation) => w = creation.in /\ keyLists'[w].got = {}
  BY <1>1, <1>2, <1>3, Invalidated DEF KeysTab!Asked, KeysTab!TypeOK
<1>5. KeysTab!TypeOK'
  <2>1. creation'.pc # "made" /\ (creation.here => keysTab)
    BY <1>1, <1>2, <1>3 DEF KeysTab!Idle, Making
  <2>2. /\ form' \in BOOLEAN /\ newKey' \in KeysTab!Maybe(Keys)
        /\ ~keysTab => ~form' /\ newKey' = {} /\ confirm = {}
    <3>1. /\ form \in BOOLEAN /\ newKey \in KeysTab!Maybe(Keys)
          /\ ~keysTab => ~form /\ newKey = {} /\ confirm = {}
      BY <1>1 DEF KeysTab!TypeOK
    <3>2. CASE newKey' = newKey /\ form' = form
      BY <3>1, <3>2
    <3>3. CASE newKey' = creation.key /\ form' = FALSE /\ creation.here
      BY <1>2, <2>1, <3>3
    <3> QED BY <1>3, <3>2, <3>3
  <2> QED BY <1>1, <1>2, <1>3, <1>4, <2>1, <2>2 DEF KeysTab!TypeOK
<1>6. Making' /\ OfWorkspace' /\ KeysTab!KeysAreShownOnce'
  BY <1>1, <1>2, <1>3 DEF Making, OfWorkspace, KeysTab!KeysAreShownOnce
<1>7. ASSUME NEW v \in Workspaces PROVE Listing(v, keyLists[v])'
  <2>1. CASE v = w /\ KeysTab!Asked(creation)
    BY <1>3, <1>4, <2>1 DEF Listing, Tells
  <2>2. CASE ~KeysTab!Asked(creation)
    BY <1>3, <1>4, <2>2 DEF Listing, Tells
  <2>3. CASE v # w /\ KeysTab!Asked(creation)
    <3>1. \A k \in listed' : home[k] = {v} => k \in listed
      BY <1>2, <1>3, <1>4, <2>3
    <3> QED BY <1>3, <1>4, <3>1 DEF Listing, Tells
  <2> QED BY <2>1, <2>2, <2>3
<1>8. Fresh'
  BY <1>1, <1>2, <1>3, <1>7 DEF Fresh
<1> QED BY <1>5, <1>6, <1>8 DEF KeysInv

(* The answer is lost.                                                     *)
LEMMA CreateFailsStep == ASSUME KeysInv, KeysTab!CreateFails PROVE KeysInv'
<1>1. KeysTab!TypeOK /\ Making /\ OfWorkspace /\ Fresh /\ KeysTab!KeysAreShownOnce
  BY DEF KeysInv
<1>2. /\ UNCHANGED <<home, revoked, selected, keysTab, keyLists, form, newKey, confirm, revoking, listed, gone, keyMoves>>
      /\ creation # KeysTab!Idle /\ creation' = KeysTab!Idle /\ told' = told \cup creation.key
  BY DEF KeysTab!CreateFails, KeysTab!table, KeysTab!modals
<1>3. creation.key \subseteq Keys /\ creation'.pc # "made"
  BY <1>1, <1>2, KeyRequests DEF KeysTab!Creation, KeysTab!Maybe, KeysTab!Idle
<1>4. KeysTab!TypeOK'
  BY <1>1, <1>2, <1>3 DEF KeysTab!TypeOK
<1>5. Making' /\ OfWorkspace' /\ Fresh' /\ KeysTab!KeysAreShownOnce'
  BY <1>1, <1>2 DEF Making, OfWorkspace, Fresh, Listing, Tells, KeysTab!KeysAreShownOnce
<1> QED BY <1>4, <1>5 DEF KeysInv

-----------------------------------------------------------------------------
(* Revoking.                                                               *)

LEMMA RevokeSteps ==
  ASSUME KeysInv, KeysTab!ConfirmRevoke \/ KeysTab!RevokeFails
  PROVE  KeysInv'
<1>1. KeysTab!TypeOK /\ Making /\ OfWorkspace /\ Fresh /\ KeysTab!KeysAreShownOnce
  BY DEF KeysInv
<1>2. /\ UNCHANGED <<home, revoked, selected, keysTab, keyLists, form, newKey, confirm, creation, told, listed, gone, keyMoves>>
      /\ revoking' \in {KeysTab!Idle} \cup KeysTab!Revocation
      /\ revoking' # KeysTab!Idle => revoking'.pc # "done" /\ revoking'.in = selected /\ revoking'.key \in confirm
  <2>1. CASE KeysTab!RevokeFails
    BY <2>1 DEF KeysTab!RevokeFails, KeysTab!table, KeysTab!modals, KeysTab!history
  <2>2. CASE KeysTab!ConfirmRevoke
    <3>1. confirm \subseteq Keys /\ selected \in Workspaces
      BY <1>1 DEF KeysTab!TypeOK, KeysTab!Maybe
    <3> QED BY <2>2, <3>1 DEF KeysTab!ConfirmRevoke, KeysTab!Revocation, KeysTab!table, KeysTab!modals, KeysTab!history
  <2> QED BY <2>1, <2>2
<1>3. KeysTab!TypeOK'
  BY <1>1, <1>2 DEF KeysTab!TypeOK
<1>4. Making' /\ OfWorkspace' /\ Fresh' /\ KeysTab!KeysAreShownOnce'
  BY <1>1, <1>2 DEF Making, OfWorkspace, Fresh, Listing, Tells, KeysTab!KeysAreShownOnce
<1> QED BY <1>3, <1>4 DEF KeysInv

(* The API revokes the key; or another member does.                        *)
LEMMA KeyRevoked ==
  ASSUME KeysInv, KeysTab!RevokeApiKey \/ \E k \in Keys : KeysTab!RevokeElsewhere(k)
  PROVE  KeysInv'
<1>1. KeysTab!TypeOK /\ Making /\ OfWorkspace /\ Fresh /\ KeysTab!KeysAreShownOnce
  BY DEF KeysInv
<1>2. /\ UNCHANGED <<home, selected, keysTab, keyLists, form, newKey, confirm, creation, told, listed, gone>>
      /\ revoked \subseteq revoked' /\ revoked' \subseteq {k \in Keys : home[k] # {}}
      /\ revoking' \in {KeysTab!Idle} \cup KeysTab!Revocation
      /\ revoking' # KeysTab!Idle =>
           /\ home[revoking'.key] = {revoking'.in}
           /\ revoking'.pc = "done" => revoking'.key \in revoked'
      /\ keyMoves' \in 0 .. KeyMoves
  <2>1. CASE KeysTab!RevokeApiKey
    <3>1. /\ revoking \in KeysTab!Revocation /\ revoking # KeysTab!Idle
          /\ home[revoking.key] = {revoking.in} /\ revoking.key \in Keys
      BY <1>1, <2>1, KeyRequests DEF KeysTab!RevokeApiKey, KeysTab!Revocation, OfWorkspace
    <3>2. /\ revoking' \in KeysTab!Revocation /\ revoking'.key = revoking.key /\ revoking'.in = revoking.in
          /\ revoked' = revoked \cup {revoking.key}
          /\ UNCHANGED <<home, selected, keysTab, keyLists, form, newKey, confirm, creation, told, listed, gone, keyMoves>>
      BY <2>1, <3>1 DEF KeysTab!RevokeApiKey, KeysTab!Revocation, KeysTab!modals, KeysTab!history
    <3> QED BY <1>1, <3>1, <3>2 DEF KeysTab!TypeOK
  <2>2. CASE \E k \in Keys : KeysTab!RevokeElsewhere(k)
    <3>1. /\ UNCHANGED <<home, selected, keysTab, keyLists, form, newKey, confirm, creation, revoking, told, listed, gone>>
          /\ revoked \subseteq revoked' /\ revoked' \subseteq {k \in Keys : home[k] # {}}
      BY <1>1, <2>2 DEF KeysTab!RevokeElsewhere, KeysTab!modals, KeysTab!TypeOK
    <3>2. keyMoves' \in 0 .. KeyMoves
      BY <1>1, <2>2, Limits DEF KeysTab!RevokeElsewhere, KeysTab!Move, KeysTab!TypeOK
    <3> QED BY <1>1, <3>1, <3>2 DEF KeysTab!TypeOK, OfWorkspace
  <2> QED BY <2>1, <2>2
<1>3. KeysTab!TypeOK'
  BY <1>1, <1>2 DEF KeysTab!TypeOK
<1>4. Making' /\ OfWorkspace' /\ Fresh' /\ KeysTab!KeysAreShownOnce'
  BY <1>1, <1>2 DEF Making, OfWorkspace, Fresh, Listing, Tells, KeysTab!KeysAreShownOnce
<1> QED BY <1>3, <1>4 DEF KeysInv

LEMMA RevokedStep == ASSUME KeysInv, KeysTab!Revoked PROVE KeysInv'
<1> DEFINE w == revoking.at
<1>1. KeysTab!TypeOK /\ Making /\ OfWorkspace /\ Fresh /\ KeysTab!KeysAreShownOnce
  BY DEF KeysInv
<1>2. /\ revoking \in KeysTab!Revocation /\ revoking # KeysTab!Idle /\ revoking.pc = "done"
      /\ w \in Workspaces /\ revoking.in \in Workspaces /\ revoking.key \in Keys
      /\ home[revoking.key] = {revoking.in} /\ revoking.key \in revoked
  BY <1>1, KeyRequests DEF KeysTab!Revoked, OfWorkspace, KeysTab!Revocation
<1>3. /\ UNCHANGED <<home, revoked, selected, keysTab, form, newKey, creation, told, listed, keyMoves>>
      /\ revoking' = KeysTab!Idle /\ confirm' \in {{}, confirm}
      /\ gone' = IF KeysTab!Asked(revoking) THEN gone \cup {revoking.key} ELSE gone
      /\ KeysTab!InvalidateKeys(w)
  BY DEF KeysTab!Revoked, KeysTab!table
<1>4. /\ keyLists' \in [Workspaces -> KeysTab!Entry(SUBSET KeysTab!Rows)]
      /\ \A v \in Workspaces : v # w => keyLists'[v] = keyLists[v]
      /\ \A v \in Workspaces : Listing(v, keyLists'[v])
      /\ keyLists'[w].stale
      /\ KeysTab!Asked(revoking) => w = revoking.in /\ keyLists'[w].got = {}
  BY <1>1, <1>2, <1>3, Invalidated DEF KeysTab!Asked, KeysTab!TypeOK
<1>5. KeysTab!TypeOK'
  BY <1>1, <1>2, <1>3, <1>4, FewKeys DEF KeysTab!TypeOK
<1>6. Making' /\ OfWorkspace' /\ KeysTab!KeysAreShownOnce'
  BY <1>1, <1>2, <1>3 DEF Making, OfWorkspace, KeysTab!KeysAreShownOnce
<1>7. ASSUME NEW v \in Workspaces PROVE Listing(v, keyLists[v])'
  <2>1. CASE v = w /\ KeysTab!Asked(revoking)
    BY <1>3, <1>4, <2>1 DEF Listing, Tells
  <2>2. CASE ~KeysTab!Asked(revoking)
    BY <1>3, <1>4, <2>2 DEF Listing, Tells
  <2>3. CASE v # w /\ KeysTab!Asked(revoking)
    <3>1. \A k \in gone' : home[k] = {v} => k \in gone
      BY <1>2, <1>3, <1>4, <2>3
    <3> QED BY <1>3, <1>4, <3>1 DEF Listing, Tells
  <2> QED BY <2>1, <2>2, <2>3
<1>8. Fresh'
  BY <1>1, <1>2, <1>3, <1>7 DEF Fresh
<1> QED BY <1>5, <1>6, <1>8 DEF KeysInv

LEMMA KeysInvStep == KeysInv /\ [KeysTab!Next]_(KeysTab!vars) => KeysInv'
<1> SUFFICES ASSUME KeysInv, [KeysTab!Next]_(KeysTab!vars) PROVE KeysInv'
  OBVIOUS
<1>1. CASE KeysTab!Next
  BY <1>1, TabSteps, LeaveStep, ListSteps, MountSteps, CreateSteps, CreatedStep, CreateFailsStep, RevokeSteps,
     KeyRevoked, RevokedStep DEF KeysTab!Next
<1>2. CASE UNCHANGED KeysTab!vars
  <2>1. KeysTab!TypeOK'
    BY <1>2 DEF KeysTab!vars, KeysInv, KeysTab!TypeOK
  <2>2. Making' /\ OfWorkspace' /\ Fresh' /\ KeysTab!KeysAreShownOnce'
    BY <1>2 DEF KeysTab!vars, KeysInv, Making, OfWorkspace, Fresh, Listing, Tells, KeysTab!KeysAreShownOnce
  <2> QED BY <2>1, <2>2 DEF KeysInv
<1> QED BY <1>1, <1>2

LEMMA ListedFollows == KeysInv => KeysTab!OwnChangesAreListed
<1> SUFFICES ASSUME KeysInv PROVE KeysTab!OwnChangesAreListed
  OBVIOUS
<1>1. \A w \in Workspaces : Listing(w, keyLists[w])
  BY DEF KeysInv, Fresh
<1> QED BY <1>1 DEF Listing, Tells, KeysTab!OwnChangesAreListed

(* A key is created only by the request whose answer shows it, so one that *)
(* exists was shown in full, or is about to be, or its answer was lost.    *)
THEOREM KeysShownOnce == KeysTab!Spec => []KeysTab!KeysAreShownOnce
<1>1. KeysInv => KeysTab!KeysAreShownOnce
  BY DEF KeysInv
<1> QED BY <1>1, KeysInvInit, KeysInvStep, PTL DEF KeysTab!Spec

(* Invalidating the list drops the answer under way, or leaves the list    *)
(* stale: no list that passes for fresh lacks a change made in the tab.    *)
THEOREM OwnChangesListed == KeysTab!Spec => []KeysTab!OwnChangesAreListed
BY KeysInvInit, KeysInvStep, ListedFollows, PTL DEF KeysTab!Spec

-----------------------------------------------------------------------------
(* All of them, one at a time.                                             *)

PartInv ==
  /\ part = "deletion" => DeletionInv
  /\ part = "connect" => ConnectInv
  /\ part = "sign-in" => SignInInv
  /\ part = "browser" => BrowserInv
  /\ part = "keys" => KeysInv

LEMMA PartInvInit == RequestsInit => PartInv
BY DeletionInvInit, ConnectInvInit, SignInInit, BrowserInit, KeysInvInit DEF RequestsInit, PartInv

LEMMA PartInvStep == PartInv /\ [RequestsNext]_requestVars => PartInv'
<1> SUFFICES ASSUME PartInv, [RequestsNext]_requestVars
             PROVE  PartInv'
  OBVIOUS
<1>1. /\ deletionVars = Deletion!vars /\ connectVars = Connect!vars /\ signInVars = SignIn!vars
      /\ browserVars = Browser!vars /\ keyVars = KeysTab!vars
      /\ deletionVars' = Deletion!vars' /\ connectVars' = Connect!vars' /\ signInVars' = SignIn!vars'
      /\ browserVars' = Browser!vars' /\ keyVars' = KeysTab!vars'
  BY DEF deletionVars, connectVars, signInVars, browserVars, keyVars, Deletion!vars, Connect!vars, SignIn!vars,
         Browser!vars, KeysTab!vars
<1>2. part' = part
  BY DEF RequestsNext, requestVars
<1>3. CASE part = "deletion"
  BY <1>1, <1>2, <1>3, DeletionInvStep DEF PartInv, RequestsNext, requestVars
<1>4. CASE part = "connect"
  BY <1>1, <1>2, <1>4, ConnectInvStep DEF PartInv, RequestsNext, requestVars
<1>5. CASE part = "sign-in"
  BY <1>1, <1>2, <1>5, SignInStep DEF PartInv, RequestsNext, requestVars
<1>6. CASE part = "browser"
  BY <1>1, <1>2, <1>6, BrowserInvStep DEF PartInv, RequestsNext, requestVars
<1>7. CASE part = "keys"
  BY <1>1, <1>2, <1>7, KeysInvStep DEF PartInv, RequestsNext, requestVars
<1> QED BY <1>2, <1>3, <1>4, <1>5, <1>6, <1>7 DEF PartInv

(* While the others rest, joining goes on as if they were not there.       *)
THEOREM JoiningGoesOn == RequestsSpec => Spec
<1>1. RequestsInit => Init
  BY DEF RequestsInit
<1>2. [RequestsNext]_requestVars => [Next]_vars
  BY DEF RequestsNext, requestVars
<1> QED BY <1>1, <1>2, PTL DEF RequestsSpec, Spec

(* A deleted account hands its workspaces over and ends its billing first, *)
(* an app is connected once for a request and a refusal leaves no key,     *)
(* signing in is bounded in mails and arrives, the workspace shown is the  *)
(* user's own, and the tab of keys shows what it did.                      *)
THEOREM RequestsEnd == RequestsSpec => []RequestsEndAsPromised
<1>1. PartInv => RequestsEndAsPromised
  BY HandedOverFollows, BillingFollows, OnceFollows, RefusalFollows, MailsFollow, ShownFollows, ListedFollows
     DEF PartInv, SignInInv, Heading, SignIn!ArrivesWhereHeaded, KeysInv, RequestsEndAsPromised
<1> QED BY <1>1, PartInvInit, PartInvStep, PTL DEF RequestsSpec

=============================================================================
