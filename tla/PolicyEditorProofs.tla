------------------------- MODULE PolicyEditorProofs -------------------------
(***************************************************************************)
(* Proofs about the policy page, for any workspaces, rules and saves, and  *)
(* any number of revisions and turns.                                      *)
(***************************************************************************)
EXTENDS PolicyEditor, TLAPS

-----------------------------------------------------------------------------
(* The inductive invariant.                                                *)

(* An answer that has come, or is on its way, is not newer than the row of *)
(* the policies table, and is that row if it is of its revision.           *)
UpTo(r, latest) == r.rev <= latest.rev /\ (r.rev = latest.rev => r = latest)

(* What the page has come to show, it has shown something of; answers come *)
(* in the order they were read in.                                         *)
InOrder(w) ==
  /\ due[w] <= policy[w].rev
  /\ cache[w].data = {} => due[w] = 0
  /\ \A r \in cache[w].data \cup cache[w].got : UpTo(r, policy[w])
  /\ \A r \in cache[w].data, g \in cache[w].got : UpTo(r, g)

(* What a save wrote was a revision of the policy.                         *)
Wrote(i) == puts[i].pc = "written" => puts[i].rev <= policy[puts[i].to].rev

Revised == (\A w \in Workspaces : InOrder(w)) /\ (\A i \in Saves : Wrote(i))

Inv == TypeOK /\ Revised /\ SavedIsShown /\ EditorIsOfWorkspace

-----------------------------------------------------------------------------
(* Sets of at most one element, texts, and saves.                          *)

LEMMA Singletons ==
  ASSUME NEW S
  PROVE  /\ {} \in Maybe(S)
         /\ \A x \in S : {x} \in Maybe(S)
         /\ \A d \in Maybe(S) : d \subseteq S /\ \A x \in d : d = {x}
BY DEF Maybe

LEMMA TextFields ==
  ASSUME NEW t \in Text
  PROVE  t.home \in Workspaces /\ t.kind \in {"policy", "refused"}
BY DEF Text

(* An edit of a text is about the workspace that the text is about.        *)
LEMMA ToggledText ==
  ASSUME NEW t \in Text, NEW r \in Rules
  PROVE  Toggled(t, r) \in Text /\ Toggled(t, r).home = t.home
BY DEF Text, Toggled

LEMMA RowFields ==
  ASSUME NEW r \in Row
  PROVE  r.text \in Text /\ r.rev \in Nat
BY DEF Row

LEMMA TextsOfRows ==
  ASSUME NEW rows \in Maybe(Row)
  PROVE  /\ Texts(rows) \in Maybe(Text)
         /\ \A t \in Texts(rows), r \in rows : t.home = r.text.home
         /\ rows = {} <=> Texts(rows) = {}
<1>1. CASE rows = {}
  <2>1. Texts(rows) = {}
    BY <1>1 DEF Texts
  <2>2. {} \in Maybe(Text)
    BY Singletons
  <2> QED BY <1>1, <2>1, <2>2
<1>2. CASE rows # {}
  <2>1. PICK r \in Row : rows = {r}
    BY <1>2, Singletons
  <2>2. Texts(rows) = {r.text}
    BY <2>1 DEF Texts
  <2>3. r.text \in Text
    BY RowFields
  <2>4. {r.text} \in Maybe(Text)
    BY <2>3, Singletons
  <2> QED BY <2>1, <2>2, <2>4
<1> QED BY <1>1, <1>2

LEMMA PutFields ==
  ASSUME TypeOK, NEW i \in Saves
  PROVE  /\ puts[i] \in {NoSave, SaveDone} \cup Put
         /\ puts[i].pc \in {"sent", "orphaned", "refused", "written"} => puts[i] \in Put
         /\ puts[i] \in Put => /\ puts[i].text \in Text /\ puts[i].to \in Workspaces
                               /\ puts[i].inv \in Workspaces /\ puts[i].rev \in Nat
<1>1. puts[i] \in {NoSave, SaveDone} \cup Put
  BY DEF TypeOK
<1> QED BY <1>1 DEF NoSave, SaveDone, Put

-----------------------------------------------------------------------------
(* The query's entries in the cache.                                       *)

LEMMA EntryFields ==
  ASSUME NEW S, NEW e \in Entry(S)
  PROVE  /\ e.data \in Maybe(S) /\ e.got \in Maybe(S) /\ e.stale \in BOOLEAN
         /\ e.flight \in {"none", "sent", "read"}
BY DEF Entry

(* An entry that asks again, or gives up, or is only marked as stale, has  *)
(* the data it had, and on its way what it had or nothing.                 *)
Kept(d, e) ==
  /\ d.data = e.data
  /\ d.got \subseteq e.got
  /\ e.stale => d.stale
  /\ d.flight = "read" => e.flight = "read" /\ d.got = e.got

LEMMA EntrySent ==
  ASSUME NEW S, NEW e \in Entry(S)
  PROVE  Send(e) \in Entry(S) /\ Kept(Send(e), e) /\ Send(e).got = {}
<1>1. {} \in Maybe(S)
  BY Singletons
<1> QED BY <1>1 DEF Send, Entry, Kept

LEMMA EntryMounted ==
  ASSUME NEW S, NEW e \in Entry(S), NEW aged \in BOOLEAN
  PROVE  Mount(e, aged) \in Entry(S) /\ Kept(Mount(e, aged), e)
<1>1. Mount(e, aged) \in {e, Send(e)}
  BY DEF Mount, Fetch
<1>2. Kept(e, e)
  BY DEF Kept
<1> QED BY <1>1, <1>2, EntrySent

LEMMA EntryRead ==
  ASSUME NEW S, NEW e \in Entry(S), NEW answer \in S
  PROVE  /\ Read(e, answer) \in Entry(S)
         /\ Read(e, answer).data = e.data /\ Read(e, answer).stale = e.stale
         /\ Read(e, answer).got = {answer}
<1>1. {answer} \in Maybe(S)
  BY Singletons
<1> QED BY <1>1 DEF Read, Entry

LEMMA EntryLanded ==
  ASSUME NEW S, NEW e \in Entry(S)
  PROVE  /\ Landed(e) \in Entry(S)
         /\ Landed(e).data = e.got /\ Landed(e).got = {} /\ Landed(e).flight = "none"
<1>1. {} \in Maybe(S)
  BY Singletons
<1> QED BY <1>1 DEF Landed, Entry

LEMMA EntryFailed ==
  ASSUME NEW S, NEW e \in Entry(S)
  PROVE  Failed(e) \in Entry(S) /\ Kept(Failed(e), e)
<1>1. {} \in Maybe(S)
  BY Singletons
<1> QED BY <1>1 DEF Failed, Entry, Kept

(* An entry that is invalidated is stale, and if it is on screen and has   *)
(* data, what was on its way is dropped.                                   *)
LEMMA EntryInvalidated ==
  ASSUME NEW S, NEW e \in Entry(S), NEW onScreen \in BOOLEAN, NEW i, i = Invalidate(e, onScreen)
  PROVE  /\ i \in Entry(S) /\ Kept(i, e) /\ i.stale
         /\ onScreen /\ e.data # {} => i.got = {}
<1> DEFINE s == [e EXCEPT !.stale = TRUE]
<1>1. s \in Entry(S) /\ Kept(s, e) /\ s.data = e.data /\ s.stale
  BY DEF Entry, Kept
<1>2. /\ Send(s) \in Entry(S) /\ Kept(Send(s), e) /\ Send(s).got = {} /\ Send(s).stale
  <2>1. Send(s) \in Entry(S) /\ Kept(Send(s), s) /\ Send(s).got = {}
    BY <1>1, EntrySent
  <2> QED BY <1>1, <2>1 DEF Kept
<1>3. i = IF onScreen /\ (e.data # {} \/ e.flight = "none") THEN Send(s) ELSE s
  BY DEF Invalidate
<1> HIDE DEF s
<1> QED BY <1>1, <1>2, <1>3

-----------------------------------------------------------------------------
(* What an action leaves in order.                                         *)

SavedFor(w) ==
  \A r \in cache[w].data :
    r.rev < due[w] => cache[w].stale /\ \A g \in cache[w].got : g.rev >= due[w]

LEMMA CacheFields ==
  ASSUME TypeOK, NEW w \in Workspaces
  PROVE  /\ cache[w] \in Entry(Row)
         /\ cache[w].data \in Maybe(Row) /\ cache[w].got \in Maybe(Row)
         /\ \A r \in cache[w].data \cup cache[w].got : r \in Row /\ r.rev \in Nat
         /\ policy[w] \in Row /\ policy[w].rev \in Nat /\ due[w] \in Nat
<1>1. cache[w] \in Entry(Row) /\ policy[w] \in Row /\ due[w] \in Nat
  BY DEF TypeOK
<1>2. cache[w].data \in Maybe(Row) /\ cache[w].got \in Maybe(Row)
  BY <1>1, EntryFields
<1>3. cache[w].data \subseteq Row /\ cache[w].got \subseteq Row
  BY <1>2, Singletons
<1> QED BY <1>1, <1>2, <1>3, RowFields

(* The policy may get a new revision, and an entry ask again or give up.   *)
LEMMA StillInOrder ==
  ASSUME TypeOK, NEW w \in Workspaces, InOrder(w), SavedFor(w),
         Kept(cache'[w], cache[w]), due'[w] = due[w],
         policy'[w] \in Row, UpTo(policy[w], policy'[w])
  PROVE  InOrder(w)' /\ SavedFor(w)'
<1>1. policy'[w].rev \in Nat
  BY RowFields
<1>2. \A r \in Row : UpTo(r, policy[w]) => UpTo(r, policy'[w])
  <2> SUFFICES ASSUME NEW r \in Row, UpTo(r, policy[w]) PROVE UpTo(r, policy'[w])
    OBVIOUS
  <2>1. r.rev \in Nat /\ policy[w].rev \in Nat
    BY RowFields, CacheFields
  <2> QED BY <1>1, <2>1 DEF UpTo
<1>3. cache'[w].data = cache[w].data /\ cache'[w].got \subseteq cache[w].got
      /\ (cache[w].stale => cache'[w].stale)
  BY DEF Kept
<1>4. InOrder(w)'
  <2>1. due'[w] <= policy'[w].rev
    BY <1>1, CacheFields DEF InOrder, UpTo
  <2>2. \A r \in cache'[w].data \cup cache'[w].got : UpTo(r, policy'[w])
    BY <1>2, <1>3, CacheFields DEF InOrder
  <2>3. \A r \in cache'[w].data, g \in cache'[w].got : UpTo(r, g)
    BY <1>3 DEF InOrder
  <2> QED BY <1>3, <2>1, <2>2, <2>3 DEF InOrder
<1>5. SavedFor(w)'
  BY <1>3 DEF SavedFor
<1> QED BY <1>4, <1>5

(* Nothing has changed about a workspace.                                  *)
LEMMA SameInOrder ==
  ASSUME NEW w \in Workspaces, InOrder(w), SavedFor(w),
         cache'[w] = cache[w], due'[w] = due[w], policy'[w] = policy[w]
  PROVE  InOrder(w)' /\ SavedFor(w)'
BY DEF InOrder, SavedFor

LEMMA InOrderParts ==
  /\ Revised <=> (\A w \in Workspaces : InOrder(w)) /\ (\A i \in Saves : Wrote(i))
  /\ SavedIsShown <=> \A w \in Workspaces : SavedFor(w)
BY DEF Revised, SavedIsShown, SavedFor

LEMMA SameUpTo == \A r : r.rev \in Nat => UpTo(r, r)
BY DEF UpTo

(* The page stands as it stood, or there are more proposals, or the answer *)
(* that it shows is asked for again.                                       *)
LEMMA EditorStays ==
  ASSUME EditorIsOfWorkspace,
         screen'.open = screen.open, screen'.ws = screen.ws, screen'.draft \subseteq screen.draft,
         Shown' = Shown, chat.proposals \subseteq chat'.proposals
  PROVE  EditorIsOfWorkspace'
BY DEF EditorIsOfWorkspace

(* The editor holds the policy that the page shows.                        *)
LEMMA EditorOfShown ==
  ASSUME TypeOK', Shown' # {} => screen'.draft \subseteq Texts(Shown')
  PROVE  EditorIsOfWorkspace'
<1> SUFFICES ASSUME NEW t \in screen'.draft, NEW r \in Shown' PROVE t.home = r.text.home
  BY DEF EditorIsOfWorkspace
<1>1. t \in Texts(Shown')
  OBVIOUS
<1>2. screen'.ws \in Workspaces /\ cache'[screen'.ws] \in Entry(Row)
  BY DEF TypeOK
<1>3. Shown' \in Maybe(Row)
  BY <1>2, EntryFields DEF Shown
<1> QED BY <1>1, <1>3, TextsOfRows

(* A type of each variable.                                                *)
Screens == [open : BOOLEAN, ws : Workspaces, draft : Maybe(Text), save : SUBSET Saves]
Chats == [turn : Nat, proposals : SUBSET Text, pending : Maybe(Text),
          asking : BOOLEAN, base : Maybe(Text)]
Folded(s, c) == ~s.open => s.draft = {} /\ s.save = {} /\ c = NoChat
Brought(e) == e.flight = "read" => e.got # {}

LEMMA TypeParts ==
  TypeOK <=> /\ policy \in [Workspaces -> Row]
             /\ cache \in [Workspaces -> Entry(Row)]
             /\ \A w \in Workspaces : Brought(cache[w])
             /\ screen \in Screens /\ chat \in Chats
             /\ puts \in [Saves -> {NoSave, SaveDone} \cup Put]
             /\ due \in [Workspaces -> Nat]
             /\ Folded(screen, chat)
BY DEF TypeOK, Screens, Chats, Folded, Brought

LEMMA TypeNext ==
  ASSUME policy' \in [Workspaces -> Row],
         cache' \in [Workspaces -> Entry(Row)],
         \A w \in Workspaces : Brought(cache'[w]),
         screen' \in Screens, chat' \in Chats,
         puts' \in [Saves -> {NoSave, SaveDone} \cup Put],
         due' \in [Workspaces -> Nat],
         Folded(screen', chat')
  PROVE  TypeOK'
BY DEF TypeOK, Screens, Chats, Folded, Brought

-----------------------------------------------------------------------------
(* The page opens and closes, and the workspace is switched.               *)

(* An entry is mounted, or the page is closed and nothing happens to it.   *)
LEMMA Mounted ==
  ASSUME TypeOK, NEW w \in Workspaces, NEW aged \in BOOLEAN,
         cache' \in {cache, [cache EXCEPT ![w] = Mount(cache[w], aged)]}
  PROVE  /\ cache' \in [Workspaces -> Entry(Row)]
         /\ \A v \in Workspaces : Kept(cache'[v], cache[v]) /\ Brought(cache'[v])
<1>1. Mount(cache[w], aged) \in Entry(Row) /\ Kept(Mount(cache[w], aged), cache[w])
  BY CacheFields, EntryMounted
<1>2. \A v \in Workspaces : Kept(cache[v], cache[v])
  BY DEF Kept
<1>3. cache' \in [Workspaces -> Entry(Row)]
      /\ \A v \in Workspaces : cache'[v] \in {cache[v], Mount(cache[w], aged)}
                               /\ (v # w => cache'[v] = cache[v])
  BY <1>1 DEF TypeOK
<1>4. \A v \in Workspaces : Kept(cache'[v], cache[v])
  BY <1>1, <1>2, <1>3
<1>5. \A v \in Workspaces : Brought(cache'[v])
  BY <1>4, TypeParts DEF Kept, Brought
<1> QED BY <1>3, <1>4, <1>5

(* Neither the policies nor what the page has to show are any different.   *)
LEMMA QuietKeepsOrder ==
  ASSUME TypeOK, Revised, SavedIsShown, policy' = policy, due' = due,
         \A w \in Workspaces : Kept(cache'[w], cache[w]),
         \A i \in Saves : Wrote(i)'
  PROVE  Revised' /\ SavedIsShown'
<1>1. ASSUME NEW w \in Workspaces PROVE InOrder(w)' /\ SavedFor(w)'
  <2>1. policy[w] \in Row /\ UpTo(policy[w], policy[w])
    BY CacheFields, SameUpTo
  <2>2. InOrder(w) /\ SavedFor(w)
    BY InOrderParts
  <2> QED BY <2>1, <2>2, StillInOrder
<1> QED BY <1>1 DEF Revised, SavedIsShown, SavedFor

LEMMA SwitchStep ==
  ASSUME Inv, NEW w \in Workspaces, Switch(w)
  PROVE  Inv'
<1>1. TypeOK /\ Revised /\ SavedIsShown
  BY DEF Inv
<1>2. PICK aged \in BOOLEAN :
        cache' = IF screen.open THEN [cache EXCEPT ![w] = Mount(cache[w], aged)] ELSE cache
  BY DEF Switch
<1>3. /\ cache' \in [Workspaces -> Entry(Row)]
      /\ \A v \in Workspaces : Kept(cache'[v], cache[v]) /\ Brought(cache'[v])
  BY <1>1, <1>2, Mounted
<1>4. policy' = policy /\ chat' = chat /\ due' = due
  BY DEF Switch
<1>5. screen' \in Screens /\ screen'.open = screen.open /\ screen'.ws = w
      /\ screen'.save = screen.save
      /\ screen'.draft = IF screen.open THEN DraftFrom(cache[w].data) ELSE screen.draft
  <2>1. DraftFrom(cache[w].data) \in Maybe(Text)
    BY <1>1, CacheFields, TextsOfRows, TypeParts DEF DraftFrom, Screens
  <2> QED BY <1>1, <2>1, TypeParts DEF Switch, Screens
<1>6. \A i \in Saves : /\ puts'[i] \in {NoSave, SaveDone} \cup Put
                       /\ puts'[i].pc = puts[i].pc
                       /\ puts'[i].pc = "written" => puts'[i].rev = puts[i].rev /\ puts'[i].to = puts[i].to
  <2> TAKE i \in Saves
  <2>1. puts'[i] = IF i \in screen.save /\ screen.open /\ InFlight(i)
                   THEN [puts[i] EXCEPT !.inv = w] ELSE puts[i]
    BY DEF Switch
  <2>2. CASE InFlight(i)
    <3>1. puts[i] \in Put
      BY <1>1, <2>2, PutFields DEF InFlight
    <3> QED BY <2>1, <3>1 DEF Put
  <2>3. CASE ~InFlight(i)
    BY <1>1, <2>1, <2>3, PutFields
  <2> QED BY <2>2, <2>3
<1>7. puts' \in [Saves -> {NoSave, SaveDone} \cup Put]
  <2>1. puts' = [i \in Saves |-> puts'[i]]
    BY DEF Switch
  <2> QED BY <1>6, <2>1
<1>8. TypeOK'
  <2>1. Folded(screen', chat')
    BY <1>1, <1>4, <1>5, TypeParts DEF Folded
  <2> QED BY <1>1, <1>3, <1>4, <1>5, <1>7, <2>1, TypeParts, TypeNext
<1>9. Revised' /\ SavedIsShown'
  <2>1. \A i \in Saves : Wrote(i)'
    BY <1>1, <1>4, <1>6 DEF Revised, Wrote
  <2> QED BY <1>1, <1>3, <1>4, <2>1, QuietKeepsOrder
<1>10. EditorIsOfWorkspace'
  <2>1. CASE screen.open
    <3>1. Shown' = cache[w].data
      BY <1>3, <1>5 DEF Shown, Kept
    <3>2. Shown' # {} => screen'.draft = Texts(Shown')
      BY <1>5, <2>1, <3>1 DEF DraftFrom
    <3> QED BY <1>8, <3>2, EditorOfShown
  <2>2. CASE ~screen.open
    BY <1>5, <2>2 DEF EditorIsOfWorkspace
  <2> QED BY <2>1, <2>2
<1> QED BY <1>8, <1>9, <1>10 DEF Inv

LEMMA OpenPageStep ==
  ASSUME Inv, OpenPage
  PROVE  Inv'
<1>1. TypeOK /\ Revised /\ SavedIsShown
  BY DEF Inv
<1> DEFINE w == screen.ws
<1>2. w \in Workspaces /\ screen \in Screens
  BY <1>1, TypeParts DEF Screens
<1>3. PICK aged \in BOOLEAN : cache' = [cache EXCEPT ![w] = Mount(cache[w], aged)]
  BY DEF OpenPage
<1>4. /\ cache' \in [Workspaces -> Entry(Row)]
      /\ \A v \in Workspaces : Kept(cache'[v], cache[v]) /\ Brought(cache'[v])
  BY <1>1, <1>2, <1>3, Mounted
<1>5. policy' = policy /\ chat' = chat /\ due' = due /\ puts' = puts
  BY DEF OpenPage
<1>6. screen' \in Screens /\ screen'.open /\ screen'.ws = screen.ws /\ screen'.draft = Texts(Shown)
  <2>1. Texts(Shown) \in Maybe(Text)
    BY <1>1, <1>2, CacheFields, TextsOfRows DEF Shown
  <2> QED BY <1>2, <2>1 DEF OpenPage, Screens
<1>7. TypeOK'
  <2>1. Folded(screen', chat')
    BY <1>6 DEF Folded
  <2> QED BY <1>1, <1>4, <1>5, <1>6, <2>1, TypeParts, TypeNext
<1>8. Revised' /\ SavedIsShown'
  <2>1. \A i \in Saves : Wrote(i)'
    BY <1>1, <1>5 DEF Revised, Wrote
  <2> QED BY <1>1, <1>4, <1>5, <2>1, QuietKeepsOrder
<1>9. EditorIsOfWorkspace'
  <2>1. Shown' = Shown
    BY <1>2, <1>4, <1>6 DEF Shown, Kept
  <2> QED BY <1>6, <1>7, <2>1, EditorOfShown
<1> QED BY <1>7, <1>8, <1>9 DEF Inv

(* The actions that leave the policies, the cache and the requests alone.  *)
LEMMA OnlyThePage ==
  ASSUME Inv, policy' = policy, cache' = cache, puts' = puts, due' = due,
         screen' \in Screens, chat' \in Chats, Folded(screen', chat')
  PROVE  TypeOK' /\ Revised' /\ SavedIsShown'
<1>1. TypeOK'
  BY TypeParts, TypeNext DEF Inv
<1>2. \A w \in Workspaces : Kept(cache'[w], cache[w])
  BY DEF Kept
<1>3. \A i \in Saves : Wrote(i)'
  BY DEF Inv, Revised, Wrote
<1> QED BY <1>1, <1>2, <1>3, QuietKeepsOrder DEF Inv

LEMMA PageStep ==
  ASSUME Inv, LeavePage \/ Discard \/ (\E t \in Text : Type(t))
  PROVE  Inv'
<1>1. policy' = policy /\ cache' = cache /\ puts' = puts /\ due' = due
  BY DEF LeavePage, Discard, Type
<1>2. TypeOK /\ screen \in Screens /\ chat \in Chats /\ Shown \in Maybe(Row)
  BY TypeParts, CacheFields DEF Inv, Screens, Shown
<1>3. CASE LeavePage
  <2>1. screen' \in Screens /\ ~screen'.open /\ screen'.draft = {} /\ screen'.save = {}
        /\ chat' = NoChat /\ chat' \in Chats
    BY <1>2, <1>3, Singletons DEF LeavePage, Screens, NoChat, Chats
  <2> QED BY <1>1, <2>1, OnlyThePage DEF Folded, Inv, EditorIsOfWorkspace
<1>4. CASE Discard
  <2>1. screen' \in Screens /\ screen'.open = screen.open /\ screen'.save = screen.save
        /\ screen'.ws = screen.ws /\ screen'.draft = Texts(Shown) /\ Shown # {} /\ chat' = chat
    BY <1>2, <1>4, TextsOfRows DEF Discard, Screens, Dirty
  <2>2. TypeOK' /\ Revised' /\ SavedIsShown'
    <3>1. screen.open
      BY <1>2, <1>4, TypeParts, Singletons DEF Folded, Discard
    <3> QED BY <1>1, <1>2, <2>1, <3>1, OnlyThePage DEF Folded
  <2>3. EditorIsOfWorkspace'
    <3>1. Shown' = Shown
      BY <1>1, <2>1 DEF Shown
    <3> QED BY <2>1, <2>2, <3>1, EditorOfShown
  <2> QED BY <2>2, <2>3 DEF Inv
<1>5. CASE \E t \in Text : Type(t)
  <2>1. PICK t \in Text : Type(t)
    BY <1>5
  <2>2. screen' \in Screens /\ screen'.open /\ screen'.ws = screen.ws /\ screen'.draft = {t}
        /\ chat' = chat /\ t.home = screen'.ws
    BY <1>2, <2>1, Singletons DEF Type, Screens
  <2> QED BY <1>1, <1>2, <2>2, OnlyThePage DEF Folded, Inv, EditorIsOfWorkspace
<1> QED BY <1>3, <1>4, <1>5

-----------------------------------------------------------------------------
(* Saving.                                                                 *)

LEMMA PersistStep ==
  ASSUME Inv, NEW t \in Text, Persist(t), screen.open,
         \A r \in Shown : t.home \in {screen.ws, r.text.home} \cup {p.home : p \in chat.proposals},
         policy' = policy, cache' = cache, chat' = chat, due' = due
  PROVE  Inv'
<1>1. PICK i \in Saves :
        /\ puts' = [puts EXCEPT ![i] = [pc |-> "sent", text |-> t, to |-> screen.ws,
                                        inv |-> screen.ws, rev |-> 0]]
        /\ screen' = [screen EXCEPT !.draft = {t}, !.save = {i}]
  BY DEF Persist
<1>2. TypeOK /\ screen \in Screens /\ screen.ws \in Workspaces
  BY TypeParts DEF Inv, Screens
<1>3. screen' \in Screens /\ screen'.open /\ screen'.ws = screen.ws /\ screen'.draft = {t}
  BY <1>1, <1>2, Singletons DEF Screens
<1>4. puts' \in [Saves -> {NoSave, SaveDone} \cup Put]
  <2>1. [pc |-> "sent", text |-> t, to |-> screen.ws, inv |-> screen.ws, rev |-> 0] \in Put
    BY <1>2 DEF Put
  <2> QED BY <1>1, <1>2, <2>1 DEF TypeOK
<1>5. TypeOK'
  <2>1. Folded(screen', chat')
    BY <1>3 DEF Folded
  <2> QED BY <1>2, <1>3, <1>4, <2>1, TypeParts, TypeNext
<1>6. Revised' /\ SavedIsShown'
  <2>1. \A w \in Workspaces : Kept(cache'[w], cache[w])
    BY DEF Kept
  <2>2. \A j \in Saves : Wrote(j)'
    BY <1>1, <1>2 DEF Inv, Revised, Wrote, TypeOK
  <2> QED BY <1>2, <2>1, <2>2, QuietKeepsOrder DEF Inv
<1>7. EditorIsOfWorkspace'
  <2>1. Shown' = Shown
    BY <1>3 DEF Shown
  <2> QED BY <1>3, <2>1 DEF EditorIsOfWorkspace
<1> QED BY <1>5, <1>6, <1>7 DEF Inv

LEMMA SaveStep ==
  ASSUME Inv, (\E r \in Rules : Toggle(r)) \/ SavePolicy \/ (\E p \in Text : Apply(p))
  PROVE  Inv'
<1>1. policy' = policy /\ cache' = cache /\ chat' = chat /\ due' = due /\ screen.open
  BY DEF Toggle, SavePolicy, Apply, CanToggle, CanSave, CanApply
<1>2. screen.draft \subseteq Text
  BY TypeParts, Singletons DEF Inv, Screens
<1>3. \A t \in screen.draft, r \in Shown :
        t.home \in {screen.ws, r.text.home} \cup {p.home : p \in chat.proposals}
  BY <1>1 DEF Inv, EditorIsOfWorkspace
<1>4. CASE \E r \in Rules : Toggle(r)
  <2>1. PICK r \in Rules, t \in screen.draft : Persist(Toggled(t, r))
    BY <1>4 DEF Toggle
  <2>2. Toggled(t, r) \in Text /\ Toggled(t, r).home = t.home
    BY <1>2, ToggledText
  <2> QED BY <1>1, <1>3, <2>1, <2>2, PersistStep
<1>5. CASE SavePolicy
  <2>1. PICK t \in screen.draft : Persist(t)
    BY <1>5 DEF SavePolicy
  <2> QED BY <1>1, <1>2, <1>3, <2>1, PersistStep
<1>6. CASE \E p \in Text : Apply(p)
  <2>1. PICK p \in Text : Persist(p) /\ p \in chat.proposals
    BY <1>6 DEF Apply, CanApply
  <2> QED BY <1>1, <2>1, PersistStep
<1> QED BY <1>4, <1>5, <1>6

-----------------------------------------------------------------------------
(* The API writes a policy, for the page or for somebody else.             *)

(* A policy may have a new revision; nothing else that the page sees has   *)
(* changed.                                                                *)
LEMMA PolicyWritten ==
  ASSUME Inv, NEW w \in Workspaces, NEW t \in Text,
         policy' \in {policy, [policy EXCEPT ![w] = [text |-> t, rev |-> policy[w].rev + 1]]},
         cache' = cache, screen' = screen, chat' = chat, due' = due,
         puts' \in [Saves -> {NoSave, SaveDone} \cup Put],
         \A i \in Saves : Wrote(i)'
  PROVE  Inv'
<1>1. TypeOK
  BY DEF Inv
<1>2. policy[w].rev \in Nat
  BY <1>1, CacheFields
<1> DEFINE row == [text |-> t, rev |-> policy[w].rev + 1]
<1>3. row \in Row /\ row.rev = policy[w].rev + 1
  BY <1>2 DEF Row
<1>4. policy' \in {policy, [policy EXCEPT ![w] = row]}
  OBVIOUS
<1> HIDE DEF row
<1>5. /\ policy' \in [Workspaces -> Row]
      /\ \A v \in Workspaces : policy'[v] = policy[v] \/ (v = w /\ policy'[v] = row)
  BY <1>1, <1>3, <1>4 DEF TypeOK
<1>6. TypeOK'
  BY <1>1, <1>5, TypeParts, TypeNext
<1>7. Revised' /\ SavedIsShown'
  <2>1. ASSUME NEW v \in Workspaces PROVE InOrder(v)' /\ SavedFor(v)'
    <3>1. UpTo(policy[v], policy'[v]) /\ policy'[v] \in Row
      <4>1. UpTo(policy[v], policy[v])
        BY <1>1, CacheFields, SameUpTo
      <4>2. UpTo(policy[w], row)
        BY <1>2, <1>3 DEF UpTo
      <4> QED BY <1>5, <4>1, <4>2
    <3>2. Kept(cache'[v], cache[v])
      BY DEF Kept
    <3>3. InOrder(v) /\ SavedFor(v)
      BY InOrderParts DEF Inv
    <3> QED BY <1>1, <3>1, <3>2, <3>3, StillInOrder
  <2> QED BY <2>1 DEF Revised, SavedIsShown, SavedFor
<1>8. EditorIsOfWorkspace'
  <2>1. Shown' = Shown
    BY DEF Shown
  <2> QED BY <2>1, EditorStays DEF Inv
<1> QED BY <1>6, <1>7, <1>8 DEF Inv

LEMMA OtherSavesStep ==
  ASSUME Inv, NEW w \in Workspaces, NEW r \in Rules, OtherSaves(w, r)
  PROVE  Inv'
<1>1. TypeOK /\ policy[w].text \in Text /\ policy[w].rev \in Nat
  BY CacheFields, RowFields DEF Inv
<1>2. PICK t \in Text : policy' = [policy EXCEPT ![w] = [text |-> t, rev |-> policy[w].rev + 1]]
  BY <1>1, ToggledText DEF OtherSaves
<1>3. cache' = cache /\ screen' = screen /\ chat' = chat /\ due' = due /\ puts' = puts
  BY DEF OtherSaves
<1>4. ASSUME NEW i \in Saves PROVE Wrote(i)'
  <2> SUFFICES ASSUME puts[i].pc = "written" PROVE puts[i].rev <= policy'[puts[i].to].rev
    BY <1>3 DEF Wrote
  <2>1. puts[i].to \in Workspaces /\ puts[i].rev \in Nat
    BY <1>1, PutFields
  <2>2. puts[i].rev <= policy[puts[i].to].rev /\ policy[puts[i].to].rev \in Nat
    BY <1>1, <2>1, CacheFields DEF Inv, Revised, Wrote
  <2>3. policy'[puts[i].to] = policy[puts[i].to]
        \/ (puts[i].to = w /\ policy'[puts[i].to].rev = policy[w].rev + 1)
    BY <1>1, <1>2, <2>1 DEF TypeOK
  <2> QED BY <1>1, <2>1, <2>2, <2>3
<1>5. puts' \in [Saves -> {NoSave, SaveDone} \cup Put]
  BY <1>1, <1>3 DEF TypeOK
<1> QED BY <1>2, <1>3, <1>4, <1>5, PolicyWritten

LEMMA WriteStep ==
  ASSUME Inv, NEW i \in Saves, Write(i)
  PROVE  Inv'
<1>1. TypeOK /\ puts[i] \in Put /\ puts[i].to \in Workspaces /\ puts[i].text \in Text
  BY PutFields DEF Inv, Write
<1> DEFINE w == puts[i].to
           rev == policy[w].rev + 1
           valid == puts[i].text.kind = "policy"
           put == IF puts[i].pc = "orphaned" THEN SaveDone
                  ELSE IF valid THEN [puts[i] EXCEPT !.pc = "written", !.rev = rev]
                  ELSE [puts[i] EXCEPT !.pc = "refused"]
<1>2. /\ policy' = IF valid THEN [policy EXCEPT ![w] = [text |-> puts[i].text, rev |-> rev]] ELSE policy
      /\ puts' = [puts EXCEPT ![i] = put]
      /\ cache' = cache /\ screen' = screen /\ chat' = chat /\ due' = due
  BY DEF Write
<1>3. policy[w].rev \in Nat
  BY <1>1, CacheFields
<1>4. put \in {SaveDone} \cup Put
      /\ (put.pc = "written" => valid /\ put.rev = rev /\ put.to = w)
  <2>1. CASE puts[i].pc = "orphaned"
    BY <2>1 DEF SaveDone
  <2>2. CASE puts[i].pc # "orphaned" /\ valid
    <3>1. rev \in Nat
      BY <1>3
    <3>2. put = [puts[i] EXCEPT !.pc = "written", !.rev = rev]
      BY <2>2
    <3> HIDE DEF put, rev, valid
    <3>3. put \in Put /\ put.rev = rev /\ put.to = puts[i].to
      BY <1>1, <3>1, <3>2 DEF Put
    <3> QED BY <2>2, <3>3
  <2>3. CASE puts[i].pc # "orphaned" /\ ~valid
    BY <1>1, <2>3 DEF Put
  <2> QED BY <2>1, <2>2, <2>3
<1> HIDE DEF put
<1>5. puts' \in [Saves -> {NoSave, SaveDone} \cup Put] /\ puts'[i] = put
      /\ \A j \in Saves : j # i => puts'[j] = puts[j]
  BY <1>1, <1>2, <1>4 DEF TypeOK
<1>6. \A v \in Workspaces : /\ policy'[v] = policy[v] \/ (v = w /\ policy'[v].rev = rev)
                            /\ valid /\ v = w => policy'[v].rev = rev
  BY <1>1, <1>2 DEF TypeOK
<1>7. ASSUME NEW j \in Saves PROVE Wrote(j)'
  <2>1. CASE j = i
    <3> SUFFICES ASSUME put.pc = "written" PROVE put.rev <= policy'[put.to].rev
      BY <1>5, <2>1 DEF Wrote
    <3> QED BY <1>1, <1>3, <1>4, <1>6
  <2>2. CASE j # i
    <3> SUFFICES ASSUME puts[j].pc = "written" PROVE puts[j].rev <= policy'[puts[j].to].rev
      BY <1>5, <2>2 DEF Wrote
    <3>1. puts[j].to \in Workspaces /\ puts[j].rev \in Nat
      BY <1>1, PutFields
    <3>2. puts[j].rev <= policy[puts[j].to].rev /\ policy[puts[j].to].rev \in Nat
      BY <1>1, <3>1, CacheFields DEF Inv, Revised, Wrote
    <3> QED BY <1>3, <1>6, <3>1, <3>2
  <2> QED BY <2>1, <2>2
<1> QED BY <1>1, <1>2, <1>5, <1>7, PolicyWritten

-----------------------------------------------------------------------------
(* The answer to a save.                                                   *)

LEMMA SaveFailsStep ==
  ASSUME Inv, NEW i \in Saves, SaveFails(i)
  PROVE  Inv'
<1>1. TypeOK /\ puts[i] \in Put
  BY PutFields DEF Inv, SaveFails, InFlight
<1>2. policy' = policy /\ cache' = cache /\ screen' = screen /\ chat' = chat /\ due' = due
  BY DEF SaveFails
<1>3. PICK x \in {SaveDone} \cup Put : puts' = [puts EXCEPT ![i] = x] /\ x.pc # "written"
  <2> DEFINE x == IF puts[i].pc = "sent" THEN [puts[i] EXCEPT !.pc = "orphaned"] ELSE SaveDone
  <2>1. x \in {SaveDone} \cup Put /\ x.pc # "written"
    BY <1>1 DEF Put, SaveDone
  <2>2. puts' = [puts EXCEPT ![i] = x]
    BY DEF SaveFails
  <2> QED BY <2>1, <2>2
<1>4. puts' \in [Saves -> {NoSave, SaveDone} \cup Put]
      /\ \A j \in Saves : puts'[j] = IF j = i THEN x ELSE puts[j]
  BY <1>1, <1>3 DEF TypeOK
<1>5. \A j \in Saves : Wrote(j)'
  BY <1>2, <1>3, <1>4 DEF Inv, Revised, Wrote
<1>6. TypeOK'
  BY <1>1, <1>2, <1>4, TypeParts, TypeNext
<1>7. Revised' /\ SavedIsShown'
  <2>1. \A w \in Workspaces : Kept(cache'[w], cache[w])
    BY <1>2 DEF Kept
  <2> QED BY <1>1, <1>2, <1>5, <2>1, QuietKeepsOrder DEF Inv
<1>8. EditorIsOfWorkspace'
  <2>1. Shown' = Shown
    BY <1>2 DEF Shown
  <2> QED BY <1>2, <2>1, EditorStays DEF Inv
<1> QED BY <1>6, <1>7, <1>8 DEF Inv

(* The page is told of what was written, and asks for the policy again; it *)
(* has to show the revision of the save if it shows that workspace.        *)
LEMMA SavedStep ==
  ASSUME Inv, NEW i \in Saves, Saved(i)
  PROVE  Inv'
<1>1. TypeOK /\ puts[i].pc = "written" /\ puts[i].to \in Workspaces /\ puts[i].inv \in Workspaces
      /\ puts[i].rev \in Nat /\ puts[i].rev <= policy[puts[i].to].rev
  BY PutFields DEF Inv, Saved, Revised, Wrote
<1> DEFINE to == puts[i].to
           inv == puts[i].inv
           showing == OnScreen(to) /\ inv = to /\ Shown # {}
<1>2. /\ policy' = policy /\ screen' = screen /\ chat' = chat
      /\ puts' = [puts EXCEPT ![i] = SaveDone]
      /\ cache' = [cache EXCEPT ![inv] = Invalidate(cache[inv], OnScreen(inv))]
      /\ due' = IF showing THEN [due EXCEPT ![to] = IF puts[i].rev > @ THEN puts[i].rev ELSE @] ELSE due
  BY DEF Saved
<1>3. PICK e : e = Invalidate(cache[inv], OnScreen(inv))
  OBVIOUS
<1>4. e \in Entry(Row) /\ Kept(e, cache[inv]) /\ e.stale
      /\ (OnScreen(inv) /\ cache[inv].data # {} => e.got = {})
  <2>1. OnScreen(inv) \in BOOLEAN
    BY <1>1, TypeParts DEF OnScreen, Screens
  <2> QED BY <1>1, <1>3, <2>1, CacheFields, EntryInvalidated
<1>5. /\ cache' \in [Workspaces -> Entry(Row)]
      /\ cache'[inv] = e
      /\ \A w \in Workspaces : w # inv => cache'[w] = cache[w]
  BY <1>1, <1>2, <1>3, <1>4 DEF TypeOK
<1>6. \A w \in Workspaces : Kept(cache'[w], cache[w])
  BY <1>4, <1>5 DEF Kept
<1>7. due' \in [Workspaces -> Nat]
      /\ \A w \in Workspaces : due'[w] = due[w] \/ (showing /\ w = to /\ due'[w] = puts[i].rev)
  BY <1>1, <1>2 DEF TypeOK
<1>8. TypeOK'
  <2>1. \A w \in Workspaces : Brought(cache'[w])
    BY <1>1, <1>6, TypeParts DEF Kept, Brought
  <2>2. puts' \in [Saves -> {NoSave, SaveDone} \cup Put]
    BY <1>1, <1>2 DEF TypeOK
  <2> QED BY <1>1, <1>2, <1>5, <1>7, <2>1, <2>2, TypeParts, TypeNext
<1>9. ASSUME NEW w \in Workspaces PROVE InOrder(w)' /\ SavedFor(w)'
  <2>1. InOrder(w) /\ SavedFor(w) /\ UpTo(policy[w], policy'[w]) /\ policy'[w] \in Row
    BY <1>1, <1>2, CacheFields, SameUpTo, InOrderParts DEF Inv
  <2>2. CASE due'[w] = due[w]
    BY <1>1, <1>6, <2>1, <2>2, StillInOrder
  <2>3. CASE showing /\ w = to /\ due'[w] = puts[i].rev
    <3>1. cache'[w] = e /\ cache[w].data # {} /\ e.data = cache[w].data /\ e.got = {} /\ e.stale
      BY <1>4, <1>5, <2>3 DEF Shown, OnScreen, Kept
    <3>2. InOrder(w)'
      BY <1>1, <1>2, <2>1, <2>3, <3>1 DEF InOrder
    <3>3. SavedFor(w)'
      BY <3>1 DEF SavedFor
    <3> QED BY <3>2, <3>3
  <2> QED BY <1>7, <2>2, <2>3
<1>10. ASSUME NEW j \in Saves PROVE Wrote(j)'
  <2>1. puts'[j] = IF j = i THEN SaveDone ELSE puts[j]
    BY <1>1, <1>2 DEF TypeOK
  <2> QED BY <1>2, <2>1 DEF Inv, Revised, Wrote, SaveDone
<1>11. EditorIsOfWorkspace'
  <2>1. screen.ws \in Workspaces
    BY <1>1, TypeParts DEF Screens
  <2>2. Shown' = Shown
    BY <1>2, <1>6, <2>1 DEF Shown, Kept
  <2> QED BY <1>2, <2>2, EditorStays DEF Inv
<1> QED BY <1>8, <1>9, <1>10, <1>11 DEF Inv, Revised, SavedIsShown, SavedFor

-----------------------------------------------------------------------------
(* The query's requests.                                                   *)

(* An entry changes, and the page with it if it shows that workspace.      *)
LEMMA EntryChanges ==
  ASSUME Inv, NEW w \in Workspaces, NEW e \in Entry(Row), cache' = [cache EXCEPT ![w] = e],
         policy' = policy, chat' = chat, puts' = puts, due' = due,
         screen' \in Screens, Folded(screen', chat'),
         Brought(e),
         e.data = {} => due[w] = 0,
         \A r \in e.data \cup e.got : UpTo(r, policy[w]),
         \A r \in e.data, g \in e.got : UpTo(r, g),
         \A r \in e.data : r.rev < due[w] => e.stale /\ \A g \in e.got : g.rev >= due[w]
  PROVE  TypeOK' /\ Revised' /\ SavedIsShown'
<1>1. TypeOK
  BY DEF Inv
<1>2. /\ cache' \in [Workspaces -> Entry(Row)] /\ cache'[w] = e
      /\ \A v \in Workspaces : v # w => cache'[v] = cache[v]
  BY <1>1 DEF TypeOK
<1>3. TypeOK'
  <2>1. \A v \in Workspaces : Brought(cache'[v])
    BY <1>1, <1>2, TypeParts DEF Brought
  <2> QED BY <1>1, <1>2, <2>1, TypeParts, TypeNext
<1>4. ASSUME NEW v \in Workspaces PROVE InOrder(v)' /\ SavedFor(v)'
  <2>1. InOrder(v) /\ SavedFor(v)
    BY InOrderParts DEF Inv
  <2>2. CASE v = w
    BY <1>2, <2>1, <2>2 DEF InOrder, SavedFor
  <2>3. CASE v # w
    BY <1>2, <2>1, <2>3, SameInOrder
  <2> QED BY <2>2, <2>3
<1>5. \A i \in Saves : Wrote(i)'
  BY DEF Inv, Revised, Wrote
<1> QED BY <1>3, <1>4, <1>5 DEF Revised, SavedIsShown, SavedFor

LEMMA GetPolicyStep ==
  ASSUME Inv, NEW w \in Workspaces, GetPolicy(w)
  PROVE  Inv'
<1>1. TypeOK /\ cache[w] \in Entry(Row) /\ policy[w] \in Row /\ InOrder(w) /\ SavedFor(w)
      /\ policy[w].rev \in Nat /\ due[w] \in Nat
  BY CacheFields, InOrderParts DEF Inv
<1> DEFINE e == Read(cache[w], policy[w])
<1>2. /\ e \in Entry(Row) /\ e.data = cache[w].data /\ e.stale = cache[w].stale
      /\ e.got = {policy[w]}
  BY <1>1, EntryRead
<1>3. cache' = [cache EXCEPT ![w] = e]
      /\ policy' = policy /\ chat' = chat /\ puts' = puts /\ due' = due /\ screen' = screen
  BY DEF GetPolicy
<1> HIDE DEF e
<1>4. UpTo(policy[w], policy[w]) /\ policy[w].rev >= due[w]
  BY <1>1, SameUpTo DEF InOrder
<1>5. TypeOK' /\ Revised' /\ SavedIsShown'
  <2>1. Brought(e)
    BY <1>2 DEF Brought
  <2>2. \A r \in e.data \cup e.got : UpTo(r, policy[w])
    BY <1>1, <1>2, <1>4 DEF InOrder
  <2>3. \A r \in e.data, g \in e.got : UpTo(r, g)
    BY <1>2, <2>2
  <2>4. \A r \in e.data : r.rev < due[w] => e.stale /\ \A g \in e.got : g.rev >= due[w]
    BY <1>1, <1>2, <1>4 DEF SavedFor
  <2>5. e.data = {} => due[w] = 0
    BY <1>1, <1>2 DEF InOrder
  <2>6. screen' \in Screens /\ Folded(screen', chat')
    BY <1>1, <1>3, TypeParts
  <2> QED BY <1>2, <1>3, <2>1, <2>2, <2>3, <2>4, <2>5, <2>6, EntryChanges
<1>6. EditorIsOfWorkspace'
  <2>1. Shown' = Shown
    BY <1>1, <1>2, <1>3 DEF Shown, TypeOK
  <2> QED BY <1>3, <2>1, EditorStays DEF Inv
<1> QED BY <1>5, <1>6 DEF Inv

LEMMA PolicyFailsStep ==
  ASSUME Inv, NEW w \in Workspaces, PolicyFails(w)
  PROVE  Inv'
<1>1. TypeOK /\ cache[w] \in Entry(Row)
  BY CacheFields DEF Inv
<1>2. policy' = policy /\ chat' = chat /\ puts' = puts /\ due' = due /\ screen' = screen
  BY DEF PolicyFails
<1>3. Failed(cache[w]) \in Entry(Row) /\ Kept(Failed(cache[w]), cache[w])
  BY <1>1, EntryFailed
<1>4. cache' = [cache EXCEPT ![w] = Failed(cache[w])]
  BY DEF PolicyFails
<1>5. cache' \in [Workspaces -> Entry(Row)]
      /\ \A v \in Workspaces : cache'[v] = cache[v] \/ (v = w /\ cache'[v] = Failed(cache[w]))
  BY <1>1, <1>3, <1>4 DEF TypeOK
<1>6. \A v \in Workspaces : Kept(cache'[v], cache[v])
  BY <1>3, <1>5 DEF Kept
<1>7. TypeOK'
  <2>1. \A v \in Workspaces : Brought(cache'[v])
    BY <1>1, <1>6, TypeParts DEF Kept, Brought
  <2> QED BY <1>1, <1>2, <1>5, <2>1, TypeParts, TypeNext
<1>8. Revised' /\ SavedIsShown'
  <2>1. \A i \in Saves : Wrote(i)'
    BY <1>2 DEF Inv, Revised, Wrote
  <2> QED BY <1>1, <1>2, <1>6, <2>1, QuietKeepsOrder DEF Inv
<1>9. EditorIsOfWorkspace'
  <2>1. screen.ws \in Workspaces
    BY <1>1, TypeParts DEF Screens
  <2>2. Shown' = Shown
    BY <1>2, <1>6, <2>1 DEF Shown, Kept
  <2> QED BY <1>2, <2>2, EditorStays DEF Inv
<1> QED BY <1>7, <1>8, <1>9 DEF Inv

(* No answer that was read before a save replaces what was saved: it was   *)
(* dropped, or what is shown is older still.                               *)
LEMMA PolicyLandsStep ==
  ASSUME Inv, NEW w \in Workspaces, PolicyLands(w)
  PROVE  Inv'
<1>1. TypeOK /\ cache[w] \in Entry(Row) /\ InOrder(w) /\ SavedFor(w) /\ due[w] \in Nat
      /\ cache[w].got \in Maybe(Row)
      /\ \A r \in cache[w].data \cup cache[w].got : r.rev \in Nat
  BY CacheFields, InOrderParts DEF Inv
<1> DEFINE e == Landed(cache[w])
<1>2. e \in Entry(Row) /\ e.data = cache[w].got /\ e.got = {} /\ e.flight = "none"
  BY <1>1, EntryLanded
<1>3. cache[w].got # {}
  BY <1>1, TypeParts DEF PolicyLands, Brought
<1>4. cache' = [cache EXCEPT ![w] = e]
      /\ policy' = policy /\ chat' = chat /\ puts' = puts /\ due' = due
  BY DEF PolicyLands
<1> DEFINE replaced == OnScreen(w) /\ cache[w].got # cache[w].data
<1>5. /\ screen' \in Screens /\ screen'.open = screen.open /\ screen'.ws = screen.ws
      /\ screen'.save = screen.save
      /\ screen'.draft = IF replaced THEN Texts(cache[w].got) ELSE screen.draft
  <2>1. Texts(cache[w].got) \in Maybe(Text)
    BY <1>1, TextsOfRows
  <2>2. screen \in Screens
    BY <1>1, TypeParts
  <2> QED BY <2>1, <2>2 DEF PolicyLands, Screens
<1> HIDE DEF e
<1>6. TypeOK' /\ Revised' /\ SavedIsShown'
  <2>1. Brought(e)
    BY <1>2 DEF Brought
  <2>2. \A r \in e.data \cup e.got : UpTo(r, policy[w])
    BY <1>1, <1>2 DEF InOrder
  <2>3. ASSUME NEW g \in cache[w].got PROVE g.rev >= due[w]
    <3>1. CASE cache[w].data = {}
      BY <1>1, <3>1 DEF InOrder
    <3>2. CASE cache[w].data # {}
      <4>1. PICK r \in cache[w].data : TRUE
        BY <3>2
      <4>2. r.rev <= g.rev
        BY <1>1, <4>1 DEF InOrder, UpTo
      <4>3. r.rev < due[w] => g.rev >= due[w]
        BY <1>1, <4>1 DEF SavedFor
      <4> QED BY <1>1, <4>1, <4>2, <4>3
    <3> QED BY <3>1, <3>2
  <2>4. \A r \in e.data : ~(r.rev < due[w])
    BY <1>1, <1>2, <2>3
  <2>5. Folded(screen', chat')
    BY <1>1, <1>4, <1>5, TypeParts DEF Folded, OnScreen
  <2> QED BY <1>2, <1>3, <1>4, <1>5, <2>1, <2>2, <2>4, <2>5, EntryChanges
<1>7. EditorIsOfWorkspace'
  <2>1. screen.ws \in Workspaces
    BY <1>1, TypeParts DEF Screens
  <2>2. Shown' = IF screen.ws = w THEN cache[w].got ELSE Shown
    BY <1>1, <1>2, <1>4, <1>5, <2>1 DEF Shown, TypeOK
  <2>3. CASE replaced
    BY <1>5, <1>6, <2>2, <2>3, EditorOfShown DEF OnScreen
  <2>4. CASE ~replaced /\ screen.open
    <3>1. Shown' = Shown
      BY <2>2, <2>4 DEF OnScreen, Shown
    <3> QED BY <1>4, <1>5, <2>4, <3>1, EditorStays DEF Inv
  <2>5. CASE ~screen.open
    BY <1>5, <2>5 DEF EditorIsOfWorkspace
  <2> QED BY <2>3, <2>4, <2>5
<1> QED BY <1>6, <1>7 DEF Inv

-----------------------------------------------------------------------------
(* The assistant.                                                          *)

LEMMA ChatStep ==
  ASSUME Inv, Ask \/ (\E p \in Text : Proposed(p)) \/ NotProposed
  PROVE  Inv'
<1>1. TypeOK /\ screen \in Screens /\ chat \in Chats /\ screen.ws \in Workspaces
  BY TypeParts DEF Inv, Screens
<1>2. policy' = policy /\ cache' = cache /\ puts' = puts /\ due' = due /\ screen' = screen
  BY DEF Ask, Proposed, NotProposed
<1>3. {} \in Maybe(Text) /\ \A t \in Text : {t} \in Maybe(Text)
  BY Singletons
<1>4. screen.open
  <2>1. screen.open \/ chat.asking
    BY DEF Ask, CanAsk, Proposed, NotProposed
  <2>2. Folded(screen, chat)
    BY <1>1, TypeParts
  <2> QED BY <2>1, <2>2 DEF Folded, NoChat
<1>5. chat' \in Chats /\ chat.proposals \subseteq chat'.proposals
  <2>1. CASE Ask
    <3>1. policy[screen.ws].text \in Text
      BY <1>1, CacheFields, RowFields
    <3> DEFINE base == IF chat.pending # {} THEN chat.pending ELSE {policy[screen.ws].text}
    <3>2. base \in Maybe(Text)
      BY <1>1, <1>3, <3>1 DEF Chats
    <3>3. chat' = [chat EXCEPT !.turn = chat.turn + 1, !.asking = TRUE, !.base = base]
      BY <2>1 DEF Ask
    <3> HIDE DEF base
    <3>4. chat.turn + 1 \in Nat
      BY <1>1 DEF Chats
    <3> DEFINE turn == chat.turn + 1
    <3> HIDE DEF turn
    <3>5. chat' = [chat EXCEPT !.turn = turn, !.asking = TRUE, !.base = base] /\ turn \in Nat
      BY <3>3, <3>4 DEF turn
    <3> QED BY <1>1, <3>2, <3>5 DEF Chats
  <2>2. CASE \E p \in Text : Proposed(p)
    <3>1. PICK p \in Text : Proposed(p)
      BY <2>2
    <3> QED BY <1>1, <1>3, <3>1 DEF Proposed, Chats
  <2>3. CASE NotProposed
    BY <1>1, <1>3, <2>3 DEF NotProposed, Chats
  <2> QED BY <2>1, <2>2, <2>3
<1>6. TypeOK' /\ Revised' /\ SavedIsShown'
  BY <1>1, <1>2, <1>4, <1>5, OnlyThePage DEF Folded
<1>7. EditorIsOfWorkspace'
  <2>1. Shown' = Shown
    BY <1>2 DEF Shown
  <2> QED BY <1>2, <1>5, <2>1, EditorStays DEF Inv
<1> QED BY <1>6, <1>7 DEF Inv

-----------------------------------------------------------------------------
LEMMA InvInit == Init => Inv
<1> SUFFICES ASSUME Init PROVE Inv
  OBVIOUS
<1>1. /\ policy = [w \in Workspaces |-> [text |-> [home |-> w, on |-> {}, kind |-> "policy"],
                                         rev |-> 0]]
      /\ cache = [w \in Workspaces |-> NoEntry]
      /\ chat = NoChat /\ puts = [i \in Saves |-> NoSave] /\ due = [w \in Workspaces |-> 0]
  BY DEF Init
<1>2. PICK w \in Workspaces : screen = [open |-> FALSE, ws |-> w, draft |-> {}, save |-> {}]
  BY DEF Init
<1>3. TypeOK
  <2>1. \A v \in Workspaces :
          [text |-> [home |-> v, on |-> {}, kind |-> "policy"], rev |-> 0] \in Row
    BY DEF Row, Text
  <2>2. NoEntry \in Entry(Row) /\ Brought(NoEntry)
    BY Singletons DEF NoEntry, Entry, Brought
  <2>3. screen \in Screens /\ chat \in Chats /\ Folded(screen, chat)
    BY <1>1, <1>2, Singletons DEF Screens, Chats, NoChat, Folded
  <2> QED BY <1>1, <2>1, <2>2, <2>3, TypeParts
<1>4. Revised
  BY <1>1 DEF Revised, InOrder, Wrote, NoEntry, NoSave
<1>5. SavedIsShown /\ EditorIsOfWorkspace
  BY <1>1, <1>2 DEF SavedIsShown, NoEntry, EditorIsOfWorkspace
<1> QED BY <1>3, <1>4, <1>5 DEF Inv

LEMMA InvStep == Inv /\ [Next]_vars => Inv'
<1> SUFFICES ASSUME Inv, [Next]_vars PROVE Inv'
  OBVIOUS
<1>1. CASE \E w \in Workspaces : Switch(w)
  BY <1>1, SwitchStep
<1>2. CASE OpenPage
  BY <1>2, OpenPageStep
<1>3. CASE LeavePage \/ Discard \/ (\E t \in Text : Type(t))
  BY <1>3, PageStep
<1>4. CASE (\E r \in Rules : Toggle(r)) \/ SavePolicy \/ (\E p \in Text : Apply(p))
  BY <1>4, SaveStep
<1>5. CASE \E i \in Saves : Write(i)
  BY <1>5, WriteStep
<1>6. CASE \E i \in Saves : Saved(i)
  BY <1>6, SavedStep
<1>7. CASE \E i \in Saves : SaveFails(i)
  BY <1>7, SaveFailsStep
<1>8. CASE \E w \in Workspaces, r \in Rules : OtherSaves(w, r)
  BY <1>8, OtherSavesStep
<1>9. CASE \E w \in Workspaces : GetPolicy(w)
  BY <1>9, GetPolicyStep
<1>10. CASE \E w \in Workspaces : PolicyLands(w)
  BY <1>10, PolicyLandsStep
<1>11. CASE \E w \in Workspaces : PolicyFails(w)
  BY <1>11, PolicyFailsStep
<1>12. CASE Ask \/ (\E p \in Text : Proposed(p)) \/ NotProposed
  BY <1>12, ChatStep
<1>13. CASE UNCHANGED vars
  <2>1. policy' = policy /\ cache' = cache /\ puts' = puts /\ due' = due
        /\ screen' = screen /\ chat' = chat
    BY <1>13 DEF vars
  <2>2. TypeOK' /\ Revised' /\ SavedIsShown'
    BY <2>1, TypeParts, OnlyThePage DEF Inv
  <2>3. Shown' = Shown
    BY <2>1 DEF Shown
  <2> QED BY <2>1, <2>2, <2>3, EditorStays DEF Inv
<1> QED
  BY <1>1, <1>2, <1>3, <1>4, <1>5, <1>6, <1>7, <1>8, <1>9, <1>10, <1>11, <1>12, <1>13 DEF Next

(* The invariant: what the page has come to show, the answers on their way *)
(* and the policies table are in the order of the revisions.               *)
THEOREM Invariance == Spec => []Inv
BY InvInit, InvStep, PTL DEF Spec

(* The policies, the cache, the page, the assistant and the requests keep  *)
(* to their types, and a page that is closed holds nothing.                *)
THEOREM TypeCorrect == Spec => []TypeOK
<1>1. Inv => TypeOK
  BY DEF Inv
<1> QED BY <1>1, Invariance, PTL

(* However saves, switches, refetches and other people's saves overlap, no *)
(* answer read before a save replaces what the page was told is saved.     *)
THEOREM SavedStaysShown == Spec => []SavedIsShown
<1>1. Inv => SavedIsShown
  BY DEF Inv
<1> QED BY <1>1, Invariance, PTL

(* What is left of the workspace selected before never stays in the editor *)
(* under the policy of another.                                            *)
THEOREM EditorFollows == Spec => []EditorIsOfWorkspace
<1>1. Inv => EditorIsOfWorkspace
  BY DEF Inv
<1> QED BY <1>1, Invariance, PTL

(* An answer replaces what is typed only if it is of a later revision than *)
(* what the page shows: an equal one is the same row, and no new object.   *)
THEOREM TypingIsKept == Spec => RefetchKeepsTyping
<1> DEFINE OnlyLater == \A w \in Workspaces :
                      PolicyLands(w) /\ screen'.draft # screen.draft =>
                        \A old \in cache[w].data, new \in cache'[w].data : old.rev < new.rev
<1>1. Inv => OnlyLater
  <2> SUFFICES ASSUME Inv, NEW w \in Workspaces, PolicyLands(w), screen'.draft # screen.draft,
                      NEW old \in cache[w].data, NEW new \in cache'[w].data
               PROVE  old.rev < new.rev
    OBVIOUS
  <2>1. TypeOK /\ InOrder(w) /\ cache[w].data \in Maybe(Row) /\ cache[w].got \in Maybe(Row)
        /\ cache[w] \in Entry(Row)
        /\ \A r \in cache[w].data \cup cache[w].got : r.rev \in Nat
    BY CacheFields, InOrderParts DEF Inv
  <2>2. cache'[w].data = cache[w].got
    BY <2>1, EntryLanded DEF PolicyLands, TypeOK
  <2>3. cache[w].got # cache[w].data
    BY DEF PolicyLands
  <2>4. UpTo(old, new)
    BY <2>1, <2>2 DEF InOrder
  <2>5. old # new
    <3>1. cache[w].data = {old} /\ cache[w].got = {new}
      BY <2>1, <2>2, Singletons
    <3> QED BY <2>3, <3>1
  <2> QED BY <2>1, <2>2, <2>4, <2>5 DEF UpTo
<1>2. Inv => [OnlyLater]_vars
  BY <1>1
<1>3. Spec => [][OnlyLater]_vars
  BY <1>2, Invariance, PTL
<1> QED BY <1>3 DEF RefetchKeepsTyping

=============================================================================
