---------------------------- MODULE ConsoleProofs -----------------------------
(***************************************************************************)
(* Proofs about the pages of the dashboard, for any people, requests,      *)
(* questions, events and plans: first the page of members with the roles   *)
(* and the owner behind it, then the other parts one by one, at the end    *)
(* all of them.                                                            *)
(***************************************************************************)
EXTENDS MCConsole, FiniteSetTheorems, SequenceTheorems, WellFoundedInduction, TLAPS

-----------------------------------------------------------------------------
(* The inductive invariants.                                               *)

(* A page confirms one thing at a time, and what it asks for is about      *)
(* somebody else, but to leave.                                            *)
AboutOthers(k, p, u) == (k = "leave") = (u = p)

Asked ==
  /\ \A p \in Pages : \A q \in pending[p] : AboutOthers(q.kind, p, q.who)
  /\ \A c \in Calls : Active(c) => AboutOthers(call[c].kind, call[c].by, call[c].who)
  /\ \A c, d \in Calls :
       Active(c) /\ Active(d) /\ call[c].by = call[d].by
       /\ call[c].kind \in ConfirmKinds /\ call[d].kind \in ConfirmKinds => c = d

(* What a call that runs alone has read is still so, and the workspace has *)
(* one owner but between the steps of a transfer.                          *)
Known(c) ==
  LET by == call[c].by
      who == call[c].who
  IN  CASE call[c].pc = "their role" ->
             call[c].kind # "leave" /\ call[c].mine = role[by] /\ Allowed(call[c].kind, role[by])
        [] call[c].pc = "write" -> call[c].kind # "transfer" /\ role[who] # "owner"
        [] call[c].pc = "owner_id" -> call[c].kind = "transfer" /\ role[by] = "owner" /\ role[who] # "none"
        [] call[c].pc = "promote" -> role[who] # "none" /\ Owners = {by} /\ ownerId = who /\ by # who
        [] call[c].pc = "demote" -> Owners = {by, who} /\ ownerId = who /\ by # who
        [] OTHER -> TRUE

Transferring == \E c \in Calls : call[c].pc \in {"promote", "demote"}

Alone ==
  /\ alone => \A c, d \in Calls : Active(c) /\ Active(d) => c = d
  /\ alone /\ whole =>
       /\ \A c \in Calls : Known(c)
       /\ ~Transferring => Owners = {ownerId}

(* A page that asks for something, or has asked for it, shows a list, but  *)
(* of who has left.                                                        *)
Held(p) ==
  pending[p] # {} \/ (\E c \in Calls : Active(c) /\ call[c].by = p) =>
    list[p].data # {} \/ (role[p] = "none" /\ list[p].got = {})

(* Who has left is not a member, and the steps of a transfer are only its. *)
Left(c) ==
  /\ call[c].pc = "done" /\ call[c].kind = "leave" => role[call[c].by] = "none"
  /\ call[c].pc \in {"owner_id", "promote", "demote"} => call[c].kind = "transfer"

(* A list that is shown, or will be, and is not of the roles as they are,  *)
(* is one that the page will be told to ask for again.                     *)
Changing(p) == \E c \in Calls : Active(c) /\ call[c].by = p /\ call[c].pc \in {"demote", "done"}

Current(p) ==
  /\ list[p].flight = "none" /\ ~list[p].stale => \A r \in list[p].data : r = role
  /\ list[p].flight = "read" => list[p].got = {role}

Listed(p) ==
  /\ Held(p)
  /\ list[p].flight = "read" => list[p].got # {}
  /\ ~behind[p] /\ ~Changing(p) => Current(p)

Lists == (\A p \in Pages : Listed(p)) /\ (\A c \in Calls : Left(c))

Inv == TypeOK /\ Asked /\ Alone /\ Lists

-----------------------------------------------------------------------------
(* A request that is active has its fields.                                *)
LEMMA CallFields ==
  ASSUME TypeOK, NEW c \in Calls
  PROVE  /\ Active(c) <=> call[c] \in Call
         /\ call[c] \in Call => call[c].pc \in Busy \cup {"done", "failed"} /\ call[c].by \in Pages
                                /\ call[c].kind \in Kinds /\ call[c].who \in Users
         /\ call[c].pc \notin {"idle", "ended"} => Active(c)
         /\ call[c] \in {Idle, Ended} => ~Active(c)
         /\ call[c] \in {Idle, Ended} \cup Call
<1>1. \A d \in Call : d.pc \notin {"idle", "ended"}
  BY DEF Call, Busy
<1>2. call[c] \in {Idle, Ended} \cup Call
  BY DEF TypeOK
<1> QED BY <1>1, <1>2 DEF Active, Idle, Ended, Call

(* What becomes of the calls when one of them is replaced.                 *)
LEMMA CallBecomes ==
  ASSUME TypeOK, NEW c \in Calls, NEW x \in {Idle, Ended} \cup Call, call' = [call EXCEPT ![c] = x]
  PROVE  /\ call' \in [Calls -> {Idle, Ended} \cup Call]
         /\ call'[c] = x
         /\ \A d \in Calls : d # c => call'[d] = call[d] /\ (Active(d)' <=> Active(d))
         /\ Active(c)' <=> x \in Call
<1>1. /\ call' \in [Calls -> {Idle, Ended} \cup Call] /\ call'[c] = x
      /\ \A d \in Calls : d # c => call'[d] = call[d]
  BY DEF TypeOK
<1>2. \A d \in Call : d.pc \notin {"idle", "ended"}
  BY DEF Call, Busy
<1> QED BY <1>1, <1>2 DEF Active, Idle, Ended

(* A call goes on to another step.                                         *)
LEMMA GotoCall ==
  ASSUME TypeOK, NEW c \in Calls, call[c].pc \notin {"idle", "ended"},
         NEW pc \in Busy \cup {"done", "failed"}, Goto(c, pc)
  PROVE  /\ call' \in [Calls -> {Idle, Ended} \cup Call]
         /\ call'[c] \in Call /\ call'[c].pc = pc /\ call'[c].kind = call[c].kind
         /\ call'[c].by = call[c].by /\ call'[c].who = call[c].who /\ call'[c].mine = call[c].mine
         /\ \A d \in Calls : d # c => call'[d] = call[d]
         /\ \A d \in Calls : Active(d)' <=> Active(d)
         /\ call[c] \in Call /\ Active(c)
<1>1. call[c] \in Call /\ Active(c)
  BY CallFields
<1> DEFINE x == [call[c] EXCEPT !.pc = pc]
<1>2. x \in Call /\ x.pc = pc /\ x.kind = call[c].kind /\ x.by = call[c].by /\ x.who = call[c].who
      /\ x.mine = call[c].mine
  BY <1>1 DEF Call
<1>3. call' = [call EXCEPT ![c] = x]
  BY DEF Goto
<1> HIDE DEF x
<1> QED BY <1>1, <1>2, <1>3, CallBecomes

(* A list in its cache.                                                    *)
LEMMA EntryFields ==
  ASSUME NEW S, NEW e \in Entry(S)
  PROVE  /\ e.data \in Maybe(S) /\ e.got \in Maybe(S) /\ e.stale \in BOOLEAN
         /\ e.flight \in {"none", "sent", "read"}
BY DEF Entry

LEMMA EntryOps ==
  ASSUME NEW S, NEW e \in Entry(S), NEW answer \in S, NEW aged \in BOOLEAN
  PROVE  /\ NoEntry \in Entry(S)
         /\ Send(e) \in Entry(S) /\ Send(e).data = e.data /\ Send(e).flight = "sent" /\ Send(e).stale = e.stale
         /\ Mount(e, aged) \in {e, Send(e)}
         /\ Read(e, answer) \in Entry(S) /\ Read(e, answer).data = e.data
         /\ Read(e, answer).flight = "read" /\ Read(e, answer).got = {answer}
         /\ Landed(e) \in Entry(S) /\ Landed(e).data = e.got /\ Landed(e).flight = "none"
         /\ Failed(e) \in Entry(S) /\ Failed(e).data = e.data /\ Failed(e).flight = "none"
         /\ Failed(e).stale = e.stale
<1>1. {} \in Maybe(S) /\ {answer} \in Maybe(S)
  BY DEF Maybe
<1>2. NoEntry \in Entry(S)
  BY <1>1 DEF NoEntry, Entry
<1>3. Send(e) \in Entry(S) /\ Send(e).data = e.data /\ Send(e).flight = "sent" /\ Send(e).stale = e.stale
  BY <1>1 DEF Send, Entry
<1>4. Mount(e, aged) \in {e, Send(e)}
  BY DEF Mount, Fetch
<1>5. /\ Read(e, answer) \in Entry(S) /\ Read(e, answer).data = e.data
      /\ Read(e, answer).flight = "read" /\ Read(e, answer).got = {answer}
  BY <1>1 DEF Read, Entry
<1>6. Landed(e) \in Entry(S) /\ Landed(e).data = e.got /\ Landed(e).flight = "none"
  BY <1>1 DEF Landed, Entry
<1>7. Failed(e) \in Entry(S) /\ Failed(e).data = e.data /\ Failed(e).flight = "none" /\ Failed(e).stale = e.stale
  BY <1>1 DEF Failed, Entry
<1> QED BY <1>2, <1>3, <1>4, <1>5, <1>6, <1>7

(* A list on screen that is invalidated is asked for again at once, unless *)
(* its first answer is still to come.                                      *)
LEMMA EntryInvalidated ==
  ASSUME NEW S, NEW e \in Entry(S), NEW i, i = Invalidate(e, TRUE)
  PROVE  /\ i \in Entry(S) /\ i.data = e.data
         /\ e.data # {} \/ e.flight = "none" => i.flight = "sent"
         /\ e.data = {} /\ e.flight # "none" => i.flight = e.flight /\ i.got = e.got
<1> DEFINE s == [e EXCEPT !.stale = TRUE]
<1>1. s \in Entry(S) /\ s.data = e.data /\ s.flight = e.flight /\ s.got = e.got
  BY DEF Entry
<1>2. Send(s) \in Entry(S) /\ Send(s).data = e.data /\ Send(s).flight = "sent"
  <2>1. {} \in Maybe(S)
    BY DEF Maybe
  <2> QED BY <1>1, <2>1 DEF Send, Entry
<1>3. i = IF e.data # {} \/ e.flight = "none" THEN Send(s) ELSE s
  BY DEF Invalidate
<1> HIDE DEF s
<1> QED BY <1>1, <1>2, <1>3

-----------------------------------------------------------------------------
(* Type correctness.                                                       *)

LEMMA InvInit == Init => Inv
<1> SUFFICES ASSUME Init PROVE Inv
  OBVIOUS
<1>1. role \in RoleMap /\ ownerId = Creator /\ Owners = {Creator}
  <2>1. role = [u \in Users |-> IF u = Creator THEN "owner" ELSE IF u \in Admins THEN "admin" ELSE "member"]
        /\ ownerId = Creator
    BY DEF Init
  <2> QED BY <2>1, CreatorAssumption DEF RoleMap, Roles, Owners
<1>2. /\ list = [p \in Pages |-> NoEntry] /\ pending = [p \in Pages |-> {}]
      /\ call = [c \in Calls |-> Idle] /\ behind = [p \in Pages |-> FALSE]
      /\ alone = TRUE /\ whole = TRUE
  BY DEF Init
<1>3. \A c \in Calls : ~Active(c) /\ call[c].pc = "idle"
  BY <1>2 DEF Active, Idle
<1>4. list \in [Pages -> Entry(RoleMap)]
  BY <1>2 DEF NoEntry, Entry, Maybe
<1>5. TypeOK
  <2>1. \A c \in Calls : call[c].pc \notin Busy
    BY <1>3 DEF Busy
  <2>2. pending \in [Pages -> Modal]
        /\ behind \in [Pages -> BOOLEAN] /\ call \in [Calls -> {Idle, Ended} \cup Call]
    <3>1. {} \in Modal
      BY DEF Modal
    <3> QED BY <1>2, <3>1
  <2> QED BY <1>1, <1>2, <1>4, <2>1, <2>2, CreatorAssumption DEF TypeOK
<1>6. Asked
  BY <1>2, <1>3 DEF Asked
<1>7. Alone
  BY <1>1, <1>3 DEF Alone, Known
<1>8. Lists
  BY <1>2, <1>3 DEF Lists, Listed, Held, Left, Current, NoEntry
<1> QED BY <1>5, <1>6, <1>7, <1>8 DEF Inv

(* The requests as the API serves them.                                    *)
Serve(c) == OwnRole(c) \/ TheirRole(c) \/ Write(c) \/ SetOwnerId(c) \/ Promote(c) \/ Demote(c) \/ Breaks(c)

LEMMA ServeGoes ==
  ASSUME TypeOK, NEW c \in Calls, Serve(c)
  PROVE  /\ call' \in [Calls -> {Idle, Ended} \cup Call]
         /\ call'[c] \in Call /\ call'[c].kind = call[c].kind
         /\ call'[c].by = call[c].by /\ call'[c].who = call[c].who
         /\ call[c].pc \in Busy /\ call[c] \in Call /\ Active(c)
         /\ \A d \in Calls : d # c => call'[d] = call[d]
         /\ \A d \in Calls : Active(d)' <=> Active(d)
         /\ list' = list /\ pending' = pending /\ alone' = alone
<1>1. call[c].pc \in Busy /\ list' = list /\ pending' = pending /\ alone' = alone
  BY DEF Serve, OwnRole, TheirRole, Write, SetOwnerId, Promote, Demote, Breaks, Busy
<1>2. call[c] \in Call /\ Active(c) /\ call[c].pc \notin {"idle", "ended"}
  BY <1>1, CallFields DEF Busy
<1>3. CASE OwnRole(c)
  <2>1. role[call[c].by] \in Roles \cup {"none"}
    <3>1. call[c].by \in Users
      BY <1>2, CallFields, PagesAssumption
    <3> QED BY <3>1 DEF TypeOK, RoleMap
  <2> DEFINE pc == IF ~Allowed(call[c].kind, role[call[c].by]) THEN "failed"
                   ELSE IF call[c].kind = "leave" THEN "write" ELSE "their role"
             x == [call[c] EXCEPT !.mine = role[call[c].by], !.pc = pc]
  <2>2. pc \in Busy \cup {"done", "failed"}
    BY DEF Busy
  <2> HIDE DEF pc
  <2>3. x \in Call /\ x.kind = call[c].kind /\ x.by = call[c].by /\ x.who = call[c].who
    BY <1>2, <2>1, <2>2 DEF Call
  <2>4. call' = [call EXCEPT ![c] = x]
    BY <1>3 DEF OwnRole, pc
  <2> HIDE DEF x
  <2> QED BY <1>1, <1>2, <2>3, <2>4, CallBecomes
<1>4. CASE ~OwnRole(c)
  <2>1. \E pc \in Busy \cup {"done", "failed"} : Goto(c, pc)
    BY <1>4 DEF Serve, TheirRole, Write, SetOwnerId, Promote, Demote, Breaks, Busy
  <2> QED BY <1>1, <1>2, <2>1, GotoCall
<1> QED BY <1>3, <1>4

LEMMA BecomesType ==
  ASSUME TypeOK, NEW u \in Users, NEW r \in Roles \cup {"none"}, Becomes(u, r)
  PROVE  /\ role' \in RoleMap
         /\ role'[u] = IF role[u] = "none" THEN "none" ELSE r
         /\ \A v \in Users : v # u => role'[v] = role[v]
BY DEF TypeOK, RoleMap, Becomes

LEMMA TypeServe ==
  ASSUME TypeOK, NEW c \in Calls, Serve(c)
  PROVE  TypeOK'
<1>1. call[c].who \in Users /\ call[c].by \in Users /\ call[c].by \in Pages
  BY ServeGoes, PagesAssumption DEF Call
<1>2. role \in RoleMap /\ ownerId \in Users /\ behind \in [Pages -> BOOLEAN] /\ whole \in BOOLEAN
  BY DEF TypeOK
<1> DEFINE Kept == /\ role' \in RoleMap /\ ownerId' \in Users
                   /\ behind' \in [Pages -> BOOLEAN] /\ whole' \in BOOLEAN
<1>3. ASSUME OwnRole(c) \/ TheirRole(c) \/ SetOwnerId(c) \/ Breaks(c) PROVE Kept
  <2>1. role' = role /\ ownerId' \in {ownerId, call[c].who}
    BY <1>3 DEF OwnRole, TheirRole, SetOwnerId, Breaks
  <2>2. behind' \in [Pages -> BOOLEAN]
    BY <1>2, <1>3 DEF OwnRole, TheirRole, SetOwnerId, Breaks
  <2>3. whole' \in BOOLEAN
    <3>1. CASE Breaks(c)
      BY <3>1, Zenon DEF Breaks
    <3>2. CASE ~Breaks(c)
      BY <1>2, <1>3, <3>2 DEF OwnRole, TheirRole, SetOwnerId
    <3> QED BY <3>1, <3>2
  <2> QED BY <1>1, <1>2, <2>1, <2>2, <2>3
<1>4. ASSUME Write(c) \/ Promote(c) \/ Demote(c) PROVE Kept
  <2>1. \E u \in Users, r \in Roles \cup {"none"} : Becomes(u, r)
    <3>1. CASE Write(c)
      BY <1>1, <3>1 DEF Write, Roles
    <3>2. CASE Promote(c)
      BY <1>1, <3>2 DEF Promote, Roles
    <3>3. CASE Demote(c)
      BY <1>1, <3>3 DEF Demote, Roles
    <3> QED BY <1>4, <3>1, <3>2, <3>3
  <2>2. role' \in RoleMap
    BY <2>1, BecomesType
  <2>3. ownerId' = ownerId /\ whole' = whole /\ ShownTo(c)
    BY <1>4 DEF Write, Promote, Demote
  <2>4. behind' \in [Pages -> BOOLEAN]
    BY <2>3, Zenon DEF ShownTo
  <2> QED BY <1>2, <2>2, <2>3, <2>4
<1>5. ASSUME NEW d \in Calls, call'[d].pc \in Busy, call'[d].kind \in ConfirmKinds
      PROVE  pending'[call'[d].by] = {[kind |-> call'[d].kind, who |-> call'[d].who]}
  BY <1>5, ServeGoes DEF TypeOK
<1>6. Kept
  BY <1>3, <1>4 DEF Serve
<1>7. list' \in [Pages -> Entry(RoleMap)] /\ alone' \in BOOLEAN
      /\ pending' \in [Pages -> Modal]
  BY ServeGoes DEF TypeOK
<1>8. call' \in [Calls -> {Idle, Ended} \cup Call]
  BY ServeGoes
<1> QED BY <1>5, <1>6, <1>7, <1>8 DEF TypeOK

(* A call that ends leaves what the others ask for to be confirmed.        *)
LEMMA CallEnds ==
  ASSUME TypeOK, NEW c \in Calls, RoleSettles(c) \/ Confirmed(c) \/ HasLeft(c) \/ NotConfirmed(c)
  PROVE  /\ call[c] \in Call /\ Active(c) /\ call[c].by \in Pages /\ call[c].pc \in {"done", "failed"}
         /\ call' \in [Calls -> {Idle, Ended} \cup Call]
         /\ call'[c] = Ended /\ ~Active(c)'
         /\ \A d \in Calls : d # c => call'[d] = call[d] /\ (Active(d)' <=> Active(d))
         /\ role' = role /\ ownerId' = ownerId /\ behind' = behind /\ alone' = alone /\ whole' = whole
         /\ \A p \in Pages : p # call[c].by => list'[p] = list[p] /\ pending'[p] = pending[p]
<1>1. call[c].pc \in {"done", "failed"} /\ call' = [call EXCEPT ![c] = Ended]
      /\ role' = role /\ ownerId' = ownerId /\ behind' = behind /\ alone' = alone /\ whole' = whole
  BY DEF RoleSettles, Confirmed, HasLeft, NotConfirmed
<1>2. call[c] \in Call /\ Active(c) /\ call[c].by \in Pages
  BY <1>1, CallFields
<1>3. Ended \notin Call
  BY DEF Ended, Call, Busy
<1>4. \A p \in Pages : p # call[c].by => list'[p] = list[p] /\ pending'[p] = pending[p]
  <2>1. DOMAIN list = Pages /\ DOMAIN pending = Pages
    BY DEF TypeOK
  <2> QED BY <2>1 DEF RoleSettles, Confirmed, HasLeft, NotConfirmed, Refresh
<1>5. Ended \in {Idle, Ended} \cup Call
  OBVIOUS
<1> QED BY <1>1, <1>2, <1>3, <1>4, <1>5, CallBecomes

LEMMA TypeEnds ==
  ASSUME TypeOK, Asked, NEW c \in Calls, RoleSettles(c) \/ Confirmed(c) \/ HasLeft(c) \/ NotConfirmed(c)
  PROVE  TypeOK'
<1> DEFINE p == call[c].by
<1>1. p \in Pages
  BY CallEnds
<1>2. list' \in [Pages -> Entry(RoleMap)]
  <2>1. Invalidate(list[p], TRUE) \in Entry(RoleMap) /\ NoEntry \in Entry(RoleMap)
    <3>1. list[p] \in Entry(RoleMap) /\ role \in RoleMap
      BY <1>1 DEF TypeOK
    <3> QED BY <3>1, EntryInvalidated, EntryOps
  <2>2. list \in [Pages -> Entry(RoleMap)]
    BY DEF TypeOK
  <2> QED BY <1>1, <2>1, <2>2 DEF RoleSettles, Confirmed, HasLeft, NotConfirmed, Refresh
<1>3. pending' \in [Pages -> Modal]
  <2>1. pending \in [Pages -> Modal]
    BY DEF TypeOK
  <2>2. {} \in Modal
    BY DEF Modal
  <2> QED BY <1>1, <2>1, <2>2 DEF RoleSettles, Confirmed, HasLeft, NotConfirmed
<1>4. ASSUME NEW d \in Calls, call'[d].pc \in Busy, call'[d].kind \in ConfirmKinds
      PROVE  pending'[call'[d].by] = {[kind |-> call'[d].kind, who |-> call'[d].who]}
  <2>1. d # c /\ call'[d] = call[d] /\ Active(d) /\ call[d].by \in Pages
    <3>1. d # c
      <4>1. call'[c] = Ended /\ Ended.pc \notin Busy
        BY CallEnds DEF Ended, Busy
      <4> QED BY <1>4, <4>1
    <3>2. call'[d] = call[d]
      BY <3>1, CallEnds
    <3> QED BY <1>4, <3>1, <3>2, CallFields DEF Busy
  <2>2. CASE call[d].by = p
    <3>1. call[c].kind \notin ConfirmKinds
      BY <1>4, <2>1, <2>2, CallEnds DEF Asked
    <3>2. pending' = pending
      BY <3>1 DEF RoleSettles, Confirmed, HasLeft, NotConfirmed, ConfirmKinds
    <3> QED BY <1>4, <2>1, <3>2 DEF TypeOK
  <2>3. CASE call[d].by # p
    BY <1>4, <2>1, <2>3, CallEnds DEF TypeOK
  <2> QED BY <2>2, <2>3
<1> QED BY <1>2, <1>3, <1>4, CallEnds DEF TypeOK

(* A request that is sent.                                                 *)
LEMMA SubmitStarts ==
  ASSUME TypeOK, NEW p \in Pages, NEW k \in Kinds, NEW u \in Users, NEW c \in Calls, call[c] = Idle,
         call' = [call EXCEPT ![c] = [pc |-> "own role", kind |-> k, by |-> p, who |-> u, mine |-> "none"]]
  PROVE  /\ call' \in [Calls -> {Idle, Ended} \cup Call]
         /\ call'[c] = [pc |-> "own role", kind |-> k, by |-> p, who |-> u, mine |-> "none"]
         /\ ~Active(c) /\ Active(c)'
         /\ \A d \in Calls : d # c => call'[d] = call[d] /\ (Active(d)' <=> Active(d))
<1>1. [pc |-> "own role", kind |-> k, by |-> p, who |-> u, mine |-> "none"] \in Call
  BY DEF Call, Busy
<1> QED BY <1>1, CallBecomes, CallFields

(* What a page submits is what it asks for, or a role for somebody else.   *)
LEMMA PageSubmits ==
  ASSUME TypeOK, Asked, NEW p \in Pages, Confirm(p) \/ \E k \in RoleKinds, u \in Users : SetRole(p, k, u)
  PROVE  \E k \in Kinds, u \in Users :
           /\ Submit(p, k, u) /\ AboutOthers(k, p, u)
           /\ k \in ConfirmKinds => ~IsConfirming(p) /\ pending[p] = {[kind |-> k, who |-> u]}
           /\ list[p].data # {} \/ k \in ConfirmKinds
<1>1. CASE Confirm(p)
  <2>1. PICK q \in pending[p] : Submit(p, q.kind, q.who)
    BY <1>1 DEF Confirm
  <2>2. q.kind \in ConfirmKinds /\ q.who \in Users /\ pending[p] = {[kind |-> q.kind, who |-> q.who]}
    <3>1. pending[p] \in Modal /\ pending[p] # {}
      BY <2>1 DEF TypeOK
    <3>2. pending[p] = {q} /\ q \in [kind : ConfirmKinds, who : Users]
      BY <2>1, <3>1 DEF Modal
    <3> QED BY <3>2
  <2>3. AboutOthers(q.kind, p, q.who)
    BY <2>1 DEF Asked
  <2> QED BY <1>1, <2>1, <2>2, <2>3 DEF Confirm, Kinds
<1>2. ASSUME NEW k \in RoleKinds, NEW u \in Users, SetRole(p, k, u)
      PROVE  \E j \in Kinds, v \in Users :
               /\ Submit(p, j, v) /\ AboutOthers(j, p, v)
               /\ j \in ConfirmKinds => ~IsConfirming(p) /\ pending[p] = {[kind |-> j, who |-> v]}
               /\ list[p].data # {} \/ j \in ConfirmKinds
  <2>1. u # p /\ list[p].data # {}
    BY <1>2 DEF SetRole, IsOffered, Offers, ActionsFor, RoleKinds
  <2>2. k \in Kinds /\ k \notin ConfirmKinds /\ k # "leave"
    BY DEF Kinds, RoleKinds, ConfirmKinds
  <2> QED BY <1>2, <2>1, <2>2 DEF SetRole, AboutOthers
<1> QED BY <1>1, <1>2

Submits(p) == Confirm(p) \/ \E k \in RoleKinds, u \in Users : SetRole(p, k, u)

LEMMA TypeSubmits ==
  ASSUME TypeOK, Asked, NEW p \in Pages, Submits(p)
  PROVE  TypeOK'
<1>1. PICK k \in Kinds, u \in Users :
        /\ Submit(p, k, u)
        /\ k \in ConfirmKinds => pending[p] = {[kind |-> k, who |-> u]}
  BY PageSubmits DEF Submits
<1>2. PICK c \in Calls :
        /\ call[c] = Idle
        /\ call' = [call EXCEPT ![c] = [pc |-> "own role", kind |-> k, by |-> p, who |-> u, mine |-> "none"]]
        /\ alone' = (alone /\ \A d \in Calls : ~Active(d))
        /\ UNCHANGED <<role, ownerId, list, pending, behind, whole>>
  BY <1>1 DEF Submit
<1>3. alone' \in BOOLEAN
  BY <1>2, Zenon
<1>4. /\ call' \in [Calls -> {Idle, Ended} \cup Call]
      /\ call'[c] = [pc |-> "own role", kind |-> k, by |-> p, who |-> u, mine |-> "none"]
      /\ \A d \in Calls : d # c => call'[d] = call[d]
  BY <1>2, SubmitStarts
<1>5. ASSUME NEW d \in Calls, call'[d].pc \in Busy, call'[d].kind \in ConfirmKinds
      PROVE  pending'[call'[d].by] = {[kind |-> call'[d].kind, who |-> call'[d].who]}
  <2>1. CASE d = c
    BY <1>1, <1>2, <1>4, <1>5, <2>1
  <2>2. CASE d # c
    BY <1>2, <1>4, <1>5, <2>2 DEF TypeOK
  <2> QED BY <2>1, <2>2
<1>6. /\ role' \in RoleMap /\ ownerId' \in Users /\ list' \in [Pages -> Entry(RoleMap)]
      /\ pending' \in [Pages -> Modal]
      /\ behind' \in [Pages -> BOOLEAN] /\ whole' \in BOOLEAN
  BY <1>2 DEF TypeOK
<1> QED BY <1>3, <1>4, <1>5, <1>6 DEF TypeOK

LEMMA TypeLists ==
  ASSUME TypeOK, NEW p \in Pages, OpenTab(p) \/ MayRead(p) \/ ReadList(p) \/ ListLands(p) \/ ListRefused(p)
  PROVE  /\ TypeOK'
         /\ role' = role /\ ownerId' = ownerId /\ pending' = pending /\ call' = call
         /\ alone' = alone /\ whole' = whole
         /\ \A q \in Pages : q # p => list'[q] = list[q] /\ behind'[q] = behind[q]
<1>1. list[p] \in Entry(RoleMap) /\ role \in RoleMap /\ list \in [Pages -> Entry(RoleMap)]
      /\ behind \in [Pages -> BOOLEAN]
  BY DEF TypeOK
<1>2. /\ role' = role /\ ownerId' = ownerId /\ pending' = pending /\ call' = call
      /\ alone' = alone /\ whole' = whole
  BY DEF OpenTab, MayRead, ReadList, ListLands, ListRefused
<1>3. \E e \in Entry(RoleMap) : list' = [list EXCEPT ![p] = e]
  <2>1. /\ Read(list[p], role) \in Entry(RoleMap) /\ Failed(list[p]) \in Entry(RoleMap)
        /\ Landed(list[p]) \in Entry(RoleMap)
        /\ \A aged \in BOOLEAN : Mount(list[p], aged) \in Entry(RoleMap)
    BY <1>1, EntryOps
  <2>2. [list[p] EXCEPT !.got = {role}] \in Entry(RoleMap)
    BY <1>1 DEF Entry, Maybe
  <2> QED BY <2>1, <2>2 DEF OpenTab, MayRead, ReadList, ListLands, ListRefused
<1>4. behind' \in [Pages -> BOOLEAN] /\ \A q \in Pages : q # p => behind'[q] = behind[q]
  BY <1>1 DEF OpenTab, MayRead, ReadList, ListLands, ListRefused
<1>5. list' \in [Pages -> Entry(RoleMap)] /\ \A q \in Pages : q # p => list'[q] = list[q]
  BY <1>1, <1>3
<1>6. TypeOK'
  BY <1>2, <1>4, <1>5 DEF TypeOK
<1> QED BY <1>2, <1>4, <1>5, <1>6

LEMMA TypePending ==
  ASSUME TypeOK, NEW p \in Pages, Cancel(p) \/ \E k \in ConfirmKinds, u \in Users : Ask(p, k, u)
  PROVE  /\ TypeOK'
         /\ role' = role /\ ownerId' = ownerId /\ list' = list /\ call' = call /\ behind' = behind
         /\ alone' = alone /\ whole' = whole
<1>1. /\ role' = role /\ ownerId' = ownerId /\ list' = list /\ call' = call /\ behind' = behind
      /\ alone' = alone /\ whole' = whole
  BY DEF Cancel, Ask
<1>2. /\ pending \in [Pages -> Modal]
      /\ pending' \in [Pages -> Modal]
      /\ \A q \in Pages : q # p => pending'[q] = pending[q]
  <2>1. pending \in [Pages -> Modal]
    BY DEF TypeOK
  <2>2. {} \in Modal /\ \A k \in ConfirmKinds, u \in Users : {[kind |-> k, who |-> u]} \in Modal
    BY DEF Modal
  <2> QED BY <2>1, <2>2 DEF Cancel, Ask
<1>3. ASSUME NEW d \in Calls, call[d].pc \in Busy, call[d].kind \in ConfirmKinds
      PROVE  pending'[call[d].by] = {[kind |-> call[d].kind, who |-> call[d].who]}
  <2>1. Active(d) /\ call[d].by \in Pages /\ pending[call[d].by] # {}
    BY <1>3, CallFields DEF TypeOK, Busy
  <2>2. call[d].by # p
    BY <1>3, <2>1 DEF Cancel, Ask, IsConfirming
  <2> QED BY <1>2, <1>3, <2>1, <2>2 DEF TypeOK
<1>4. TypeOK'
  BY <1>1, <1>2, <1>3 DEF TypeOK
<1> QED BY <1>1, <1>4

(* Every step is one of these.                                             *)
LEMMA Steps ==
  ASSUME Next
  PROVE  \/ \E c \in Calls : Serve(c)
         \/ \E c \in Calls : RoleSettles(c) \/ Confirmed(c) \/ HasLeft(c) \/ NotConfirmed(c)
         \/ \E p \in Pages : Submits(p)
         \/ \E p \in Pages : OpenTab(p) \/ MayRead(p) \/ ReadList(p) \/ ListLands(p) \/ ListRefused(p)
         \/ \E p \in Pages : Cancel(p) \/ \E k \in ConfirmKinds, u \in Users : Ask(p, k, u)
BY DEF Next, Serve, Submits

LEMMA TypeStep == ASSUME TypeOK, Asked, Next PROVE TypeOK'
BY Steps, TypeServe, TypeEnds, TypeSubmits, TypeLists, TypePending

-----------------------------------------------------------------------------
(* Asked.                                                                  *)

LEMMA AskedStep == ASSUME TypeOK, Asked, Next PROVE Asked'
<1>1. ASSUME \A p \in Pages : pending'[p] \subseteq pending[p],
             \A d \in Calls : Active(d)' =>
               /\ Active(d)
               /\ call'[d].by = call[d].by /\ call'[d].kind = call[d].kind /\ call'[d].who = call[d].who
      PROVE  Asked'
  BY <1>1 DEF Asked
<1>2. ASSUME NEW c \in Calls, Serve(c) PROVE Asked'
  BY <1>1, <1>2, ServeGoes
<1>3. ASSUME NEW c \in Calls, RoleSettles(c) \/ Confirmed(c) \/ HasLeft(c) \/ NotConfirmed(c) PROVE Asked'
  <2>1. \A p \in Pages : pending'[p] \subseteq pending[p]
    <3>1. DOMAIN pending = Pages
      BY DEF TypeOK
    <3> QED BY <1>3, <3>1, CallEnds DEF RoleSettles, Confirmed, HasLeft, NotConfirmed
  <2> QED BY <1>1, <1>3, <2>1, CallEnds
<1>4. ASSUME NEW p \in Pages, OpenTab(p) \/ MayRead(p) \/ ReadList(p) \/ ListLands(p) \/ ListRefused(p) PROVE Asked'
  BY <1>1, <1>4, TypeLists DEF Active
<1>5. ASSUME NEW p \in Pages, Cancel(p) PROVE Asked'
  <2>1. DOMAIN pending = Pages
    BY DEF TypeOK
  <2>2. \A q \in Pages : pending'[q] \subseteq pending[q]
    BY <1>5, <2>1 DEF Cancel
  <2> QED BY <1>1, <1>5, <2>2 DEF Cancel, Active
<1>6. ASSUME NEW p \in Pages, NEW k \in ConfirmKinds, NEW u \in Users, Ask(p, k, u) PROVE Asked'
  <2>1. AboutOthers(k, p, u)
    <3>1. PICK r \in list[p].data : \E mine \in MyRoles(r, p) : k \in Offers(r, mine, p, u)
      BY <1>6 DEF Ask, IsOffered
    <3>2. k # "leave" => u # p
      BY <3>1 DEF Offers, ActionsFor, CanRemove
    <3>3. k = "leave" => u = p
      BY <3>1 DEF Offers, ActionsFor
    <3> QED BY <3>2, <3>3 DEF AboutOthers
  <2>2. DOMAIN pending = Pages
    BY DEF TypeOK
  <2>3. pending'[p] = {[kind |-> k, who |-> u]} /\ (\A q \in Pages : q # p => pending'[q] = pending[q]) /\ call' = call
    BY <1>6, <2>2 DEF Ask
  <2> QED BY <2>1, <2>3 DEF Asked, Active
<1>7. ASSUME NEW p \in Pages, Submits(p) PROVE Asked'
  <2>1. PICK k \in Kinds, u \in Users :
          /\ Submit(p, k, u) /\ AboutOthers(k, p, u)
          /\ k \in ConfirmKinds => ~IsConfirming(p)
    BY <1>7, PageSubmits DEF Submits
  <2>2. PICK c \in Calls :
          /\ call[c] = Idle
          /\ call' = [call EXCEPT ![c] = [pc |-> "own role", kind |-> k, by |-> p, who |-> u, mine |-> "none"]]
          /\ pending' = pending
    BY <2>1 DEF Submit
  <2>3. /\ call'[c].kind = k /\ call'[c].by = p /\ call'[c].who = u
        /\ \A d \in Calls : d # c => call'[d] = call[d] /\ (Active(d)' <=> Active(d))
    <3> DEFINE x == [pc |-> "own role", kind |-> k, by |-> p, who |-> u, mine |-> "none"]
    <3>1. /\ call'[c] = x
          /\ \A d \in Calls : d # c => call'[d] = call[d] /\ (Active(d)' <=> Active(d))
      BY <2>2, SubmitStarts
    <3>2. x.kind = k /\ x.by = p /\ x.who = u
      OBVIOUS
    <3> HIDE DEF x
    <3> QED BY <3>1, <3>2, Zenon
  <2>4. k \in ConfirmKinds => \A d \in Calls : ~(Active(d) /\ call[d].by = p /\ call[d].kind \in ConfirmKinds)
    BY <2>1 DEF IsConfirming
  <2>5. \A q \in Pages : \A r \in pending'[q] : AboutOthers(r.kind, q, r.who)
    BY <2>2 DEF Asked
  <2>6. \A d \in Calls : Active(d)' => AboutOthers(call'[d].kind, call'[d].by, call'[d].who)
    <3>1. \A d \in Calls : Active(d) => AboutOthers(call[d].kind, call[d].by, call[d].who)
      BY DEF Asked
    <3> QED BY <2>1, <2>3, <3>1
  <2>7. ASSUME NEW d \in Calls, NEW e \in Calls, Active(d)', Active(e)', call'[d].by = call'[e].by,
               call'[d].kind \in ConfirmKinds, call'[e].kind \in ConfirmKinds
        PROVE  d = e
    <3>1. CASE d # c /\ e # c
      BY <2>3, <2>7, <3>1 DEF Asked
    <3>2. CASE d = c /\ e # c
      BY <2>3, <2>4, <2>7, <3>2
    <3>3. CASE d # c /\ e = c
      BY <2>3, <2>4, <2>7, <3>3
    <3> QED BY <3>1, <3>2, <3>3
  <2> QED BY <2>5, <2>6, <2>7 DEF Asked
<1> QED BY <1>2, <1>3, <1>4, <1>5, <1>6, <1>7, Steps

-----------------------------------------------------------------------------
(* Alone.                                                                  *)

(* A request that is under way alone is the only one that may transfer.    *)
LEMMA OnlyOne ==
  ASSUME NEW c \in Calls, \A d \in Calls : d # c => ~Active(d)
  PROVE  /\ (\A d \in Calls : Known(d)) <=> Known(c)
         /\ Transferring <=> call[c].pc \in {"promote", "demote"}
<1>1. \A d \in Calls : d # c => call[d].pc \in {"idle", "ended"}
  BY DEF Active
<1>2. \A d \in Calls : d # c => Known(d)
  BY <1>1 DEF Known
<1>3. Transferring <=> call[c].pc \in {"promote", "demote"}
  BY <1>1 DEF Transferring
<1> QED BY <1>2, <1>3

LEMMA OwnersBecome ==
  ASSUME TypeOK, NEW u \in Users, NEW r \in Roles \cup {"none"}, Becomes(u, r)
  PROVE  /\ role[u] = "none" \/ r # "owner" => Owners' = Owners \ {u}
         /\ role[u] # "none" /\ r = "owner" => Owners' = Owners \cup {u}
<1>1. /\ role'[u] = IF role[u] = "none" THEN "none" ELSE r
      /\ \A v \in Users : v # u => role'[v] = role[v]
  BY BecomesType
<1> QED BY <1>1 DEF Owners

(* A step of the one request that is under way.                            *)
LEMMA KnownServe ==
  ASSUME TypeOK, Asked, NEW c \in Calls, Serve(c), Known(c), whole',
         call[c].pc \notin {"promote", "demote"} => Owners = {ownerId}
  PROVE  /\ Known(c)'
         /\ call'[c].pc \notin {"promote", "demote"} => Owners' = {ownerId'}
<1> DEFINE by == call[c].by
           who == call[c].who
           kind == call[c].kind
<1>1. /\ by \in Users /\ who \in Users /\ kind \in Kinds /\ AboutOthers(kind, by, who)
      /\ call'[c].by = by /\ call'[c].who = who /\ call'[c].kind = kind /\ c \in DOMAIN call
      /\ call[c] \in Call
  BY ServeGoes, CallFields, PagesAssumption DEF Asked, TypeOK
<1>2. role \in RoleMap
  BY DEF TypeOK
<1>3. ASSUME role' = role PROVE Owners' = Owners
  BY <1>3 DEF Owners
<1>4. CASE OwnRole(c)
  <2>1. /\ call[c].pc = "own role" /\ role' = role /\ ownerId' = ownerId
        /\ call'[c].mine = role[by]
        /\ call'[c].pc = IF ~Allowed(kind, role[by]) THEN "failed"
                         ELSE IF kind = "leave" THEN "write" ELSE "their role"
    BY <1>1, <1>4 DEF OwnRole, Call
  <2>2. kind = "leave" /\ Allowed(kind, role[by]) => role[who] # "owner" /\ kind # "transfer"
    BY <1>1 DEF Allowed, AboutOthers, RoleKinds
  <2>3. Known(c)'
    BY <1>1, <2>1, <2>2 DEF Known
  <2>4. Owners' = {ownerId'}
    BY <1>3, <2>1
  <2> QED BY <2>3, <2>4
<1>5. CASE TheirRole(c)
  <2>1. /\ call[c].pc = "their role" /\ role' = role /\ ownerId' = ownerId
        /\ call'[c].pc = IF ~AllowedOn(kind, call[c].mine, role[who]) THEN "failed"
                         ELSE IF kind = "transfer" THEN "owner_id" ELSE "write"
    BY <1>1, <1>5 DEF TheirRole, Goto, Call
  <2>2. kind # "leave" /\ call[c].mine = role[by] /\ Allowed(kind, role[by]) /\ Owners = {ownerId}
    BY <2>1 DEF Known
  <2>3. ASSUME AllowedOn(kind, role[by], role[who]), kind # "transfer" PROVE role[who] # "owner"
    <3>1. CASE kind \in RoleKinds
      BY <2>3, <3>1 DEF AllowedOn
    <3>2. CASE kind = "remove"
      <4>1. by # who
        BY <1>1, <3>2 DEF AboutOthers
      <4>2. ~(role[by] = "owner" /\ role[who] = "owner")
        BY <1>1, <2>2, <4>1 DEF Owners
      <4> QED BY <2>3, <3>2, <4>2 DEF AllowedOn
    <3> QED BY <1>1, <2>2, <2>3, <3>1, <3>2 DEF Kinds, ConfirmKinds
  <2>4. kind = "transfer" /\ AllowedOn(kind, role[by], role[who]) => role[by] = "owner" /\ role[who] # "none"
    BY <2>2 DEF Allowed, AllowedOn, RoleKinds
  <2>5. Known(c)'
    BY <1>1, <2>1, <2>2, <2>3, <2>4 DEF Known
  <2> QED BY <1>3, <2>1, <2>2, <2>5
<1>6. CASE Write(c)
  <2>1. call[c].pc = "write" /\ ownerId' = ownerId /\ call'[c].pc = "done"
    BY <1>1, <1>6 DEF Write, Goto, Call
  <2>2. role[who] # "owner" /\ Owners = {ownerId}
    BY <2>1 DEF Known
  <2>3. \E r \in {"admin", "member", "none"} : Becomes(who, r)
    BY <1>6 DEF Write
  <2>4. Owners' = Owners \ {who}
    BY <1>1, <2>3, OwnersBecome DEF Roles
  <2>5. who \notin Owners
    BY <2>2 DEF Owners
  <2>6. Known(c)'
    BY <2>1 DEF Known
  <2> QED BY <2>1, <2>2, <2>4, <2>5, <2>6
<1>7. CASE SetOwnerId(c)
  <2>1. call[c].pc = "owner_id" /\ ownerId' = who /\ role' = role /\ call'[c].pc = "promote"
    BY <1>1, <1>7 DEF SetOwnerId, Goto, Call
  <2>2. kind = "transfer" /\ role[by] = "owner" /\ role[who] # "none" /\ Owners = {ownerId}
    BY <2>1 DEF Known
  <2>3. Owners = {by} /\ by # who
    BY <1>1, <2>2 DEF Owners, AboutOthers
  <2>4. Known(c)'
    BY <1>1, <1>3, <2>1, <2>2, <2>3 DEF Known
  <2> QED BY <2>1, <2>4
<1>8. CASE Promote(c)
  <2>1. call[c].pc = "promote" /\ ownerId' = ownerId /\ call'[c].pc = "demote" /\ Becomes(who, "owner")
    BY <1>1, <1>8 DEF Promote, Goto, Call
  <2>2. role[who] # "none" /\ Owners = {by} /\ ownerId = who /\ by # who
    BY <2>1 DEF Known
  <2>3. Owners' = {by, who}
    BY <1>1, <2>1, <2>2, OwnersBecome DEF Roles
  <2>4. Known(c)'
    BY <1>1, <2>1, <2>2, <2>3 DEF Known
  <2> QED BY <2>1, <2>4
<1>9. CASE Demote(c)
  <2>1. call[c].pc = "demote" /\ ownerId' = ownerId /\ call'[c].pc = "done" /\ Becomes(by, "admin")
    BY <1>1, <1>9 DEF Demote, Goto, Call
  <2>2. Owners = {by, who} /\ ownerId = who /\ by # who
    BY <2>1 DEF Known
  <2>3. Owners' = {who}
    BY <1>1, <2>1, <2>2, OwnersBecome DEF Roles
  <2>4. Known(c)'
    BY <2>1 DEF Known
  <2> QED BY <2>1, <2>2, <2>3, <2>4
<1>10. CASE Breaks(c)
  <2>1. call[c].pc \notin {"promote", "demote"} /\ role' = role /\ ownerId' = ownerId /\ call'[c].pc = "failed"
    BY <1>1, <1>10 DEF Breaks, Goto, Call
  <2>2. Known(c)'
    BY <2>1 DEF Known
  <2> QED BY <1>3, <2>1, <2>2
<1> QED BY <1>4, <1>5, <1>6, <1>7, <1>8, <1>9, <1>10 DEF Serve

LEMMA AloneStep == ASSUME TypeOK, Asked, Alone, Next PROVE Alone'
<1>1. ASSUME NEW c \in Calls, Serve(c) PROVE Alone'
  <2>1. /\ Active(c) /\ alone' = alone /\ \A d \in Calls : Active(d)' <=> Active(d)
    BY <1>1, ServeGoes
  <2>2. ASSUME alone', NEW d \in Calls, NEW e \in Calls, Active(d)', Active(e)' PROVE d = e
    BY <2>1, <2>2 DEF Alone
  <2>3. ASSUME alone', whole'
        PROVE  (\A d \in Calls : Known(d)') /\ (~Transferring' => Owners' = {ownerId'})
    <3>1. alone /\ whole
      <4>1. whole
        <5>1. CASE Breaks(c)
          BY <2>3, <5>1 DEF Breaks
        <5>2. CASE ~Breaks(c)
          BY <1>1, <2>3, <5>2 DEF Serve, OwnRole, TheirRole, Write, SetOwnerId, Promote, Demote
        <5> QED BY <5>1, <5>2
      <4> QED BY <2>1, <2>3, <4>1
    <3>2. \A d \in Calls : d # c => ~Active(d)
      BY <2>1, <3>1 DEF Alone
    <3>3. \A d \in Calls : d # c => ~Active(d)'
      BY <2>1, <3>2
    <3>4. Known(c) /\ (call[c].pc \notin {"promote", "demote"} => Owners = {ownerId})
      BY <3>1, <3>2, OnlyOne DEF Alone
    <3>5. Known(c)' /\ (call'[c].pc \notin {"promote", "demote"} => Owners' = {ownerId'})
      BY <1>1, <2>3, <3>4, KnownServe
    <3>6. \A d \in Calls : d # c => call'[d].pc \in {"idle", "ended"}
      BY <3>3 DEF Active
    <3>7. \A d \in Calls : d # c => Known(d)'
      BY <3>6 DEF Known
    <3>8. Transferring' <=> call'[c].pc \in {"promote", "demote"}
      BY <3>6 DEF Transferring
    <3> QED BY <3>5, <3>7, <3>8
  <2> QED BY <2>2, <2>3 DEF Alone
<1>2. ASSUME NEW c \in Calls, role' = role, ownerId' = ownerId, alone' => alone, whole' = whole,
             alone' => \A d \in Calls : d # c => ~Active(d) /\ ~Active(d)',
             call[c].pc \notin {"promote", "demote"},
             call'[c].pc \in {"idle", "ended", "own role"}
      PROVE  Alone'
  <2>1. Owners' = Owners
    BY <1>2 DEF Owners
  <2>2. ASSUME alone', NEW d \in Calls, NEW e \in Calls, Active(d)', Active(e)' PROVE d = e
    BY <1>2, <2>2
  <2>3. ASSUME alone', whole'
        PROVE  (\A d \in Calls : Known(d)') /\ (~Transferring' => Owners' = {ownerId'})
    <3>1. \A d \in Calls : call'[d].pc \in {"idle", "ended", "own role"}
      BY <1>2, <2>3 DEF Active
    <3>2. \A d \in Calls : Known(d)'
      BY <3>1 DEF Known
    <3>3. ~Transferring
      <4>1. \A d \in Calls : d # c => ~Active(d)
        BY <1>2, <2>3
      <4> QED BY <1>2, <4>1, OnlyOne
    <3>4. Owners = {ownerId}
      BY <1>2, <2>3, <3>3 DEF Alone
    <3> QED BY <1>2, <2>1, <3>2, <3>4
  <2> QED BY <2>2, <2>3 DEF Alone
<1>3. ASSUME NEW c \in Calls, RoleSettles(c) \/ Confirmed(c) \/ HasLeft(c) \/ NotConfirmed(c) PROVE Alone'
  <2>1. /\ call[c].pc \in {"done", "failed"} /\ call'[c].pc = "ended" /\ Active(c)
        /\ role' = role /\ ownerId' = ownerId /\ alone' = alone /\ whole' = whole
        /\ \A d \in Calls : d # c => (Active(d)' <=> Active(d))
    BY <1>3, CallEnds DEF Ended
  <2>2. alone' => \A d \in Calls : d # c => ~Active(d) /\ ~Active(d)'
    BY <2>1 DEF Alone
  <2> QED BY <1>2, <2>1, <2>2
<1>4. ASSUME NEW p \in Pages, Submits(p) PROVE Alone'
  <2>1. PICK k \in Kinds, u \in Users : Submit(p, k, u)
    BY <1>4, PageSubmits DEF Submits
  <2>2. PICK c \in Calls :
          /\ call[c] = Idle
          /\ call' = [call EXCEPT ![c] = [pc |-> "own role", kind |-> k, by |-> p, who |-> u, mine |-> "none"]]
          /\ alone' = (alone /\ \A d \in Calls : ~Active(d))
          /\ role' = role /\ ownerId' = ownerId /\ whole' = whole
    BY <2>1 DEF Submit
  <2> DEFINE x == [pc |-> "own role", kind |-> k, by |-> p, who |-> u, mine |-> "none"]
  <2>3. /\ call'[c] = x
        /\ \A d \in Calls : d # c => (Active(d)' <=> Active(d))
    BY <2>2, SubmitStarts
  <2>4. x.pc = "own role"
    OBVIOUS
  <2> HIDE DEF x
  <2>5. call[c].pc \notin {"promote", "demote"}
    <3>1. ~Active(c)
      BY <2>2, SubmitStarts
    <3> QED BY <3>1 DEF Active
  <2>6. (alone' => alone) /\ (alone' => \A d \in Calls : d # c => ~Active(d) /\ ~Active(d)')
    <3>1. alone' => alone /\ \A d \in Calls : ~Active(d)
      BY <2>2, Zenon
    <3>2. \A d \in Calls : d # c => (Active(d)' <=> Active(d))
      BY <2>3
    <3> QED BY <3>1, <3>2, Zenon
  <2>7. call'[c].pc \in {"idle", "ended", "own role"}
    BY <2>3, <2>4
  <2> QED BY <1>2, <2>2, <2>5, <2>6, <2>7
<1>5. ASSUME role' = role, ownerId' = ownerId, call' = call, alone' = alone, whole' = whole PROVE Alone'
  BY <1>5 DEF Alone, Known, Active, Transferring, Owners
<1>6. ASSUME NEW p \in Pages, OpenTab(p) \/ MayRead(p) \/ ReadList(p) \/ ListLands(p) \/ ListRefused(p) PROVE Alone'
  BY <1>5, <1>6, TypeLists
<1>7. ASSUME NEW p \in Pages, Cancel(p) \/ \E k \in ConfirmKinds, u \in Users : Ask(p, k, u) PROVE Alone'
  BY <1>5, <1>7, TypePending
<1> QED BY <1>1, <1>3, <1>4, <1>6, <1>7, Steps

-----------------------------------------------------------------------------
(* Lists.                                                                  *)

(* Nobody comes back.                                                      *)
LEMMA NobodyReturns ==
  ASSUME TypeOK, NEW c \in Calls, Serve(c), NEW u \in Users, role[u] = "none"
  PROVE  role'[u] = "none"
<1>1. call[c].who \in Users /\ call[c].by \in Users
  BY ServeGoes, CallFields, PagesAssumption
<1>2. role' = role \/ \E v \in Users, r \in Roles \cup {"none"} : Becomes(v, r)
  <2>1. CASE Write(c)
    BY <1>1, <2>1 DEF Write, Roles
  <2>2. CASE Promote(c) \/ Demote(c)
    BY <1>1, <2>2 DEF Promote, Demote, Roles
  <2>3. CASE OwnRole(c) \/ TheirRole(c) \/ SetOwnerId(c) \/ Breaks(c)
    BY <2>3 DEF OwnRole, TheirRole, SetOwnerId, Breaks
  <2> QED BY <2>1, <2>2, <2>3 DEF Serve
<1> QED BY <1>2, BecomesType

(* What a step of a request does to what its page shows.                   *)
LEMMA ServeShows ==
  ASSUME TypeOK, Asked, NEW c \in Calls, Left(c), Serve(c)
  PROVE  /\ Left(c)'
         /\ \/ /\ role' = role /\ call[c].pc \notin {"demote", "done"} /\ behind' = behind
            \/ /\ role' = role /\ behind'[call[c].by]
               /\ \A p \in Pages : p # call[c].by => behind'[p] = behind[p]
            \/ /\ call'[c].pc \in {"demote", "done"}
               /\ \A p \in Pages : p # call[c].by => behind'[p]
<1> DEFINE by == call[c].by
           who == call[c].who
           kind == call[c].kind
<1>1. /\ by \in Pages /\ by \in Users /\ who \in Users /\ AboutOthers(kind, by, who)
      /\ call'[c].by = by /\ call'[c].kind = kind /\ c \in DOMAIN call /\ call[c] \in Call
  BY ServeGoes, CallFields, PagesAssumption DEF Asked, TypeOK
<1>2. behind \in [Pages -> BOOLEAN] /\ role \in RoleMap
  BY DEF TypeOK
<1>3. ASSUME ShownTo(c) PROVE \A p \in Pages : p # by => behind'[p]
  BY <1>3 DEF ShownTo
<1>4. CASE OwnRole(c)
  <2>1. call[c].pc = "own role" /\ role' = role /\ behind' = behind
    BY <1>4 DEF OwnRole
  <2>2. call'[c].pc \in {"failed", "write", "their role"}
    BY <1>1, <1>4 DEF OwnRole, Call
  <2> QED BY <2>1, <2>2 DEF Left
<1>5. CASE TheirRole(c)
  <2>1. call[c].pc = "their role" /\ role' = role /\ behind' = behind
    BY <1>5 DEF TheirRole
  <2>2. call'[c].pc \in {"failed", "write"} \/ (call'[c].pc = "owner_id" /\ kind = "transfer")
    BY <1>1, <1>5 DEF TheirRole, Goto, Call
  <2> QED BY <1>1, <2>1, <2>2 DEF Left
<1>6. CASE Write(c)
  <2>1. call[c].pc = "write" /\ call'[c].pc = "done" /\ ShownTo(c)
    BY <1>1, <1>6 DEF Write, Goto, Call
  <2>2. ASSUME kind = "leave" PROVE role'[by] = "none"
    <3>1. Becomes(by, "none")
      BY <1>1, <1>6, <2>2 DEF Write, AboutOthers
    <3> QED BY <1>1, <3>1, BecomesType
  <2> QED BY <1>1, <1>3, <2>1, <2>2 DEF Left
<1>7. CASE SetOwnerId(c)
  <2>1. call[c].pc = "owner_id" /\ call'[c].pc = "promote" /\ role' = role /\ behind' = behind
    BY <1>1, <1>7 DEF SetOwnerId, Goto, Call
  <2> QED BY <1>1, <2>1 DEF Left
<1>8. CASE Promote(c)
  <2>1. call[c].pc = "promote" /\ call'[c].pc = "demote" /\ ShownTo(c)
    BY <1>1, <1>8 DEF Promote, Goto, Call
  <2> QED BY <1>1, <1>3, <2>1 DEF Left
<1>9. CASE Demote(c)
  <2>1. call[c].pc = "demote" /\ call'[c].pc = "done" /\ ShownTo(c)
    BY <1>1, <1>9 DEF Demote, Goto, Call
  <2> QED BY <1>1, <1>3, <2>1 DEF Left
<1>10. CASE Breaks(c)
  <2>1. call'[c].pc = "failed" /\ role' = role
    BY <1>1, <1>10 DEF Breaks, Goto, Call
  <2>2. behind'[by] /\ \A p \in Pages : p # by => behind'[p] = behind[p]
    BY <1>1, <1>2, <1>10 DEF Breaks
  <2> QED BY <2>1, <2>2 DEF Left
<1> QED BY <1>4, <1>5, <1>6, <1>7, <1>8, <1>9, <1>10 DEF Serve

LEMMA ListsServe == ASSUME TypeOK, Asked, Lists, NEW c \in Calls, Serve(c) PROVE Lists'
<1>1. /\ call'[c].by = call[c].by /\ call[c].by \in Pages /\ Active(c) /\ Active(c)'
      /\ \A d \in Calls : d # c => call'[d] = call[d]
      /\ \A d \in Calls : Active(d)' <=> Active(d)
      /\ list' = list /\ pending' = pending
  BY ServeGoes, CallFields
<1>2. Left(c)
  BY DEF Lists
<1>3. ASSUME NEW d \in Calls PROVE Left(d)'
  <2>1. CASE d = c
    BY <1>2, <2>1, ServeShows
  <2>2. CASE d # c
    <3>1. call'[d] = call[d] /\ Left(d)
      BY <1>1, <2>2 DEF Lists
    <3>2. call[d].pc = "done" => call[d].by \in Users
      BY CallFields, PagesAssumption
    <3> QED BY <3>1, <3>2, NobodyReturns DEF Left
  <2> QED BY <2>1, <2>2
<1>4. ASSUME NEW p \in Pages PROVE Listed(p)'
  <2>1. Listed(p) /\ p \in Users
    BY PagesAssumption DEF Lists
  <2>2. Held(p)'
    <3>1. role[p] = "none" => role'[p] = "none"
      BY <2>1, NobodyReturns
    <3>2. (\E d \in Calls : Active(d)' /\ call'[d].by = p) => \E d \in Calls : Active(d) /\ call[d].by = p
      BY <1>1
    <3> QED BY <1>1, <2>1, <3>1, <3>2 DEF Listed, Held
  <2>3. ASSUME p # call[c].by \/ call[c].pc \notin {"demote", "done"}, ~Changing(p)' PROVE ~Changing(p)
    BY <1>1, <2>3 DEF Changing
  <2>4. ASSUME ~behind'[p], ~Changing(p)' PROVE Current(p)'
    <3>1. p = call[c].by => call'[c].pc \notin {"demote", "done"}
      BY <1>1, <2>4 DEF Changing
    <3>2. role' = role /\ ~behind[p] /\ (p # call[c].by \/ call[c].pc \notin {"demote", "done"})
      BY <1>2, <2>4, <3>1, ServeShows
    <3>3. Current(p)
      BY <2>1, <2>3, <2>4, <3>2 DEF Listed
    <3> QED BY <1>1, <3>2, <3>3 DEF Current
  <2> QED BY <1>1, <2>1, <2>2, <2>4 DEF Listed
<1> QED BY <1>3, <1>4 DEF Lists

LEMMA ListsEnds ==
  ASSUME TypeOK, Lists, NEW c \in Calls, RoleSettles(c) \/ Confirmed(c) \/ HasLeft(c) \/ NotConfirmed(c)
  PROVE  Lists'
<1>0. PICK p \in Pages : p = call[c].by
  BY CallEnds
<1>1. /\ p = call[c].by /\ Active(c) /\ call[c].pc \in {"done", "failed"} /\ call'[c] = Ended /\ ~Active(c)'
      /\ \A d \in Calls : d # c => call'[d] = call[d] /\ (Active(d)' <=> Active(d))
      /\ role' = role /\ behind' = behind
      /\ \A q \in Pages : q # p => list'[q] = list[q] /\ pending'[q] = pending[q]
  BY <1>0, CallEnds
<1>2. list[p] \in Entry(RoleMap) /\ p \in DOMAIN list /\ p \in DOMAIN pending
  BY <1>1 DEF TypeOK
<1>3. Listed(p) /\ Left(c)
  BY <1>1 DEF Lists
<1>4. ASSUME NEW d \in Calls PROVE Left(d)'
  <2>1. CASE d = c
    BY <1>1, <2>1 DEF Left, Ended
  <2>2. CASE d # c
    BY <1>1, <2>2 DEF Lists, Left
  <2> QED BY <2>1, <2>2
<1>5. ASSUME NEW q \in Pages, q # p PROVE Listed(q)'
  <2>1. Listed(q) /\ (Changing(q) => Changing(q)')
    BY <1>1, <1>5 DEF Lists, Changing
  <2>2. (\E d \in Calls : Active(d)' /\ call'[d].by = q) => \E d \in Calls : Active(d) /\ call[d].by = q
    BY <1>1
  <2>3. Held(q)'
    BY <1>1, <1>5, <2>1, <2>2 DEF Listed, Held
  <2>4. Current(q) => Current(q)'
    BY <1>1, <1>5 DEF Current
  <2> QED BY <1>1, <1>5, <2>1, <2>3, <2>4 DEF Listed
<1>6. CASE RoleSettles(c) \/ Confirmed(c)
  <2> DEFINE i == Invalidate(list[p], TRUE)
  <2>1. list'[p] = i
    BY <1>1, <1>2, <1>6 DEF RoleSettles, Confirmed, Refresh
  <2>2. list[p].data # {} \/ (role[p] = "none" /\ list[p].got = {})
    BY <1>1, <1>3 DEF Listed, Held
  <2>3. i.data = list[p].data /\ i.flight = "sent" /\ i.got = {}
    <3>1. list[p].flight \in {"none", "sent", "read"} /\ (list[p].flight = "read" => list[p].got # {})
      BY <1>2, <1>3, EntryFields DEF Listed
    <3> QED BY <1>2, <2>2, <3>1 DEF Invalidate, Send, Entry
  <2> HIDE DEF i
  <2>4. Listed(p)'
    BY <1>1, <2>1, <2>2, <2>3 DEF Listed, Held, Current
  <2> QED BY <1>4, <1>5, <2>4 DEF Lists
<1>7. CASE HasLeft(c)
  <2>1. list'[p] = NoEntry /\ role[p] = "none"
    BY <1>1, <1>2, <1>3, <1>7 DEF HasLeft, Left
  <2>2. Listed(p)'
    BY <1>1, <2>1 DEF Listed, Held, Current, NoEntry
  <2> QED BY <1>4, <1>5, <2>2 DEF Lists
<1>8. CASE NotConfirmed(c)
  <2>1. call[c].pc = "failed" /\ list' = list /\ pending' = pending
    BY <1>8 DEF NotConfirmed
  <2>2. Changing(p) => Changing(p)'
    BY <1>1, <2>1 DEF Changing
  <2>3. (\E d \in Calls : Active(d)' /\ call'[d].by = p) => \E d \in Calls : Active(d) /\ call[d].by = p
    BY <1>1
  <2>4. Held(p)'
    BY <1>1, <1>3, <2>1, <2>3 DEF Listed, Held
  <2>5. Current(p) => Current(p)'
    BY <1>1, <2>1 DEF Current
  <2>6. Listed(p)'
    BY <1>1, <1>3, <2>1, <2>2, <2>4, <2>5 DEF Listed
  <2> QED BY <1>4, <1>5, <2>6 DEF Lists
<1> QED BY <1>6, <1>7, <1>8

LEMMA ListsSubmits ==
  ASSUME TypeOK, Asked, Lists, NEW p \in Pages, Submits(p)
  PROVE  Lists'
<1>1. PICK k \in Kinds, u \in Users :
        /\ Submit(p, k, u)
        /\ k \in ConfirmKinds => pending[p] = {[kind |-> k, who |-> u]}
        /\ list[p].data # {} \/ k \in ConfirmKinds
  BY PageSubmits DEF Submits
<1>2. PICK c \in Calls :
        /\ call[c] = Idle
        /\ call' = [call EXCEPT ![c] = [pc |-> "own role", kind |-> k, by |-> p, who |-> u, mine |-> "none"]]
        /\ role' = role /\ list' = list /\ pending' = pending /\ behind' = behind
  BY <1>1 DEF Submit
<1> DEFINE x == [pc |-> "own role", kind |-> k, by |-> p, who |-> u, mine |-> "none"]
<1>3. /\ call'[c] = x
      /\ \A d \in Calls : d # c => call'[d] = call[d] /\ (Active(d)' <=> Active(d))
      /\ ~Active(c)
  BY <1>2, SubmitStarts
<1>4. x.pc = "own role" /\ x.by = p
  OBVIOUS
<1> HIDE DEF x
<1>5. ASSUME NEW d \in Calls PROVE Left(d)'
  <2>1. CASE d = c
    BY <1>3, <1>4, <2>1 DEF Left
  <2>2. CASE d # c
    BY <1>2, <1>3, <2>2 DEF Lists, Left
  <2> QED BY <2>1, <2>2
<1>6. ASSUME NEW q \in Pages PROVE Listed(q)'
  <2>1. Listed(q)
    BY DEF Lists
  <2>2. Changing(q) => Changing(q)'
    BY <1>3 DEF Changing
  <2>3. ASSUME q # p PROVE Held(q)'
    <3>1. (\E d \in Calls : Active(d)' /\ call'[d].by = q) => \E d \in Calls : Active(d) /\ call[d].by = q
      BY <1>3, <1>4, <2>3
    <3> QED BY <1>2, <2>1, <3>1 DEF Listed, Held
  <2>4. ASSUME q = p PROVE Held(q)'
    <3>1. list[p].data # {} \/ pending[p] # {}
      BY <1>1
    <3> QED BY <1>2, <2>1, <2>4, <3>1 DEF Listed, Held
  <2>5. Current(q) => Current(q)'
    BY <1>2 DEF Current
  <2> QED BY <1>2, <2>1, <2>2, <2>3, <2>4, <2>5 DEF Listed
<1> QED BY <1>5, <1>6 DEF Lists

LEMMA ListsLists ==
  ASSUME TypeOK, Lists, NEW p \in Pages, OpenTab(p) \/ MayRead(p) \/ ReadList(p) \/ ListLands(p) \/ ListRefused(p)
  PROVE  Lists'
<1>1. /\ role' = role /\ pending' = pending /\ call' = call
      /\ \A q \in Pages : q # p => list'[q] = list[q] /\ behind'[q] = behind[q]
  BY TypeLists
<1>2. /\ list[p] \in Entry(RoleMap) /\ role \in RoleMap /\ p \in DOMAIN list /\ p \in DOMAIN behind
      /\ Listed(p)
  BY DEF TypeOK, Lists
<1>3. ASSUME NEW q \in Pages PROVE Changing(q)' <=> Changing(q)
  BY <1>1 DEF Changing, Active
<1>4. ASSUME NEW d \in Calls PROVE Left(d)'
  BY <1>1 DEF Lists, Left
<1>5. (\E c \in Calls : Active(c) /\ call[c].by = p)' <=> (\E c \in Calls : Active(c) /\ call[c].by = p)
  BY <1>1 DEF Active
<1>6. ASSUME NEW q \in Pages, q # p PROVE Listed(q)'
  <2>1. Held(q)' <=> Held(q)
    BY <1>1, <1>6 DEF Held, Active
  <2>2. Current(q)' <=> Current(q)
    BY <1>1, <1>6 DEF Current
  <2> QED BY <1>1, <1>3, <1>6, <2>1, <2>2 DEF Lists, Listed
<1>7. ASSUME OpenTab(p) PROVE Listed(p)'
  <2>1. list'[p] \in {list[p], Send(list[p])} /\ behind' = behind
    BY <1>2, <1>7 DEF OpenTab, Mount, Fetch
  <2>2. CASE list'[p] = list[p]
    <3>1. Held(p)' /\ (Current(p) => Current(p)')
      BY <1>1, <1>2, <1>5, <2>2 DEF Listed, Held, Current
    <3> QED BY <1>2, <1>3, <2>1, <2>2, <3>1 DEF Listed
  <2>3. CASE list'[p] = Send(list[p])
    <3>1. list'[p].data = list[p].data /\ list'[p].flight = "sent" /\ list'[p].got = {}
      BY <1>2, <2>3 DEF Send, Entry
    <3>2. Held(p)' /\ Current(p)'
      BY <1>1, <1>2, <1>5, <3>1 DEF Listed, Held, Current
    <3> QED BY <3>1, <3>2 DEF Listed
  <2> QED BY <2>1, <2>2, <2>3
<1>8. ASSUME ListRefused(p) PROVE Listed(p)'
  <2>1. list'[p] = Failed(list[p]) /\ behind'[p] /\ role[p] = "none"
    BY <1>2, <1>8 DEF ListRefused
  <2>2. list'[p].flight = "none" /\ list'[p].got = {}
    BY <1>2, <2>1 DEF Failed, Entry
  <2>3. Held(p)'
    BY <1>1, <2>1, <2>2 DEF Held
  <2> QED BY <2>1, <2>2, <2>3 DEF Listed
<1>9. ASSUME MayRead(p) \/ ReadList(p) PROVE Listed(p)'
  <2>1. /\ list'[p].data = list[p].data /\ list'[p].flight \in {"sent", "read"} /\ list'[p].got = {role}
        /\ list[p].got # {} \/ role[p] # "none"
    <3>1. CASE MayRead(p)
      <4>1. list'[p] = [list[p] EXCEPT !.got = {role}] /\ list[p].flight = "sent" /\ role[p] # "none"
        BY <1>2, <3>1 DEF MayRead
      <4> QED BY <1>2, <4>1 DEF Entry
    <3>2. CASE ReadList(p)
      <4>1. list'[p] = Read(list[p], role) /\ (role[p] # "none" \/ list[p].got # {})
        BY <1>2, <3>2 DEF ReadList
      <4> QED BY <1>2, <4>1 DEF Read, Entry
    <3> QED BY <1>9, <3>1, <3>2
  <2>2. Held(p)' /\ Current(p)'
    BY <1>1, <1>2, <1>5, <2>1 DEF Listed, Held, Current
  <2> QED BY <2>1, <2>2 DEF Listed
<1>10. ASSUME ListLands(p) PROVE Listed(p)'
  <2>1. list'[p] = Landed(list[p]) /\ behind' = behind /\ list[p].flight = "read"
    BY <1>2, <1>10 DEF ListLands
  <2>2. list'[p].data = list[p].got /\ list'[p].flight = "none"
    BY <1>2, <2>1 DEF Landed, Entry
  <2>3. Held(p)' /\ (Current(p) => Current(p)')
    BY <1>1, <1>2, <2>1, <2>2 DEF Listed, Held, Current
  <2> QED BY <1>2, <1>3, <2>1, <2>2, <2>3 DEF Listed
<1>11. Listed(p)'
  BY <1>7, <1>8, <1>9, <1>10
<1> QED BY <1>4, <1>6, <1>11 DEF Lists

LEMMA ListsPending ==
  ASSUME TypeOK, Lists, NEW p \in Pages, Cancel(p) \/ \E k \in ConfirmKinds, u \in Users : Ask(p, k, u)
  PROVE  Lists'
<1>1. role' = role /\ list' = list /\ call' = call /\ behind' = behind
  BY TypePending
<1>2. \A d \in Calls : Left(d)'
  BY <1>1 DEF Lists, Left
<1>3. ASSUME NEW q \in Pages PROVE Listed(q)'
  <2>1. pending'[q] # {} => pending[q] # {} \/ list[q].data # {}
    <3>1. DOMAIN pending = Pages
      BY DEF TypeOK
    <3>2. CASE Cancel(p)
      BY <3>1, <3>2 DEF Cancel
    <3>3. ASSUME NEW k \in ConfirmKinds, NEW u \in Users, Ask(p, k, u)
          PROVE  pending'[q] # {} => pending[q] # {} \/ list[q].data # {}
      BY <3>1, <3>3 DEF Ask, IsOffered
    <3> QED BY <3>2, <3>3
  <2>2. Held(q)'
    BY <1>1, <2>1 DEF Lists, Listed, Held, Active
  <2>3. (Current(q)' <=> Current(q)) /\ (Changing(q)' <=> Changing(q))
    BY <1>1 DEF Current, Changing, Active
  <2> QED BY <1>1, <2>2, <2>3 DEF Lists, Listed
<1> QED BY <1>2, <1>3 DEF Lists

-----------------------------------------------------------------------------
(* The theorems.                                                           *)

LEMMA InvStep == Inv /\ [Next]_vars => Inv'
<1> SUFFICES ASSUME Inv, [Next]_vars PROVE Inv'
  OBVIOUS
<1>1. CASE Next
  <2>1. Lists'
    BY <1>1, Steps, ListsServe, ListsEnds, ListsSubmits, ListsLists, ListsPending DEF Inv
  <2> QED BY <1>1, <2>1, TypeStep, AskedStep, AloneStep DEF Inv
<1>2. CASE UNCHANGED vars
  <2>1. TypeOK' /\ Asked' /\ Alone'
    BY <1>2 DEF vars, Inv, TypeOK, Asked, Alone, Known, Transferring, Active, Owners
  <2>2. Lists'
    BY <1>2 DEF vars, Inv, Lists, Listed, Held, Left, Current, Changing, Active
  <2> QED BY <2>1, <2>2 DEF Inv
<1> QED BY <1>1, <1>2

(* The roles, the lists and the requests under way fit together (Inv).    *)
THEOREM Invariance == Spec => []Inv
BY InvInit, InvStep, PTL DEF Spec

(* The roles, the lists of the pages and their requests keep to their      *)
(* types, and a modal stays open while what it asked for is under way.     *)
THEOREM TypeCorrect == Spec => []TypeOK
<1>1. Inv => TypeOK
  BY DEF Inv
<1> QED BY <1>1, Invariance, PTL

(* transfer_ownership, change_role and remove_member leave the workspace   *)
(* with the one owner it is said to have, whatever lists the pages acted   *)
(* on, if they are served one at a time and no transfer stops half-way.    *)
THEOREM OneOwner == Spec => []OneOwnerUnlessTroubled
<1>1. Inv => OneOwnerUnlessTroubled
  <2>1. Quiet => ~Transferring
    BY DEF Quiet, Transferring, Active
  <2> QED BY <2>1 DEF Inv, Alone, OneOwnerUnlessTroubled
<1> QED BY <1>1, Invariance, PTL

LEMMA RolesAreShown == Inv => ListFollowsOwnChanges
<1> SUFFICES ASSUME Inv, NEW p \in Pages, ~behind[p], \A c \in Calls : Active(c) => call[c].by # p,
                    list[p].flight = "none", ~list[p].stale, NEW r \in list[p].data
             PROVE  r = role
  BY DEF ListFollowsOwnChanges
<1>1. ~Changing(p)
  BY DEF Changing
<1> QED BY <1>1 DEF Inv, Lists, Listed, Current

(* After its own changes a page shows the roles as they are: no answer     *)
(* from before them is left on it.                                         *)
THEOREM ListsFollow == Spec => []ListFollowsOwnChanges
BY Invariance, RolesAreShown, PTL

LEMMA OffersAreRights == Inv => OffersMatchRights
<1> SUFFICES ASSUME Inv, NEW p \in Pages, NEW r \in list[p].data, r[p] # "none",
                    NEW o \in Users, {v \in Users : r[v] = "owner"} = {o},
                    NEW mine \in MyRoles(r, p), NEW u \in Users, NEW k \in Kinds, (k = "leave") = (u = p),
                    k # (IF r[u] = "admin" THEN "make admin" ELSE "make member")
             PROVE  k \in Offers(r, mine, p, u) <=> Allowed(k, mine) /\ AllowedOn(k, mine, r[u])
  BY DEF OffersMatchRights
<1>1. r \in RoleMap /\ mine = r[p]
  BY DEF Inv, TypeOK, Entry, Maybe, MyRoles
<1>2. p \in Users /\ r[p] \in {"owner", "admin", "member", "none"} /\ r[u] \in {"owner", "admin", "member", "none"}
  BY <1>1, PagesAssumption DEF RoleMap, Roles
<1>3. r[p] = "owner" /\ r[u] = "owner" => u = p
  BY <1>2
<1> QED BY <1>1, <1>2, <1>3 DEF Offers, ActionsFor, CanRemove, Allowed, AllowedOn, Kinds, RoleKinds, ConfirmKinds

(* By the roles it shows, one's own among them, a page offers exactly what *)
(* the API would accept.                                                   *)
THEOREM OffersMatch == Spec => []OffersMatchRights
BY Invariance, OffersAreRights, PTL

-----------------------------------------------------------------------------
(* What is assumed of the parts' constants, one by one.                    *)
LEMMA Limits ==
  /\ MaxEvents \in Nat /\ Recent \in Nat /\ MaxMoves \in Nat /\ PageSize \in Nat
  /\ Items \in Seq(STRING) /\ "" \in DOMAIN Matches /\ Sizes \in Seq(Nat)
  /\ Questions \in Nat /\ Texts \in Nat /\ InsertAttempts \in Nat /\ MaxDrafted \in Nat
BY PartsAssumption

(* Numbers have a least one.                                               *)
LEMMA Least ==
  ASSUME NEW T, T \subseteq Nat, T # {}
  PROVE  \E x \in T : \A y \in T : x <= y
<1> DEFINE R == {ss \in Nat \X Nat : ss[1] < ss[2]}
<1>1. IsWellFoundedOn(R, Nat)
  BY NatLessThanWellFounded DEF OpToRel
<1> HIDE DEF R
<1>2. PICK x \in T : \A y \in T : ~(<<y, x>> \in R)
  BY <1>1, WFMin, Zenon
<1>3. \A y \in T : ~(y < x)
  BY <1>2 DEF R
<1> QED BY <1>3

(* Counting is the same in every part.                                     *)
LEMMA SameCardinality ==
  ASSUME NEW S
  PROVE  /\ Palette!Cardinality(S) = Cardinality(S) /\ HomeRows!Cardinality(S) = Cardinality(S)
         /\ Events!Cardinality(S) = Cardinality(S)
BY DEF Palette!Cardinality, HomeRows!Cardinality, Events!Cardinality, Cardinality

-----------------------------------------------------------------------------
(* The inbox. A decided request never is pending again, and was shown by a *)
(* pending list, so that deciding drops the answer that is under way; a    *)
(* note is of the request of the panel; and one request at most is found.  *)

Tabs == Inbox!Statuses
Requested == Inbox!Entry(SUBSET Approvals)

(* Lists `l` have what was asked for, and nothing decided but if stale.    *)
Told(l) ==
  /\ \A s \in Tabs : /\ l[s].flight = "read" => l[s].got # {}
                     /\ \A a \in UNION (l[s].data \cup l[s].got) : status[a] # "none"
  /\ \A a \in decided : /\ a \in UNION l["pending"].data => l["pending"].stale
                        /\ a \notin UNION l["pending"].got

Due(r) ==
  /\ status[r.id] # "none" /\ lists["pending"].data # {}
  /\ r.pc = "done" => status[r.id] # "pending"
  /\ r.note \subseteq {r.id}

Asking ==
  /\ \A p \in kept : status[p.id] # "none" /\ (p.status = "pending" => lists["pending"].data # {})
  /\ \A r \in sent : Due(r)
  /\ detail.note \subseteq Inbox!Ids(kept)

InboxInv ==
  /\ Inbox!TypeOK
  /\ Told(lists) /\ Asking
  /\ \A a \in decided : status[a] \notin {"none", "pending"}
  /\ Inbox!LandsOnItsTab

LEMMA InboxStatuses ==
  /\ "pending" \in Tabs /\ "closed" \notin Tabs /\ "none" \notin Tabs
  /\ Tabs \subseteq {"pending", "approved", "rejected", "denied_timeout"}
  /\ Outcomes \subseteq Tabs /\ "pending" \notin Outcomes
BY PartsAssumption DEF Tabs, Inbox!Statuses

LEMMA OneIsFound ==
  ASSUME NEW l, NEW sel \in Inbox!Maybe(Approvals),
         NEW p \in Inbox!Found(l, sel), NEW q \in Inbox!Found(l, sel)
  PROVE  p = q
<1>1. p \in Inbox!Item /\ q \in Inbox!Item /\ p.id \in sel /\ q.id \in sel
  BY DEF Inbox!Found
<1>2. p.id = q.id
  BY <1>1 DEF Inbox!Maybe
<1>3. p.status \in Tabs /\ q.status \in Tabs
  BY <1>1 DEF Inbox!Item, Tabs
<1>4. Inbox!Rank[p.status] <= Inbox!Rank[q.status] /\ Inbox!Rank[q.status] <= Inbox!Rank[p.status]
  BY <1>2, <1>3 DEF Inbox!Found, Tabs
<1>5. p.status = q.status
  <2>1. /\ Inbox!Rank["pending"] = 1 /\ Inbox!Rank["approved"] = 2
        /\ Inbox!Rank["rejected"] = 3 /\ Inbox!Rank["denied_timeout"] = 4
    BY DEF Inbox!Rank
  <2> DEFINE Four == {"pending", "approved", "rejected", "denied_timeout"}
  <2>2. p.status \in Four /\ q.status \in Four
    BY <1>3, InboxStatuses
  <2>3. \A s, t \in Four : Inbox!Rank[s] <= Inbox!Rank[t] /\ Inbox!Rank[t] <= Inbox!Rank[s] => s = t
    BY <2>1
  <2> QED BY <1>4, <2>2, <2>3
<1> QED BY <1>1, <1>2, <1>5 DEF Inbox!Item

LEMMA InboxAnswers ==
  ASSUME NEW e \in Requested
  PROVE  /\ Inbox!Landed(e) \in Requested
         /\ Inbox!Landed(e).data = e.got /\ Inbox!Landed(e).got = {} /\ Inbox!Landed(e).flight = "none"
         /\ Inbox!Failed(e) \in Requested
         /\ Inbox!Failed(e).data = e.data /\ Inbox!Failed(e).got = {} /\ Inbox!Failed(e).flight = "none"
         /\ Inbox!Failed(e).stale = e.stale
<1>1. {} \in Inbox!Maybe(SUBSET Approvals)
  BY DEF Inbox!Maybe
<1> QED BY <1>1 DEF Requested, Inbox!Entry, Inbox!Landed, Inbox!Failed

LEMMA InboxRequests ==
  ASSUME NEW e \in Requested, NEW late
  PROVE  /\ Inbox!Send(e) \in Requested
         /\ Inbox!Send(e).data = e.data /\ Inbox!Send(e).got = {} /\ Inbox!Send(e).stale = e.stale
         /\ Inbox!Send(e).flight = "sent"
         /\ Inbox!Mount(e, late) \in {e, Inbox!Send(e)}
<1>1. {} \in Inbox!Maybe(SUBSET Approvals)
  BY DEF Inbox!Maybe
<1> QED BY <1>1 DEF Requested, Inbox!Entry, Inbox!Mount, Inbox!Fetch, Inbox!Send

LEMMA InboxInvalidates ==
  ASSUME NEW e \in Requested, NEW shows \in BOOLEAN
  PROVE  /\ Inbox!Invalidate(e, shows) \in Requested
         /\ Inbox!Invalidate(e, shows).data = e.data /\ Inbox!Invalidate(e, shows).stale
         /\ \/ Inbox!Invalidate(e, shows).got = e.got /\ Inbox!Invalidate(e, shows).flight = e.flight
            \/ Inbox!Invalidate(e, shows).got = {} /\ Inbox!Invalidate(e, shows).flight = "sent"
         /\ shows /\ e.data # {} => Inbox!Invalidate(e, shows).got = {}
<1>1. {} \in Inbox!Maybe(SUBSET Approvals)
  BY DEF Inbox!Maybe
<1> QED BY <1>1 DEF Requested, Inbox!Entry, Inbox!Invalidate, Inbox!Send

LEMMA InboxReads ==
  ASSUME NEW e \in Requested, NEW a \in SUBSET Approvals
  PROVE  /\ Inbox!Read(e, a) \in Requested
         /\ Inbox!Read(e, a).data = e.data /\ Inbox!Read(e, a).got = {a} /\ Inbox!Read(e, a).stale = e.stale
<1>1. {a} \in Inbox!Maybe(SUBSET Approvals)
  BY DEF Inbox!Maybe
<1> QED BY <1>1 DEF Requested, Inbox!Entry, Inbox!Read

LEMMA InboxInit == Inbox!Init => InboxInv
<1> SUFFICES ASSUME Inbox!Init PROVE InboxInv
  OBVIOUS
<1>1. {} \in Inbox!Maybe(SUBSET Approvals) /\ {} \in Inbox!Maybe(Approvals) /\ {} \in Inbox!Maybe(Inbox!Item)
  BY DEF Inbox!Maybe
<1>2. /\ Inbox!NoEntry \in Requested
      /\ Inbox!NoEntry.data = {} /\ Inbox!NoEntry.got = {} /\ Inbox!NoEntry.flight = "none"
  BY <1>1 DEF Inbox!NoEntry, Requested, Inbox!Entry
<1>3. /\ Inbox!Send(Inbox!NoEntry) \in Requested /\ Inbox!Send(Inbox!NoEntry).data = {}
      /\ Inbox!Send(Inbox!NoEntry).got = {} /\ Inbox!Send(Inbox!NoEntry).flight = "sent"
  BY <1>2, InboxRequests
<1>4. lists \in [Tabs -> Requested]
  BY <1>2, <1>3 DEF Inbox!Init, Tabs
<1>5. \A s \in Tabs : lists[s].data = {} /\ lists[s].got = {} /\ lists[s].flight # "read"
  BY <1>2, <1>3 DEF Inbox!Init, Tabs
<1>6. Told(lists)
  BY <1>5 DEF Inbox!Init, Told
<1>7. Asking
  BY DEF Inbox!Init, Asking, Inbox!Blank
<1>8. Inbox!TypeOK
  BY <1>1, <1>4 DEF Inbox!Init, Inbox!TypeOK, Requested, Tabs, Inbox!Blank, Inbox!Detail
<1> QED BY <1>6, <1>7, <1>8 DEF InboxInv, Inbox!Init, Inbox!LandsOnItsTab

LEMMA InboxStep == InboxInv /\ [Inbox!Next]_inboxVars => InboxInv'
<1> SUFFICES ASSUME InboxInv, [Inbox!Next]_inboxVars PROVE InboxInv'
  OBVIOUS
<1>1. /\ status \in [Approvals -> {"none"} \cup Tabs]
      /\ lists \in [Tabs -> Requested]
      /\ tab \in {"closed"} \cup Tabs
      /\ selected \in Inbox!Maybe(Approvals)
      /\ moved \in BOOLEAN
      /\ kept \in Inbox!Maybe(Inbox!Item)
      /\ detail \in Inbox!Detail
      /\ sent \subseteq Inbox!Sent
      /\ decided \subseteq Approvals
      /\ detail.busy => \E r \in sent : r.mine /\ kept # {} /\ \A p \in kept : r.id = p.id
      /\ Told(lists) /\ Asking
      /\ \A a \in decided : status[a] \notin {"none", "pending"}
      /\ Inbox!LandsOnItsTab
  BY DEF InboxInv, Inbox!TypeOK, Tabs, Requested
<1>2. {} \in Inbox!Maybe(Approvals) /\ {} \in Inbox!Maybe(Inbox!Item) /\ Inbox!Blank \in Inbox!Detail
  BY DEF Inbox!Maybe, Inbox!Blank, Inbox!Detail
(* A panel of another request, or none, starts afresh.                     *)
<1>3. ASSUME NEW panel \in Inbox!Maybe(Inbox!Item), Inbox!Remount(panel), kept' = panel,
             UNCHANGED status, lists'["pending"].data = {} => lists["pending"].data = {},
             \A p \in panel : status[p.id] # "none" /\ (p.status = "pending" => lists'["pending"].data # {})
      PROVE  /\ detail' \in Inbox!Detail /\ sent' \subseteq Inbox!Sent
             /\ detail'.busy => \E r \in sent' : r.mine /\ kept' # {} /\ \A p \in kept' : r.id = p.id
             /\ Asking'
  <2>1. CASE Inbox!Ids(panel) = Inbox!Ids(kept)
    <3>1. UNCHANGED <<detail, sent>>
      BY <1>3, <2>1 DEF Inbox!Remount
    <3>2. Inbox!Ids(kept)' = Inbox!Ids(kept)
      BY <1>3, <2>1 DEF Inbox!Ids
    <3>3. Asking'
      <4>1. \A r \in sent : Due(r)
        BY <1>1 DEF Asking
      <4>2. detail.note \subseteq Inbox!Ids(kept)
        BY <1>1 DEF Asking
      <4>3. \A r \in sent' : Due(r)'
        BY <1>3, <3>1, <4>1 DEF Due
      <4>4. \A p \in kept' : status'[p.id] # "none" /\ (p.status = "pending" => lists'["pending"].data # {})
        BY <1>3
      <4> QED BY <3>1, <3>2, <4>2, <4>3, <4>4 DEF Asking
    <3>4. ASSUME detail'.busy
          PROVE  \E r \in sent' : r.mine /\ kept' # {} /\ \A p \in kept' : r.id = p.id
      <4>1. PICK r \in sent : r.mine /\ kept # {} /\ \A p \in kept : r.id = p.id
        BY <1>1, <3>1, <3>4
      <4>2. kept' # {} /\ \A p \in kept' : r.id = p.id
        BY <1>3, <2>1, <4>1 DEF Inbox!Ids
      <4> QED BY <3>1, <4>1, <4>2
    <3> QED BY <1>1, <3>1, <3>3, <3>4
  <2>2. CASE Inbox!Ids(panel) # Inbox!Ids(kept)
    <3>1. detail' = Inbox!Blank /\ sent' = {[r EXCEPT !.mine = FALSE] : r \in sent}
      BY <1>3, <2>2 DEF Inbox!Remount
    <3>2. ASSUME NEW r \in sent
          PROVE  LET o == [r EXCEPT !.mine = FALSE] IN o \in Inbox!Sent /\ o.id = r.id /\ o.pc = r.pc /\ o.note = r.note
      <4>1. r \in Inbox!Sent
        BY <1>1
      <4> QED BY <4>1 DEF Inbox!Sent
    <3>3. sent' \subseteq Inbox!Sent /\ \A r \in sent' : \E o \in sent : r.id = o.id /\ r.pc = o.pc /\ r.note = o.note
      BY <3>1, <3>2
    <3>4. \A r \in sent' : Due(r)'
      BY <1>1, <1>3, <3>3 DEF Asking, Due
    <3>5. Asking'
      BY <1>3, <3>1, <3>4 DEF Asking, Inbox!Blank
    <3> QED BY <1>2, <3>1, <3>3, <3>5 DEF Inbox!Blank
  <2> QED BY <2>1, <2>2
(* Rendering keeps to what was found.                                      *)
<1>4. ASSUME NEW l \in [Tabs -> Requested], NEW t \in Tabs, NEW sel \in Inbox!Maybe(Approvals),
             Inbox!Render(l, t, sel), UNCHANGED <<status, decided>>, Told(l),
             l["pending"].data = {} => lists["pending"].data = {},
             t = tab \/ sel = {} \/ tab = "closed"
      PROVE  InboxInv'
  <2> DEFINE found == Inbox!Found(l, sel)
             before == IF tab = "closed" THEN {} ELSE Inbox!Found(lists, selected)
             next == Inbox!TabAfter(found, before, t)
             show == {p \in found : p.status = next}
             panel == IF show # {} THEN show ELSE kept
  <2>1. /\ lists' = l /\ tab' = next /\ selected' = sel /\ kept' = panel /\ Inbox!Remount(panel)
        /\ moved' = (found # {} /\ Inbox!Ids(found) = Inbox!Ids(before) /\ (moved \/ found # before))
    BY <1>4 DEF Inbox!Render
  <2>2. /\ found \subseteq Inbox!Item /\ \A p, q \in found : p = q
        /\ \A p \in found : p.status \in Tabs /\ p.id \in UNION l[p.status].data /\ p.id \in sel
    <3>1. found \subseteq Inbox!Item /\ \A p \in found : p.id \in UNION l[p.status].data /\ p.id \in sel
      BY DEF Inbox!Found, Inbox!Listed
    <3>2. \A p, q \in found : p = q
      BY OneIsFound
    <3> QED BY <3>1, <3>2 DEF Inbox!Item, Tabs
  <2>3. before # {} => tab # "closed" /\ before = Inbox!Found(lists, selected)
    OBVIOUS
  <2> HIDE DEF found, before
  <2>4. next \in Tabs /\ (found # {} /\ Inbox!Ids(found) # Inbox!Ids(before) => \A p \in found : p.status = next)
    <3>1. CASE found # {} /\ Inbox!Ids(found) # Inbox!Ids(before)
      <4>1. next = CHOOSE s \in Tabs : \E p \in found : p.status = s
        BY <3>1 DEF Inbox!TabAfter, Tabs
      <4>2. \E s \in Tabs : \E p \in found : p.status = s
        BY <2>2, <3>1
      <4>3. next \in Tabs /\ \E p \in found : p.status = next
        BY <4>1, <4>2
      <4> QED BY <2>2, <4>3
    <3>2. CASE ~(found # {} /\ Inbox!Ids(found) # Inbox!Ids(before))
      BY <3>2 DEF Inbox!TabAfter
    <3> QED BY <3>1, <3>2
  <2>5. (tab # "closed" /\ ~moved => \A p \in Inbox!Found(lists, selected) : p.status = tab)'
    <3> SUFFICES ASSUME ~moved', NEW p \in found PROVE p.status = next
      BY <2>1 DEF found
    <3>1. CASE Inbox!Ids(found) # Inbox!Ids(before)
      BY <2>4, <3>1
    <3>2. CASE Inbox!Ids(found) = Inbox!Ids(before)
      <4>1. ~moved /\ found = before /\ next = t
        BY <2>1, <3>2 DEF Inbox!TabAfter
      <4>2. tab # "closed" /\ p \in Inbox!Found(lists, selected) /\ p.id \in sel
        BY <2>2, <2>3, <4>1
      <4>3. p.status = tab /\ t = tab
        BY <1>1, <1>4, <4>1, <4>2 DEF Inbox!LandsOnItsTab
      <4> QED BY <4>1, <4>3
    <3> QED BY <3>1, <3>2
  <2>6. panel \in Inbox!Maybe(Inbox!Item)
    BY <1>1, <2>2 DEF Inbox!Maybe
  <2>7. \A p \in panel : status[p.id] # "none" /\ (p.status = "pending" => l["pending"].data # {})
    <3>1. \A p \in found : status[p.id] # "none" /\ (p.status = "pending" => l["pending"].data # {})
      BY <1>4, <2>2 DEF Told
    <3>2. \A p \in kept : status[p.id] # "none" /\ (p.status = "pending" => l["pending"].data # {})
      BY <1>1, <1>4 DEF Asking
    <3> QED BY <3>1, <3>2
  <2> HIDE DEF panel, next
  <2>8. /\ detail' \in Inbox!Detail /\ sent' \subseteq Inbox!Sent
        /\ detail'.busy => \E r \in sent' : r.mine /\ kept' # {} /\ \A p \in kept' : r.id = p.id
        /\ Asking'
    BY <1>3, <1>4, <2>1, <2>6, <2>7
  <2>9. Inbox!TypeOK'
    BY <1>1, <1>4, <2>1, <2>4, <2>6, <2>8 DEF Inbox!TypeOK, Tabs, Requested
  <2>10. Told(lists)'
    BY <1>4, <2>1 DEF Told
  <2> QED BY <1>1, <1>4, <2>5, <2>8, <2>9, <2>10 DEF InboxInv, Inbox!LandsOnItsTab
(* Nothing is rendered when the answers stay.                              *)
<1>5. ASSUME lists' \in [Tabs -> Requested], lists'["pending"].data = {} => lists["pending"].data = {},
             tab = "closed" \/ \A s \in Tabs : lists'[s].data = lists[s].data,
             status' \in [Approvals -> {"none"} \cup Tabs],
             \A a \in Approvals : /\ status'[a] = "none" => status[a] = "none"
                                  /\ status'[a] = "pending" => status[a] \in {"none", "pending"},
             decided' \subseteq Approvals, \A a \in decided' : status'[a] \notin {"none", "pending"},
             UNCHANGED <<tab, selected, moved, kept>>, detail' \in Inbox!Detail, sent' \subseteq Inbox!Sent,
             detail'.busy => \E r \in sent' : r.mine /\ kept # {} /\ \A p \in kept : r.id = p.id,
             detail'.note \subseteq Inbox!Ids(kept),
             \A r \in sent' : Due(r)',
             Told(lists)'
      PROVE  InboxInv'
  <2>1. Inbox!TypeOK'
    BY <1>1, <1>5 DEF Inbox!TypeOK, Tabs, Requested
  <2>2. Asking'
    <3>1. \A p \in kept : p.id \in Approvals
      BY <1>1 DEF Inbox!Maybe, Inbox!Item
    <3>2. \A p \in kept' : status'[p.id] # "none" /\ (p.status = "pending" => lists'["pending"].data # {})
      BY <1>1, <1>5, <3>1, InboxStatuses DEF Asking
    <3>3. Inbox!Ids(kept)' = Inbox!Ids(kept)
      BY <1>5 DEF Inbox!Ids
    <3> QED BY <1>5, <3>2, <3>3, InboxStatuses DEF Asking
  <2>3. tab # "closed" => Inbox!Found(lists, selected)' = Inbox!Found(lists, selected)
    <3> SUFFICES ASSUME tab # "closed" PROVE Inbox!Found(lists, selected)' = Inbox!Found(lists, selected)
      OBVIOUS
    <3>1. \A s \in Tabs : Inbox!Listed(lists', s) = Inbox!Listed(lists, s)
      BY <1>5 DEF Inbox!Listed
    <3>2. \A p \in Inbox!Item : p.status \in Tabs
      BY DEF Inbox!Item, Tabs
    <3>3. Inbox!Found(lists', selected) = Inbox!Found(lists, selected)
      BY <3>1, <3>2 DEF Inbox!Found, Tabs
    <3> QED BY <1>5, <3>3
  <2>4. Inbox!LandsOnItsTab'
    BY <1>1, <1>5, <2>3 DEF Inbox!LandsOnItsTab
  <2> QED BY <1>5, <2>1, <2>2, <2>4 DEF InboxInv
<1>6. /\ \A r \in sent : Due(r)
      /\ detail.note \subseteq Inbox!Ids(kept)
      /\ \A p \in kept : status[p.id] # "none" /\ (p.status = "pending" => lists["pending"].data # {})
  BY <1>1 DEF Asking
<1>7. ASSUME NEW l, \A s \in Tabs : /\ l[s].data = lists[s].data /\ l[s].got \subseteq lists[s].got
                                    /\ l[s].flight = "read" => l[s].got # {}
                                    /\ lists[s].stale => l[s].stale
      PROVE  Told(l)
  <2>1. Told(lists) /\ "pending" \in Tabs
    BY <1>1, InboxStatuses
  <2> QED BY <1>7, <2>1 DEF Told
<1>8. \A s \in Tabs : lists[s].flight = "read" => lists[s].got # {}
  BY <1>1 DEF Told
<1>9. CASE \E sel \in Inbox!Maybe(Approvals), aged \in BOOLEAN : Inbox!OpenPage(sel, aged)
  <2>1. PICK sel \in Inbox!Maybe(Approvals), late \in BOOLEAN : Inbox!OpenPage(sel, late)
    BY <1>9
  <2> DEFINE l == [s \in Tabs |-> Inbox!Mount(lists[s], late)]
  <2>2. ASSUME NEW s \in Tabs
        PROVE  /\ l[s] \in Requested /\ l[s].data = lists[s].data /\ l[s].got \subseteq lists[s].got
               /\ l[s].flight = "read" => l[s].got # {}
               /\ lists[s].stale => l[s].stale
    <3>1. lists[s] \in Requested /\ l[s] = Inbox!Mount(lists[s], late)
      BY <1>1
    <3> QED BY <1>8, <3>1, InboxRequests
  <2>3. l \in [Tabs -> Requested]
    BY <2>2
  <2>4. Inbox!Render(l, "pending", sel) /\ tab = "closed" /\ UNCHANGED <<status, decided>>
    BY <2>1 DEF Inbox!OpenPage, Tabs
  <2> HIDE DEF l
  <2> QED BY <1>4, <1>7, <2>2, <2>3, <2>4, InboxStatuses
<1>10. CASE Inbox!ClosePage \/ Inbox!PanelExits
  <2>1. /\ Inbox!Remount({}) /\ kept' = {} /\ UNCHANGED <<status, lists, decided>>
        /\ \/ tab' = "closed" /\ selected' = {} /\ moved' = FALSE
           \/ UNCHANGED <<tab, selected, moved>>
    BY <1>10 DEF Inbox!ClosePage, Inbox!PanelExits
  <2>2. /\ detail' \in Inbox!Detail /\ sent' \subseteq Inbox!Sent
        /\ detail'.busy => \E r \in sent' : r.mine /\ kept' # {} /\ \A p \in kept' : r.id = p.id
        /\ Asking'
    BY <1>2, <1>3, <2>1
  <2>3. Inbox!TypeOK'
    BY <1>1, <1>2, <2>1, <2>2 DEF Inbox!TypeOK, Tabs, Requested
  <2>4. Inbox!LandsOnItsTab'
    <3>1. CASE tab' = "closed"
      BY <3>1 DEF Inbox!LandsOnItsTab
    <3>2. CASE UNCHANGED <<tab, selected, moved>>
      <4>1. Inbox!Found(lists, selected)' = Inbox!Found(lists, selected)
        BY <2>1, <3>2 DEF Inbox!Found, Inbox!Listed
      <4> QED BY <1>1, <3>2, <4>1 DEF Inbox!LandsOnItsTab
    <3> QED BY <2>1, <3>1, <3>2
  <2>5. Told(lists)'
    BY <1>1, <2>1 DEF Told
  <2> QED BY <1>1, <2>1, <2>2, <2>3, <2>4, <2>5 DEF InboxInv
<1>11. CASE (\E t \in Tabs : Inbox!ChangeTab(t)) \/ (\E a \in Approvals : Inbox!ClickRow(a)) \/ Inbox!ClosePanel
  <2>1. PICK t \in Tabs, sel \in Inbox!Maybe(Approvals) :
          Inbox!Render(lists, t, sel) /\ UNCHANGED <<status, decided>> /\ (t = tab \/ sel = {})
    <3>1. \A a \in Approvals : {a} \in Inbox!Maybe(Approvals)
      BY DEF Inbox!Maybe
    <3>2. CASE \E t \in Tabs : Inbox!ChangeTab(t)
      BY <1>2, <3>2 DEF Inbox!ChangeTab
    <3>3. CASE \E a \in Approvals : Inbox!ClickRow(a)
      BY <1>1, <1>2, <3>1, <3>3 DEF Inbox!ClickRow
    <3>4. CASE Inbox!ClosePanel
      BY <1>1, <1>2, <3>4 DEF Inbox!ClosePanel
    <3> QED BY <1>11, <3>2, <3>3, <3>4
  <2> QED BY <1>1, <1>4, <2>1
<1>12. CASE \E p \in Inbox!Item : Inbox!TypeNote(p)
  <2>1. PICK p \in Inbox!Item : Inbox!TypeNote(p)
    BY <1>12
  <2>2. p \in kept /\ p.id \in Approvals /\ p.id \in Inbox!Ids(kept)
    BY <2>1 DEF Inbox!TypeNote, Inbox!PanelIsPending, Inbox!Item, Inbox!Ids
  <2>3. {p.id} \in Inbox!Maybe(Approvals)
    BY <2>2 DEF Inbox!Maybe
  <2>4. detail' \in Inbox!Detail /\ detail'.note = {p.id} /\ detail'.busy = detail.busy
    BY <1>1, <2>1, <2>3 DEF Inbox!TypeNote, Inbox!Detail
  <2>5. UNCHANGED <<status, lists, tab, selected, moved, kept, sent, decided>>
    BY <2>1 DEF Inbox!TypeNote
  <2>6. Told(lists)' /\ \A r \in sent' : Due(r)'
    BY <1>1, <1>6, <2>5 DEF Told, Due
  <2> QED BY <1>1, <1>5, <2>2, <2>4, <2>5, <2>6
<1>13. CASE \E p \in Inbox!Item, d \in Inbox!Decisions : Inbox!Decide(p, d)
  <2>1. PICK p \in Inbox!Item, d \in Inbox!Decisions : Inbox!Decide(p, d)
    BY <1>13
  <2>2. PICK r :
        /\ r = [id |-> p.id, decision |-> d, note |-> detail.note, pc |-> "sent", mine |-> TRUE]
        /\ p \in kept /\ p.status = "pending" /\ p.id \in Approvals
        /\ sent' = sent \cup {r} /\ detail' = [detail EXCEPT !.busy = TRUE]
        /\ UNCHANGED <<status, lists, tab, selected, moved, kept, decided>>
    BY <2>1 DEF Inbox!Decide, Inbox!PanelIsPending, Inbox!Item
  <2>3. detail' \in Inbox!Detail /\ detail'.note = detail.note /\ detail.note \in Inbox!Maybe(Approvals)
    BY <1>1, <2>2 DEF Inbox!Detail
  <2>4. r \in Inbox!Sent
    BY <2>2, <2>3 DEF Inbox!Sent
  <2>5. \A q \in kept : q = p
    BY <1>1, <2>2 DEF Inbox!Maybe
  <2>6. detail.note \subseteq {p.id}
    BY <1>6, <2>5 DEF Inbox!Ids
  <2>7. Due(r)'
    BY <1>6, <2>2, <2>6 DEF Due
  <2>8. r.mine /\ kept # {} /\ \A q \in kept : r.id = q.id
    BY <2>2, <2>5
  <2>9. \A o \in sent' : Due(o)'
    <3>1. \A o \in sent : Due(o)'
      BY <1>6, <2>2 DEF Due
    <3> QED BY <2>2, <2>7, <3>1
  <2>10. Told(lists)'
    BY <1>1, <2>2 DEF Told
  <2> QED BY <1>1, <1>5, <1>6, <2>2, <2>3, <2>4, <2>8, <2>9, <2>10
(* What the API reads is as the requests are, and lands as it was read.    *)
<1>14. CASE \E s \in Tabs : Inbox!ReadList(s)
  <2>1. PICK s \in Tabs : Inbox!ReadList(s)
    BY <1>14
  <2> DEFINE a == {b \in Approvals : status[b] = s}
             e == Inbox!Read(lists[s], a)
  <2>2. e \in Requested /\ e.data = lists[s].data /\ e.got = {a} /\ e.stale = lists[s].stale
    <3>1. lists[s] \in Requested
      BY <1>1
    <3> QED BY <3>1, InboxReads
  <2>3. /\ lists' = [lists EXCEPT ![s] = e]
        /\ UNCHANGED <<status, tab, selected, moved, kept, detail, sent, decided>>
    BY <2>1 DEF Inbox!ReadList
  <2>4. \A b \in a : status[b] = s
    OBVIOUS
  <2> HIDE DEF e, a
  <2>5. lists' \in [Tabs -> Requested] /\ \A t \in Tabs : lists'[t] = IF t = s THEN e ELSE lists[t]
    BY <1>1, <2>2, <2>3
  <2>6. \A t \in Tabs : lists'[t].data = lists[t].data /\ lists'[t].stale = lists[t].stale
    BY <2>2, <2>5
  <2>7. Told(lists)'
    <3>1. \A t \in Tabs : /\ lists'[t].flight = "read" => lists'[t].got # {}
                          /\ \A b \in UNION (lists'[t].data \cup lists'[t].got) : status[b] # "none"
      <4>1. \A t \in Tabs : \A b \in UNION (lists[t].data \cup lists[t].got) : status[b] # "none"
        BY <1>1 DEF Told
      <4> QED BY <1>8, <2>1, <2>2, <2>4, <2>5, <4>1, InboxStatuses
    <3>2. ASSUME NEW b \in decided
          PROVE  /\ b \in UNION lists'["pending"].data => lists'["pending"].stale
                 /\ b \notin UNION lists'["pending"].got
      <4>1. /\ b \in UNION lists["pending"].data => lists["pending"].stale
            /\ b \notin UNION lists["pending"].got /\ status[b] # "pending"
        BY <1>1 DEF Told
      <4> QED BY <2>2, <2>4, <2>5, <2>6, <4>1, InboxStatuses
    <3> QED BY <2>3, <3>1, <3>2 DEF Told
  <2>8. \A r \in sent' : Due(r)'
    BY <1>6, <2>3, <2>6, InboxStatuses DEF Due
  <2> QED BY <1>1, <1>5, <1>6, <2>3, <2>5, <2>6, <2>7, <2>8, InboxStatuses
<1>15. CASE \E s \in Tabs : Inbox!ListLands(s)
  <2>1. PICK s \in Tabs : Inbox!ListLands(s)
    BY <1>15
  <2> DEFINE e == Inbox!Landed(lists[s])
             l == [lists EXCEPT ![s] = e]
  <2>2. e \in Requested /\ e.data = lists[s].got /\ e.got = {} /\ e.flight = "none"
    <3>1. lists[s] \in Requested
      BY <1>1
    <3> QED BY <3>1, InboxAnswers
  <2>3. lists[s].got # {}
    BY <1>8, <2>1 DEF Inbox!ListLands
  <2> HIDE DEF e
  <2>4. l \in [Tabs -> Requested] /\ \A t \in Tabs : l[t] = IF t = s THEN e ELSE lists[t]
    BY <1>1, <2>2
  <2>5. Inbox!Lists(l) /\ UNCHANGED <<status, decided>>
    BY <2>1 DEF Inbox!ListLands, e
  <2> HIDE DEF l
  <2>6. l["pending"].data = {} => lists["pending"].data = {}
    BY <2>2, <2>3, <2>4, InboxStatuses
  <2>7. Told(l)
    <3>1. Told(lists)
      BY <1>1
    <3>2. \A t \in Tabs : /\ l[t].flight = "read" => l[t].got # {}
                          /\ \A b \in UNION (l[t].data \cup l[t].got) : status[b] # "none"
      BY <2>2, <2>4, <3>1 DEF Told
    <3>3. ASSUME NEW b \in decided
          PROVE  /\ b \in UNION l["pending"].data => l["pending"].stale
                 /\ b \notin UNION l["pending"].got
      BY <2>2, <2>4, <3>1, InboxStatuses DEF Told
    <3> QED BY <3>2, <3>3 DEF Told
  <2>8. CASE tab = "closed"
    <3>1. lists' = l /\ UNCHANGED <<status, decided, tab, selected, moved, kept, detail, sent>>
      BY <2>5, <2>8 DEF Inbox!Lists
    <3>2. Told(lists)'
      BY <2>7, <3>1 DEF Told
    <3>3. \A r \in sent' : Due(r)'
      BY <1>6, <2>6, <3>1 DEF Due
    <3> QED BY <1>1, <1>5, <1>6, <2>4, <2>6, <2>8, <3>1, <3>2, <3>3
  <2>9. CASE tab # "closed"
    <3>1. Inbox!Render(l, tab, selected) /\ tab \in Tabs
      BY <1>1, <2>5, <2>9 DEF Inbox!Lists
    <3> QED BY <1>1, <1>4, <2>4, <2>5, <2>6, <2>7, <3>1
  <2> QED BY <2>8, <2>9
<1>16. ASSUME NEW l \in [Tabs -> Requested], lists' = l,
              \A s \in Tabs : /\ l[s].data = lists[s].data /\ l[s].got \subseteq lists[s].got
                              /\ l[s].flight = "read" => l[s].got # {}
                              /\ lists[s].stale => l[s].stale,
              UNCHANGED <<status, tab, selected, moved, kept, detail, sent, decided>>
       PROVE  InboxInv'
  <2>1. Told(lists)'
    BY <1>7, <1>16 DEF Told
  <2>2. \A r \in sent' : Due(r)'
    BY <1>6, <1>16, InboxStatuses DEF Due
  <2> QED BY <1>1, <1>5, <1>6, <1>16, <2>1, <2>2, InboxStatuses
<1>17. CASE (\E s \in Tabs : Inbox!ListFails(s)) \/ Inbox!Poll
  <2>1. PICK s \in Tabs : \/ lists' = [lists EXCEPT ![s] = Inbox!Failed(lists[s])]
                          \/ lists' = [lists EXCEPT ![s] = Inbox!Send(lists[s])]
    BY <1>17, InboxStatuses DEF Inbox!ListFails, Inbox!Poll
  <2>2. lists[s] \in Requested
    BY <1>1
  <2>3. PICK e \in Requested : /\ lists' = [lists EXCEPT ![s] = e]
                               /\ e.data = lists[s].data /\ e.got = {} /\ e.flight # "read" /\ e.stale = lists[s].stale
    BY <2>1, <2>2, InboxAnswers, InboxRequests
  <2>4. lists' \in [Tabs -> Requested] /\ \A t \in Tabs : lists'[t] = IF t = s THEN e ELSE lists[t]
    BY <1>1, <2>3
  <2>5. UNCHANGED <<status, tab, selected, moved, kept, detail, sent, decided>>
    BY <1>17 DEF Inbox!ListFails, Inbox!Poll
  <2> QED BY <1>8, <1>16, <2>3, <2>4, <2>5
<1>18. CASE UNCHANGED inboxVars
  BY <1>1, <1>8, <1>16, <1>18 DEF inboxVars
(* A decision ends its request; what it is answered with is settled.       *)
<1>19. CASE \E r \in sent : Inbox!ServeDecision(r)
  <2>1. PICK r \in sent : Inbox!ServeDecision(r)
    BY <1>19
  <2> DEFINE o == [r EXCEPT !.pc = "done"]
  <2>2. r \in Inbox!Sent /\ Due(r)
    BY <1>1, <1>6
  <2>3. /\ o \in Inbox!Sent /\ o.id = r.id /\ o.mine = r.mine /\ o.note = r.note
        /\ r.decision \in Outcomes /\ r.id \in Approvals
    BY <2>2 DEF Inbox!Sent, Inbox!Decisions
  <2> HIDE DEF o
  <2>4. /\ status' = IF status[r.id] = "pending" THEN [status EXCEPT ![r.id] = r.decision] ELSE status
        /\ sent' = (sent \ {r}) \cup {o}
        /\ UNCHANGED <<lists, tab, selected, moved, kept, detail, decided>>
    BY <2>1 DEF Inbox!ServeDecision, o
  <2>5. r.decision \in Tabs /\ r.decision \notin {"none", "pending"}
    BY <2>3, InboxStatuses
  <2>6. /\ status' \in [Approvals -> {"none"} \cup Tabs] /\ status'[r.id] # "pending"
        /\ \A a \in Approvals : /\ status'[a] = "none" => status[a] = "none"
                                /\ status'[a] = "pending" => status[a] = "pending"
    BY <1>1, <2>3, <2>4, <2>5
  <2>7. \A c \in sent' : Due(c)'
    <3>1. Due(o)'
      BY <2>2, <2>3, <2>4, <2>6 DEF Due
    <3>2. \A c \in sent : c.id \in Approvals /\ Due(c)
      BY <1>1, <1>6 DEF Inbox!Sent
    <3>3. \A c \in sent : Due(c)'
      BY <2>4, <2>6, <3>2 DEF Due
    <3> QED BY <2>4, <3>1, <3>3
  <2>8. detail'.busy => \E c \in sent' : c.mine /\ kept # {} /\ \A p \in kept : c.id = p.id
    BY <1>1, <2>3, <2>4
  <2>9. Told(lists)'
    <3>1. \A s \in Tabs : /\ lists[s].flight = "read" => lists[s].got # {}
                          /\ \A a \in UNION (lists[s].data \cup lists[s].got) : status[a] # "none"
      BY <1>1 DEF Told
    <3>2. \A s \in Tabs : \A a \in UNION (lists[s].data \cup lists[s].got) : a \in Approvals
      BY <1>1 DEF Requested, Inbox!Entry, Inbox!Maybe
    <3>3. \A s \in Tabs : \A a \in UNION (lists[s].data \cup lists[s].got) : status'[a] # "none"
      BY <2>6, <3>1, <3>2
    <3>4. \A a \in decided : /\ a \in UNION lists["pending"].data => lists["pending"].stale
                             /\ a \notin UNION lists["pending"].got
      BY <1>1 DEF Told
    <3> QED BY <2>4, <3>1, <3>3, <3>4 DEF Told
  <2>10. sent' \subseteq Inbox!Sent /\ \A a \in decided' : status'[a] \notin {"none", "pending"}
    BY <1>1, <2>3, <2>4, <2>6
  <2> QED BY <1>1, <1>5, <1>6, <2>4, <2>6, <2>7, <2>8, <2>9, <2>10
<1>20. CASE \E r \in sent : Inbox!DecisionLands(r) \/ Inbox!DecisionLost(r)
  <2>1. PICK r \in sent : Inbox!DecisionLands(r) \/ Inbox!DecisionLost(r)
    BY <1>20
  <2>2. /\ sent' = sent \ {r} /\ detail' = IF r.mine THEN [detail EXCEPT !.busy = FALSE] ELSE detail
        /\ lists' = [s \in Tabs |-> Inbox!Invalidate(lists[s], s = "pending" \/ tab # "closed")]
        /\ UNCHANGED <<status, tab, selected, moved, kept>>
        /\ decided' = decided \/ (r.pc = "done" /\ decided' = decided \cup {r.id})
    BY <2>1 DEF Inbox!DecisionLands, Inbox!DecisionLost, Inbox!Settle, Inbox!Refetched, Inbox!OnScreen, Tabs
  <2>3. ASSUME NEW s \in Tabs
        PROVE  /\ lists'[s] \in Requested /\ lists'[s].data = lists[s].data /\ lists'[s].stale
               /\ lists'[s].got \subseteq lists[s].got
               /\ lists'[s].flight = "read" => lists'[s].got # {}
               /\ s = "pending" /\ lists[s].data # {} => lists'[s].got = {}
    <3>1. lists[s] \in Requested
      BY <1>1
    <3>2. lists'[s] = Inbox!Invalidate(lists[s], s = "pending" \/ tab # "closed")
      BY <2>2
    <3>3. CASE s = "pending" \/ tab # "closed"
      <4>1. lists'[s] = Inbox!Invalidate(lists[s], TRUE)
        BY <3>2, <3>3 DEF Inbox!Invalidate
      <4> DEFINE e == Inbox!Invalidate(lists[s], TRUE)
      <4>2. /\ e \in Requested /\ e.data = lists[s].data /\ e.stale
            /\ \/ e.got = lists[s].got /\ e.flight = lists[s].flight
               \/ e.got = {} /\ e.flight = "sent"
            /\ lists[s].data # {} => e.got = {}
        BY <3>1, InboxInvalidates
      <4> HIDE DEF e
      <4>3. lists'[s] = e
        BY <4>1 DEF e
      <4> QED BY <1>8, <4>2, <4>3
    <3>4. CASE ~(s = "pending" \/ tab # "closed")
      <4>1. lists'[s] = Inbox!Invalidate(lists[s], FALSE)
        BY <3>2, <3>4 DEF Inbox!Invalidate
      <4> QED BY <1>8, <3>1, <3>4, <4>1, InboxInvalidates
    <3> QED BY <3>3, <3>4
  <2>4. lists' \in [Tabs -> Requested]
    BY <2>2, <2>3
  <2>5. r \in Inbox!Sent /\ Due(r)
    BY <1>1, <1>6
  <2>6. r.id \in Approvals /\ lists["pending"].data # {} /\ status[r.id] # "none"
        /\ (r.pc = "done" => status[r.id] # "pending")
    BY <2>5 DEF Due, Inbox!Sent
  <2>7. detail' \in Inbox!Detail /\ detail'.note = detail.note /\ (detail'.busy => detail.busy /\ ~r.mine)
    BY <1>1, <2>2 DEF Inbox!Detail
  <2>8. detail'.busy => \E c \in sent' : c.mine /\ kept # {} /\ \A p \in kept : c.id = p.id
    BY <1>1, <2>2, <2>7
  <2>9. decided' \subseteq Approvals /\ \A a \in decided' : status'[a] \notin {"none", "pending"}
    BY <1>1, <2>2, <2>6
  <2>10. Told(lists)'
    <3>1. \A s \in Tabs : \A a \in UNION (lists[s].data \cup lists[s].got) : status[a] # "none"
      BY <1>1 DEF Told
    <3>2. \A s \in Tabs : \A a \in UNION (lists'[s].data \cup lists'[s].got) : status'[a] # "none"
      BY <2>2, <2>3, <3>1
    <3>3. lists'["pending"].stale /\ lists'["pending"].got = {}
      BY <2>3, <2>6, InboxStatuses
    <3> QED BY <2>3, <3>2, <3>3 DEF Told
  <2>11. \A c \in sent' : Due(c)'
    BY <1>6, <2>2, <2>3, InboxStatuses DEF Due
  <2>12. /\ sent' \subseteq Inbox!Sent /\ lists'["pending"].data = lists["pending"].data
         /\ \A a \in Approvals : /\ status'[a] = "none" => status[a] = "none"
                                 /\ status'[a] = "pending" => status[a] = "pending"
    BY <1>1, <2>2, <2>3, InboxStatuses
  <2> QED BY <1>1, <1>5, <1>6, <2>2, <2>3, <2>4, <2>7, <2>8, <2>9, <2>10, <2>11, <2>12
<1>21. CASE (\E a \in Approvals : Inbox!Request(a)) \/ (\E a \in Approvals, o \in Outcomes : Inbox!Ends(a, o))
  <2>1. PICK a \in Approvals, s \in Tabs : /\ status' = [status EXCEPT ![a] = s]
                                           /\ IF s = "pending" THEN status[a] = "none" ELSE status[a] = "pending"
    BY <1>21, InboxStatuses DEF Inbox!Request, Inbox!Ends
  <2>2. UNCHANGED <<lists, tab, selected, moved, kept, detail, sent, decided>>
    BY <1>21 DEF Inbox!Request, Inbox!Ends
  <2>3. /\ status' \in [Approvals -> {"none"} \cup Tabs]
        /\ \A b \in Approvals : /\ status'[b] = "none" => status[b] = "none"
                                /\ status'[b] = "pending" => status[b] \in {"none", "pending"}
    BY <1>1, <2>1, InboxStatuses
  <2>4. \A b \in Approvals : status[b] \notin {"none", "pending"} => status'[b] = status[b]
    BY <1>1, <2>1
  <2>5. \A c \in sent' : Due(c)'
    <3>1. ASSUME NEW c \in sent PROVE Due(c)'
      <4>1. c.id \in Approvals /\ Due(c)
        BY <1>1, <1>6 DEF Inbox!Sent
      <4> QED BY <2>2, <2>3, <2>4, <4>1 DEF Due
    <3> QED BY <2>2, <3>1
  <2>6. Told(lists)'
    <3>1. \A t \in Tabs : \A b \in UNION (lists[t].data \cup lists[t].got) : b \in Approvals /\ status[b] # "none"
      BY <1>1 DEF Told, Requested, Inbox!Entry, Inbox!Maybe
    <3>2. \A t \in Tabs : \A b \in UNION (lists[t].data \cup lists[t].got) : status'[b] # "none"
      BY <2>3, <3>1
    <3>3. \A b \in decided : /\ b \in UNION lists["pending"].data => lists["pending"].stale
                             /\ b \notin UNION lists["pending"].got
      BY <1>1 DEF Told
    <3> QED BY <1>8, <2>2, <3>2, <3>3 DEF Told
  <2>7. \A b \in decided' : status'[b] \notin {"none", "pending"}
    BY <1>1, <2>2, <2>4
  <2> QED BY <1>1, <1>5, <1>6, <2>2, <2>3, <2>5, <2>6, <2>7
<1> QED
  BY <1>9, <1>10, <1>11, <1>12, <1>13, <1>14, <1>15, <1>17, <1>18, <1>19, <1>20, <1>21 DEF Inbox!Next, Tabs

(* A note goes with its request, the decided are not shown as pending, and *)
(* a request is shown on the tab of its status.                            *)
LEMMA InboxFollows == InboxInv => Inbox!NotesStayWithRequests /\ Inbox!AnsweredIsNotPending /\ Inbox!LandsOnItsTab
BY DEF InboxInv, Asking, Due, Told, Inbox!NotesStayWithRequests, Inbox!AnsweredIsNotPending, Inbox!Listed

-----------------------------------------------------------------------------
(* Evidence packs. The job goes through the questions in turn; a pack that *)
(* is ready stays so, unless its job goes on; only of a pack that is ready *)
(* or was are answers asked for, and it loses none of its rows; and what   *)
(* is shown as fresh was read after the last review.                       *)

RowSeqs == Seq(Pack!Row)

AnswersTo(q) == \E i \in DOMAIN rows : rows[i].question = q

(* It is ready, or was before its job went on with it.                     *)
Begun == pack = "ready" \/ trouble = "others"

Drafting ==
  /\ upload = "sent" => pack = "none"
  /\ pack = "none" => job = Pack!NoJob
  /\ upload = "inserted" => job = Pack!NoJob /\ pack = "processing"
  /\ upload = "inserted" \/ pack = "none" =>
       rows = <<>> /\ restarts = 0 /\ repeats = 0 /\ trouble # "others"
  /\ job # Pack!NoJob => pack # "none" /\ upload = "none"
  /\ job # Pack!NoJob /\ Begun => trouble = "others" /\ restarts # 0
  /\ job = 0 /\ restarts = 0 => rows = <<>> /\ repeats = 0
  /\ job \in 1 .. Questions + 1 =>
       /\ \A q \in 1 .. job - 1 : AnswersTo(q)
       /\ restarts = 0 => Len(rows) = job - 1 + repeats
  /\ Pack!ReadyIsComplete

Placed == at <= 1 \/ (answers.data # {} /\ \A as \in answers.data : at \in DOMAIN as)

Fetching ==
  /\ "ready" \in packs.data \cup packs.got => Begun
  /\ "ready" \in packs.data => packs.flight = "none"
  /\ packs.flight = "read" => packs.got # {}
  /\ answers.flight # "none" \/ answers.data # {} \/ answers.got # {} => Begun
  /\ answers.flight = "read" => answers.got # {}
  /\ \A as \in answers.data \cup answers.got : DOMAIN as \subseteq DOMAIN rows
  /\ \A as \in answers.data, new \in answers.got : DOMAIN as \subseteq DOMAIN new
  /\ packPage = "pack" => "ready" \in packs.data /\ Placed

Reviewing ==
  /\ saves # {} \/ alls # {} => "ready" \in packs.data /\ answers.data # {}
  /\ \A r \in saves : r.review.row \in DOMAIN rows
  /\ \A b \in alls : \A r \in b.left : r.row \in DOMAIN rows
  /\ trouble = "none" => saves = {} \/ alls = {}
  /\ trouble = "none" => \A b, c \in alls : b = c
  /\ trouble = "none" => \A b \in alls : b.pc = "sent" => \A r \in b.left : rows[r.row].text = r.text

Unsaved == \A r \in saves : r.pc = "sent"

Fresh ==
  trouble \notin {"lost", "others"} /\ Unsaved /\ alls = {} =>
    /\ answers.got \subseteq {rows}
    /\ ~answers.stale => answers.data \subseteq {rows}

PackInv == Pack!TypeOK /\ Drafting /\ Fetching /\ Reviewing /\ Fresh

LEMMA PackAnswers ==
  ASSUME NEW S, NEW e \in Pack!Entry(S)
  PROVE  /\ Pack!Landed(e) \in Pack!Entry(S)
         /\ Pack!Landed(e).data = e.got /\ Pack!Landed(e).got = {} /\ Pack!Landed(e).flight = "none"
         /\ Pack!Failed(e) \in Pack!Entry(S)
         /\ Pack!Failed(e).data = e.data /\ Pack!Failed(e).got = {} /\ Pack!Failed(e).flight = "none"
         /\ Pack!Failed(e).stale = e.stale
<1>1. {} \in Pack!Maybe(S)
  BY DEF Pack!Maybe
<1> QED BY <1>1 DEF Pack!Entry, Pack!Landed, Pack!Failed

LEMMA PackRequests ==
  ASSUME NEW S, NEW e \in Pack!Entry(S), NEW late
  PROVE  /\ Pack!Send(e) \in Pack!Entry(S)
         /\ Pack!Send(e).data = e.data /\ Pack!Send(e).got = {} /\ Pack!Send(e).stale = e.stale
         /\ Pack!Send(e).flight = "sent"
         /\ Pack!Mount(e, late) \in {e, Pack!Send(e)}
<1>1. {} \in Pack!Maybe(S)
  BY DEF Pack!Maybe
<1> QED BY <1>1 DEF Pack!Entry, Pack!Mount, Pack!Fetch, Pack!Send

LEMMA PackInvalidates ==
  ASSUME NEW S, NEW e \in Pack!Entry(S), NEW shows
  PROVE  /\ Pack!Invalidate(e, shows) \in Pack!Entry(S)
         /\ Pack!Invalidate(e, shows).data = e.data /\ Pack!Invalidate(e, shows).stale
         /\ \/ Pack!Invalidate(e, shows).got = e.got /\ Pack!Invalidate(e, shows).flight = e.flight
            \/ Pack!Invalidate(e, shows).got = {} /\ Pack!Invalidate(e, shows).flight = "sent"
         /\ shows /\ e.data # {} => Pack!Invalidate(e, shows).got = {} /\ Pack!Invalidate(e, shows).flight = "sent"
<1>1. {} \in Pack!Maybe(S)
  BY DEF Pack!Maybe
<1> QED BY <1>1 DEF Pack!Entry, Pack!Invalidate, Pack!Send

LEMMA PackReads ==
  ASSUME NEW S, NEW e \in Pack!Entry(S), NEW a \in S
  PROVE  /\ Pack!Read(e, a) \in Pack!Entry(S)
         /\ Pack!Read(e, a).data = e.data /\ Pack!Read(e, a).got = {a} /\ Pack!Read(e, a).stale = e.stale
<1>1. {a} \in Pack!Maybe(S)
  BY DEF Pack!Maybe
<1> QED BY <1>1 DEF Pack!Entry, Pack!Read

LEMMA RowsOf ==
  ASSUME NEW q \in RowSeqs
  PROVE  /\ Len(q) \in Nat /\ DOMAIN q = 1 .. Len(q)
         /\ \A i \in DOMAIN q : q[i] \in Pack!Row /\ i \in Nat \ {0}
<1>1. Len(q) \in Nat /\ q \in [1 .. Len(q) -> Pack!Row]
  BY LenProperties DEF RowSeqs
<1> QED BY <1>1

(* A review changes the text and the status of one row.                    *)
LEMMA Rewritten ==
  ASSUME rows \in RowSeqs, NEW r \in Pack!Review, r.row \in DOMAIN rows,
         NEW s \in {"reviewed", "approved"}, Pack!Updated(r, s)
  PROVE  /\ rows' \in RowSeqs /\ DOMAIN rows' = DOMAIN rows /\ Len(rows') = Len(rows)
         /\ \A i \in DOMAIN rows : rows'[i].question = rows[i].question /\ (i # r.row => rows'[i] = rows[i])
         /\ rows'[r.row].text = r.text
<1> DEFINE x == [rows[r.row] EXCEPT !.text = r.text, !.status = s]
<1>1. r.text \in 0 .. Texts /\ r.row \in 1 .. Len(rows) /\ rows[r.row] \in Pack!Row
  BY DEF RowSeqs, Pack!Review
<1>2. x \in Pack!Row /\ x.question = rows[r.row].question /\ x.text = r.text
  BY <1>1 DEF Pack!Row
<1>3. rows' = [rows EXCEPT ![r.row] = x]
  BY DEF Pack!Updated
<1> HIDE DEF x
<1>4. /\ [rows EXCEPT ![r.row] = x] \in Seq(Pack!Row)
      /\ Len([rows EXCEPT ![r.row] = x]) = Len(rows)
  BY <1>1, <1>2, ExceptSeq DEF RowSeqs
<1>5. \A i \in DOMAIN rows : rows'[i] = IF i = r.row THEN x ELSE rows[i]
  BY <1>3
<1>6. DOMAIN rows' = DOMAIN rows
  BY <1>3
<1> QED BY <1>1, <1>2, <1>3, <1>4, <1>5, <1>6 DEF RowSeqs

LEMMA PackInit == Pack!Init => PackInv
<1> SUFFICES ASSUME Pack!Init PROVE PackInv
  OBVIOUS
<1>1. {} \in Pack!Maybe(RowSeqs) /\ {} \in Pack!Maybe(Pack!PackStatus)
  BY DEF Pack!Maybe
<1>2. /\ Pack!NoEntry \in Pack!Entry(RowSeqs) /\ Pack!NoEntry \in Pack!Entry(Pack!PackStatus)
      /\ Pack!NoEntry.data = {} /\ Pack!NoEntry.got = {} /\ Pack!NoEntry.flight = "none"
  BY <1>1 DEF Pack!NoEntry, Pack!Entry
<1>3. /\ Pack!Send(Pack!NoEntry) \in Pack!Entry(Pack!PackStatus)
      /\ Pack!Send(Pack!NoEntry).data = {} /\ Pack!Send(Pack!NoEntry).got = {}
      /\ Pack!Send(Pack!NoEntry).flight = "sent"
  BY <1>2, PackRequests
<1> Questions \in Nat /\ Texts \in Nat
  BY Limits
<1>4. Pack!NoJob \in 0 .. Pack!NoJob /\ Pack!NoJob \notin 0 .. Questions + 1 /\ 0 \in 0 .. Texts
  BY DEF Pack!NoJob
<1>5. Pack!TypeOK
  BY <1>2, <1>3, <1>4 DEF Pack!Init, Pack!TypeOK, Pack!PackStatus, RowSeqs
<1>6. Drafting
  BY <1>4 DEF Pack!Init, Drafting, Pack!ReadyIsComplete
<1>7. Fetching /\ Reviewing /\ Fresh
  BY <1>2, <1>3 DEF Pack!Init, Fetching, Reviewing, Fresh
<1> QED BY <1>5, <1>6, <1>7 DEF PackInv

LEMMA PackStep == PackInv /\ [Pack!Next]_packVars => PackInv'
<1> SUFFICES ASSUME PackInv, [Pack!Next]_packVars PROVE PackInv'
  OBVIOUS
<1> USE DEF Pack!drafting, Pack!listing, Pack!review
<1>1. /\ pack \in Pack!PackStatus /\ job \in 0 .. Pack!NoJob /\ rows \in RowSeqs
      /\ restarts \in Nat /\ repeats \in Nat /\ reviews \in Nat
      /\ upload \in {"none", "sent", "inserted"}
      /\ packs \in Pack!Entry(Pack!PackStatus) /\ answers \in Pack!Entry(RowSeqs)
      /\ packPage \in {"list", "pack"} /\ at \in Nat /\ text \in 0 .. Texts
      /\ saves \subseteq Pack!Save /\ alls \subseteq Pack!All
      /\ trouble \in {"none", "crossed", "lost", "others"}
  BY DEF PackInv, Pack!TypeOK, RowSeqs
<1>2. Drafting /\ Fetching /\ Reviewing /\ Fresh
  BY DEF PackInv
<1>0. packs.flight = "read" => packs.got # {}
  BY <1>2 DEF Fetching
<1>3. /\ \A r \in saves : r \in Pack!Save /\ r.review \in Pack!Review /\ r.status \in {"reviewed", "approved"}
      /\ \A b \in alls : b \in Pack!All /\ b.left \subseteq Pack!Review
  BY <1>1 DEF Pack!Save, Pack!All
(* Before the pack is ready, nothing of its answers is asked for.          *)
<1>4. ASSUME ~Begun, UNCHANGED <<packPage, answers, at, text, saves, alls, reviews>>, Drafting',
             trouble' \in {"none", "crossed", "lost", "others"},
             pack' \in Pack!PackStatus, job' \in 0 .. Pack!NoJob, rows' \in RowSeqs, restarts' \in Nat, repeats' \in Nat,
             upload' \in {"none", "sent", "inserted"}, packs' \in Pack!Entry(Pack!PackStatus),
             packs'.data = packs.data, packs'.got \subseteq packs.got, packs'.flight = "read" => packs'.got # {}
      PROVE  PackInv'
  <2>1. /\ "ready" \notin packs.data /\ "ready" \notin packs.got
        /\ answers.flight = "none" /\ answers.data = {} /\ answers.got = {}
        /\ packPage = "list"
    BY <1>1, <1>2, <1>4 DEF Fetching
  <2>2. saves = {} /\ alls = {}
    BY <1>2, <2>1 DEF Reviewing
  <2>3. Pack!TypeOK'
    BY <1>1, <1>4, <2>1 DEF Pack!TypeOK, RowSeqs
  <2>4. Fetching' /\ Reviewing' /\ Fresh'
    BY <1>4, <2>1, <2>2 DEF Fetching, Reviewing, Fresh, Unsaved
  <2> QED BY <1>4, <2>3, <2>4 DEF PackInv
(* A job that goes on with a ready pack takes no row from it.              *)
<1>40. ASSUME job # Pack!NoJob,
              UNCHANGED <<upload, packs, packPage, answers, at, text, saves, alls, reviews>>, Drafting',
              trouble' \in {trouble, "others"},
              pack' \in Pack!PackStatus, job' \in 0 .. Pack!NoJob, rows' \in RowSeqs, restarts' \in Nat, repeats' \in Nat,
              DOMAIN rows \subseteq DOMAIN rows'
       PROVE  PackInv'
  <2>1. trouble' \in {"none", "crossed", "lost", "others"}
    BY <1>1, <1>40
  <2>2. CASE ~Begun
    BY <1>0, <1>1, <1>4, <1>40, <2>1, <2>2
  <2>3. CASE Begun
    <3>1. trouble = "others" /\ trouble' = "others"
      BY <1>2, <1>40, <2>3 DEF Drafting
    <3>2. Fetching'
      BY <1>2, <1>40, <3>1 DEF Fetching, Begun, Placed
    <3>3. Reviewing'
      BY <1>2, <1>40, <3>1 DEF Reviewing
    <3>4. Fresh'
      BY <3>1 DEF Fresh
    <3>5. Pack!TypeOK'
      BY <1>1, <1>40, <2>1 DEF PackInv, Pack!TypeOK, RowSeqs
    <3> QED BY <1>40, <3>2, <3>3, <3>4, <3>5 DEF PackInv
  <2> QED BY <2>2, <2>3
<1>5. /\ 0 \in 0 .. Pack!NoJob /\ Pack!NoJob \in 0 .. Pack!NoJob /\ Pack!NoJob = Questions + 2 /\ Questions \in Nat
      /\ Pack!NoJob \notin 0 .. Questions + 1
  <2>1. Questions \in Nat
    BY Limits
  <2> QED BY <2>1 DEF Pack!NoJob
<1>6. CASE Pack!Upload \/ Pack!InsertPack \/ Pack!UploadFails
  <2>1. /\ UNCHANGED <<rows, restarts, repeats, packs, packPage, answers, at, text, saves, alls, reviews, trouble>>
        /\ upload' \in {"none", "sent", "inserted"} /\ pack' \in Pack!PackStatus
        /\ job' = job \/ (upload = "inserted" /\ upload' = "none" /\ pack' = pack /\ job' = 0)
    BY <1>1, <1>6 DEF Pack!Upload, Pack!InsertPack, Pack!UploadFails, Pack!PackStatus, Pack!Queued
  <2>2. ~Begun /\ Drafting'
    BY <1>1, <1>2, <1>5, <1>6, <2>1 DEF Drafting, Begun, Pack!ReadyIsComplete, AnswersTo,
        Pack!Upload, Pack!InsertPack, Pack!UploadFails
  <2>3. job' \in 0 .. Pack!NoJob
    BY <1>1, <1>5, <2>1
  <2> QED BY <1>0, <1>1, <1>4, <2>1, <2>2, <2>3
<1>7. CASE Pack!Uploaded
  <2>1. packs' \in Pack!Entry(Pack!PackStatus) /\ packs'.data = packs.data /\ packs'.got \subseteq packs.got
    BY <1>1, <1>7, PackInvalidates DEF Pack!Uploaded
  <2>4. packs'.flight = "read" => packs'.got # {}
    <3>1. packs.flight = "read" => packs.got # {}
      BY <1>2 DEF Fetching
    <3>2. packs' = Pack!Invalidate(packs, packPage = "list")
      BY <1>7 DEF Pack!Uploaded
    <3> QED BY <1>1, <3>1, <3>2, PackInvalidates
  <2>2. /\ job' = 0 /\ upload = "inserted" /\ upload' = "none"
        /\ UNCHANGED <<pack, rows, restarts, repeats, packPage, answers, at, text, saves, alls, reviews, trouble>>
    BY <1>7 DEF Pack!Uploaded, Pack!Queued
  <2>3. ~Begun /\ Drafting'
    BY <1>1, <1>2, <1>5, <2>2 DEF Drafting, Begun, Pack!ReadyIsComplete, AnswersTo
  <2> QED BY <1>1, <1>4, <1>5, <2>1, <2>2, <2>3, <2>4
<1>8. CASE Pack!StartJob \/ Pack!JobFails \/ Pack!WorkerRestarts
  <2>1. /\ UNCHANGED <<rows, repeats, upload, packs, packPage, answers, at, text, saves, alls, reviews>>
        /\ job' \in 0 .. Pack!NoJob /\ pack' \in Pack!PackStatus /\ restarts' \in Nat /\ trouble' \in {trouble, "others"}
    BY <1>1, <1>5, <1>8 DEF Pack!StartJob, Pack!JobFails, Pack!WorkerRestarts, Pack!PackStatus, Pack!Queued
  <2>2. job # Pack!NoJob
    BY <1>5, <1>8 DEF Pack!StartJob, Pack!JobFails, Pack!WorkerRestarts, Pack!Queued
  <2>3. upload = "none" /\ pack # "none"
    BY <1>2, <2>2 DEF Drafting
  <2>4. Drafting'
    <3>1. CASE Pack!StartJob
      <4>1. job = 0 /\ job' = 1 /\ UNCHANGED <<pack, rows, restarts, repeats, upload, trouble>>
        BY <3>1 DEF Pack!StartJob, Pack!Queued
      <4>2. restarts = 0 => rows = <<>> /\ repeats = 0
        BY <1>2, <4>1 DEF Drafting
      <4> QED BY <1>2, <1>5, <2>2, <2>3, <4>1, <4>2 DEF Drafting, Begun, Pack!ReadyIsComplete
    <3>2. CASE Pack!JobFails
      <4>1. job' = Pack!NoJob /\ pack' = "error" /\ UNCHANGED <<rows, restarts, repeats, upload>>
        BY <3>2 DEF Pack!JobFails
      <4> QED BY <1>5, <2>3, <4>1 DEF Drafting, Pack!ReadyIsComplete
    <3>3. CASE Pack!WorkerRestarts
      <4>1. /\ job \in 1 .. Questions + 1 /\ job' = 0 /\ restarts' # 0 /\ UNCHANGED <<rows, upload>>
            /\ pack' \in {pack, "error"} \/ (job = Questions + 1 /\ pack' = "ready")
            /\ trouble' = IF pack' = "ready" THEN "others" ELSE trouble
        BY <1>1, <3>3 DEF Pack!WorkerRestarts, Pack!Queued
      <4>2. ASSUME pack' = "ready" PROVE \A q \in 1 .. Questions : AnswersTo(q)
        <5>1. CASE pack = "ready"
          BY <1>2, <5>1 DEF Drafting, Pack!ReadyIsComplete, AnswersTo
        <5>2. CASE pack # "ready"
          <6>1. job = Questions + 1
            BY <4>1, <4>2, <5>2
          <6>2. \A q \in 1 .. job - 1 : AnswersTo(q)
            BY <1>2, <4>1 DEF Drafting
          <6> QED BY <1>5, <6>1, <6>2
        <5> QED BY <5>1, <5>2
      <4>3. Pack!ReadyIsComplete'
        BY <4>1, <4>2 DEF Pack!ReadyIsComplete, AnswersTo
      <4> QED BY <1>5, <2>3, <4>1, <4>3 DEF Drafting, Begun
    <3> QED BY <1>8, <3>1, <3>2, <3>3
  <2> QED BY <1>1, <1>40, <2>1, <2>2, <2>4
<1>9. CASE \E q \in 1 .. Questions : Pack!Draft(q)
  <2>1. PICK q \in 1 .. Questions : Pack!Draft(q)
    BY <1>9
  <2> DEFINE x == [question |-> q, text |-> 0, status |-> "draft"]
  <2>2. PICK n \in 1 .. InsertAttempts : rows' = rows \o [i \in 1 .. n |-> x] /\ repeats' = repeats + n - 1
    BY <2>1 DEF Pack!Draft
  <2>0. /\ job = q /\ job' = q + 1
        /\ UNCHANGED <<pack, restarts, upload, packs, packPage, answers, at, text, saves, alls, reviews, trouble>>
    BY <2>1 DEF Pack!Draft
  <2>3. x \in Pack!Row /\ x.question = q
    <3>1. Questions \in Nat /\ Texts \in Nat
      BY Limits
    <3> QED BY <3>1 DEF Pack!Row
  <2> HIDE DEF x
  <2>4. /\ rows' \in RowSeqs /\ Len(rows') = Len(rows) + n /\ rows'[Len(rows) + 1] = x
        /\ \A i \in DOMAIN rows : i \in DOMAIN rows' /\ rows'[i] = rows[i]
        /\ Len(rows) + 1 \in DOMAIN rows' /\ Len(rows) \in Nat /\ n \in Nat /\ n >= 1
    <3> DEFINE t == [i \in 1 .. n |-> x]
    <3>1. n \in Nat /\ n >= 1
      <4>1. InsertAttempts \in Nat
        BY Limits
      <4>2. n \in 1 .. InsertAttempts
        BY <2>2
      <4> QED BY <4>1, <4>2
    <3>2. t \in Seq(Pack!Row) /\ Len(t) = n /\ t[1] = x
      BY <2>3, <3>1
    <3> HIDE DEF t
    <3>3. rows \in Seq(Pack!Row) /\ rows' = rows \o t
      BY <1>1, <2>2 DEF RowSeqs, t
    <3>4. /\ rows' \in Seq(Pack!Row) /\ Len(rows') = Len(rows) + n /\ Len(rows) \in Nat
          /\ \A i \in 1 .. Len(rows') : rows'[i] = IF i <= Len(rows) THEN rows[i] ELSE t[i - Len(rows)]
      BY <3>2, <3>3, ConcatProperties, LenProperties
    <3>5. Len(rows) + 1 \in 1 .. Len(rows') /\ Len(rows) + 1 - Len(rows) = 1 /\ ~(Len(rows) + 1 <= Len(rows))
      BY <3>1, <3>4
    <3>6. rows'[Len(rows) + 1] = x
      BY <3>2, <3>4, <3>5
    <3>7. DOMAIN rows = 1 .. Len(rows) /\ DOMAIN rows' = 1 .. Len(rows')
      BY <3>3, <3>4, LenProperties
    <3> QED BY <3>1, <3>4, <3>5, <3>6, <3>7 DEF RowSeqs
  <2>5. job # Pack!NoJob /\ pack # "none" /\ upload = "none" /\ q \in 1 .. Questions + 1
    BY <1>2, <1>5, <2>0 DEF Drafting
  <2>6. (\A o \in 1 .. q - 1 : AnswersTo(o)) /\ (restarts = 0 => Len(rows) = q - 1 + repeats)
    BY <1>2, <2>0, <2>5 DEF Drafting
  <2>7. \A o \in 1 .. job' - 1 : AnswersTo(o)'
    <3>1. ASSUME NEW o \in 1 .. q PROVE AnswersTo(o)'
      <4>1. CASE o = q
        BY <2>3, <2>4, <4>1 DEF AnswersTo
      <4>2. CASE o # q
        BY <2>4, <2>6, <4>2 DEF AnswersTo
      <4> QED BY <4>1, <4>2
    <3> QED BY <2>0, <3>1
  <2>8. (restarts' = 0 => Len(rows') = job' - 1 + repeats') /\ repeats' \in Nat
    <3>1. q \in Nat /\ repeats \in Nat /\ repeats' = repeats + n - 1 /\ n \in Nat /\ n >= 1
      BY <1>1, <1>5, <2>1, <2>2, <2>4
    <3>2. restarts' = 0 => Len(rows') = q - 1 + repeats + n
      BY <2>0, <2>4, <2>6
    <3> QED BY <2>0, <3>1, <3>2
  <2>9. Drafting' /\ job' \in 0 .. Pack!NoJob
    <3>1. job' \in 1 .. Questions + 1 /\ job' # 0 /\ job' \in 0 .. Pack!NoJob
      BY <1>5, <2>0, <2>1
    <3>2. pack' # "none" /\ upload' = "none" /\ (Begun' => trouble' = "others" /\ restarts' # 0)
      BY <1>2, <2>0, <2>5 DEF Drafting, Begun
    <3>3. Pack!ReadyIsComplete'
      <4> SUFFICES ASSUME pack = "ready" PROVE restarts # 0 /\ \A o \in 1 .. Questions : AnswersTo(o)'
        BY <2>0 DEF Pack!ReadyIsComplete, AnswersTo
      <4>1. restarts # 0
        BY <1>2, <2>5 DEF Drafting, Begun
      <4>2. \A o \in 1 .. Questions : AnswersTo(o)
        BY <1>2 DEF Drafting, Pack!ReadyIsComplete, AnswersTo
      <4> QED BY <2>4, <4>1, <4>2 DEF AnswersTo
    <3> QED BY <2>7, <2>8, <3>1, <3>2, <3>3 DEF Drafting
  <2> QED BY <1>1, <1>40, <2>0, <2>4, <2>5, <2>8, <2>9
<1>10. CASE Pack!FinishJob
  <2>1. /\ job = Questions + 1 /\ pack' = "ready" /\ job' = Pack!NoJob
        /\ UNCHANGED <<rows, restarts, repeats, upload, packs, packPage, answers, at, text, saves, alls, reviews, trouble>>
    BY <1>10 DEF Pack!FinishJob
  <2>2. job # Pack!NoJob /\ upload = "none" /\ job \in 1 .. Questions + 1
    BY <1>2, <1>5, <2>1 DEF Drafting
  <2>3. (\A q \in 1 .. job - 1 : AnswersTo(q)) /\ (restarts = 0 => Len(rows) = job - 1 + repeats)
    BY <1>2, <2>2 DEF Drafting
  <2>4. (\A q \in 1 .. Questions : AnswersTo(q)) /\ (restarts = 0 => Len(rows) = Questions + repeats)
    BY <1>5, <2>1, <2>3
  <2>5. Pack!ReadyIsComplete'
    BY <2>1, <2>4 DEF Pack!ReadyIsComplete, AnswersTo
  <2>6. Drafting'
    BY <1>5, <2>1, <2>2, <2>5 DEF Drafting
  <2> QED BY <1>1, <1>5, <1>40, <2>1, <2>2, <2>6 DEF Pack!PackStatus
(* What leaves the job and its rows leaves the drafting.                   *)
<1>11. ASSUME UNCHANGED <<pack, job, restarts, repeats, upload>>,
              rows' \in RowSeqs, DOMAIN rows' = DOMAIN rows, Len(rows') = Len(rows),
              \A i \in DOMAIN rows : rows'[i].question = rows[i].question,
              Begun \/ rows' = rows, trouble = "others" => trouble' = "others", trouble' = "others" => Begun,
              packs' \in Pack!Entry(Pack!PackStatus), answers' \in Pack!Entry(RowSeqs), reviews' \in Nat,
              packPage' \in {"list", "pack"}, at' \in Nat, text' \in 0 .. Texts,
              saves' \subseteq Pack!Save, alls' \subseteq Pack!All,
              trouble' \in {"none", "crossed", "lost", "others"},
              Fetching', Reviewing', Fresh'
       PROVE  PackInv'
  <2>1. packPage' = "pack" => at' <= 1 \/ \A a \in answers'.data : at' \in 1 .. Len(a)
    <3> SUFFICES ASSUME packPage' = "pack", ~(at' <= 1), NEW a \in answers'.data PROVE at' \in 1 .. Len(a)
      OBVIOUS
    <3>1. at' \in DOMAIN a
      BY <1>11 DEF Fetching, Placed
    <3>2. a \in RowSeqs
      BY <1>11 DEF Pack!Entry, Pack!Maybe
    <3> QED BY <3>1, <3>2 DEF RowSeqs
  <2>2. Pack!TypeOK'
    BY <1>1, <1>11, <2>1 DEF Pack!TypeOK, RowSeqs
  <2>3. Drafting'
    <3>1. Begun' => Begun
      BY <1>11 DEF Begun
    <3>2. \A q : AnswersTo(q) => AnswersTo(q)'
      BY <1>11 DEF AnswersTo
    <3>3. Pack!ReadyIsComplete'
      BY <1>2, <1>11 DEF Drafting, Pack!ReadyIsComplete
    <3>4. CASE rows' = rows
      BY <1>2, <1>11, <3>1, <3>2, <3>3, <3>4 DEF Drafting, Begun
    <3>5. CASE Begun
      <4>1. pack # "none" /\ upload # "inserted"
        BY <1>2, <3>5 DEF Drafting, Begun
      <4> QED BY <1>2, <1>11, <3>1, <3>2, <3>3, <3>5, <4>1 DEF Drafting
    <3> QED BY <1>11, <3>4, <3>5
  <2> QED BY <1>11, <2>2, <2>3 DEF PackInv
<1>12. /\ \A as \in answers.data \cup answers.got :
             as \in RowSeqs /\ DOMAIN as \subseteq DOMAIN rows /\ DOMAIN as = 1 .. Len(as)
       /\ answers.flight # "none" \/ answers.data # {} \/ answers.got # {} => Begun
       /\ answers.flight = "read" => answers.got # {}
       /\ "ready" \in packs.data => Begun
       /\ "ready" \in packs.data <=> Pack!IsReady
  <2>1. \A as \in answers.data \cup answers.got : as \in RowSeqs
    BY <1>1 DEF Pack!Entry, Pack!Maybe
  <2>2. \A as \in RowSeqs : DOMAIN as = 1 .. Len(as)
    BY RowsOf
  <2> QED BY <1>2, <2>1, <2>2 DEF Fetching, Pack!IsReady
<1>13. ASSUME NEW as \in RowSeqs, NEW i PROVE Pack!Original(as, i) \in 0 .. Texts
  <2>1. Texts \in Nat
    BY Limits
  <2>2. i \in DOMAIN as => as[i] \in Pack!Row
    BY RowsOf
  <2>3. i \in DOMAIN as => as[i].text \in 0 .. Texts
    BY <2>2 DEF Pack!Row
  <2>4. 0 \in 0 .. Texts
    BY <2>1
  <2>5. CASE i \in DOMAIN as
    BY <2>3, <2>5 DEF Pack!Original
  <2>6. CASE i \notin DOMAIN as
    BY <2>4, <2>6 DEF Pack!Original
  <2> QED BY <2>5, <2>6
(* The list of packs.                                                      *)
<1>14. ASSUME UNCHANGED <<pack, job, rows, restarts, repeats, upload, packPage, at, text, saves, alls, reviews, trouble>>,
              packs' \in Pack!Entry(Pack!PackStatus), packs'.flight = "read" => packs'.got # {},
              "ready" \in packs.data => "ready" \in packs'.data,
              "ready" \in packs'.data \cup packs'.got => Begun,
              "ready" \in packs'.data => packs'.flight = "none",
              answers' = answers \/ (answers' \in {answers, Pack!Send(answers)} /\ Begun)
       PROVE  PackInv'
  <2>1. /\ answers' \in Pack!Entry(RowSeqs) /\ answers'.data = answers.data /\ answers'.got \subseteq answers.got
        /\ answers'.flight = "read" => answers'.got # {}
        /\ answers'.stale = answers.stale
        /\ answers'.flight # "none" \/ answers'.data # {} \/ answers'.got # {} => Begun
    BY <1>1, <1>12, <1>14, PackRequests
  <2>2. Fetching'
    BY <1>2, <1>12, <1>14, <2>1 DEF Fetching, Placed, Begun
  <2>3. Reviewing' /\ Fresh'
    BY <1>2, <1>14, <2>1 DEF Reviewing, Fresh, Unsaved
  <2> QED BY <1>1, <1>11, <1>14, <2>1, <2>2, <2>3 DEF Begun
<1>15. CASE Pack!PollPacks \/ Pack!ReadPacks \/ Pack!PacksFail
  <2>3. "ready" \notin packs.data
    <3>1. CASE Pack!PollPacks
      BY <1>1, <3>1 DEF Pack!PollPacks, Pack!Processing, Pack!Entry, Pack!Maybe
    <3>2. CASE Pack!ReadPacks \/ Pack!PacksFail
      BY <1>2, <3>2 DEF Pack!ReadPacks, Pack!PacksFail, Fetching
    <3> QED BY <1>15, <3>1, <3>2
  <2>1. /\ packs' \in Pack!Entry(Pack!PackStatus) /\ packs'.data = packs.data
        /\ (packs'.got = {} /\ packs'.flight # "read") \/ packs'.got = {pack}
    <3>1. packs' \in {Pack!Send(packs), Pack!Read(packs, pack), Pack!Failed(packs)}
      BY <1>15 DEF Pack!PollPacks, Pack!ReadPacks, Pack!PacksFail
    <3>2. CASE packs' = Pack!Send(packs)
      BY <1>1, <3>2, PackRequests
    <3>3. CASE packs' = Pack!Read(packs, pack)
      BY <1>1, <3>3, PackReads
    <3>4. CASE packs' = Pack!Failed(packs)
      BY <1>1, <3>4, PackAnswers
    <3> QED BY <3>1, <3>2, <3>3, <3>4
  <2>2. UNCHANGED <<pack, job, rows, restarts, repeats, upload, packPage, at, text, saves, alls, reviews, trouble, answers>>
    BY <1>15 DEF Pack!PollPacks, Pack!ReadPacks, Pack!PacksFail
  <2> QED BY <1>12, <1>14, <2>1, <2>2, <2>3 DEF Begun
<1>16. CASE Pack!PacksLand
  <2>6. packs.flight = "read"
    BY <1>16 DEF Pack!PacksLand
  <2>1. /\ packs' \in Pack!Entry(Pack!PackStatus) /\ packs'.flight = "none"
        /\ packs'.data = packs.got /\ packs'.got = {}
        /\ packs.got # {}
    BY <1>0, <1>1, <1>16, PackAnswers DEF Pack!PacksLand
  <2>2. /\ UNCHANGED <<pack, job, rows, restarts, repeats, upload, packPage, at, text, saves, alls, reviews, trouble>>
        /\ answers' = answers \/ (packs.got = {"ready"} /\ answers' = Pack!Mount(answers, FALSE))
    BY <1>16 DEF Pack!PacksLand
  <2>3. "ready" \notin packs.data
    BY <1>2, <2>6 DEF Fetching
  <2>4. "ready" \in packs.got => Begun
    BY <1>2 DEF Fetching
  <2>5. Pack!Mount(answers, FALSE) \in {answers, Pack!Send(answers)}
    BY <1>1, PackRequests
  <2> QED BY <1>14, <2>1, <2>2, <2>3, <2>4, <2>5
(* The page of a pack, as long as it has the rows as they are.             *)
<1>17. ASSUME UNCHANGED <<pack, job, rows, restarts, repeats, upload, packs>>, reviews' \in Nat,
              answers' \in Pack!Entry(RowSeqs), answers'.data = answers.data, answers'.got \subseteq answers.got,
              answers'.flight = "read" => answers'.got # {}, answers.stale => answers'.stale,
              answers'.flight = "none" \/ Begun,
              packPage' \in {"list", "pack"}, at' \in Nat, text' \in 0 .. Texts,
              packPage' = "pack" => "ready" \in packs.data /\ Placed',
              saves' \subseteq Pack!Save, alls' \subseteq Pack!All,
              trouble' \in {"none", "crossed", "lost", "others"},
              trouble = "others" => trouble' = "others", trouble' = "others" => Begun,
              Reviewing', trouble' \notin {"lost", "others"} => trouble \notin {"lost", "others"},
              \/ Unsaved' /\ alls' = {} => Unsaved /\ alls = {}
              \/ answers'.stale /\ answers'.got = {}
              \/ trouble' \in {"lost", "others"}
       PROVE  PackInv'
  <2>1. Fetching'
    BY <1>2, <1>12, <1>17 DEF Fetching, Begun
  <2>2. Fresh'
    BY <1>2, <1>17 DEF Fresh
  <2> QED BY <1>1, <1>11, <1>17, <2>1, <2>2
(* Requests whose editor or page is gone go on.                            *)
<1>18. ASSUME UNCHANGED <<rows, packs>>, answers'.data = answers.data, trouble' = trouble,
              saves' = saves \/ saves' = Pack!Forget(saves), alls' = alls \/ alls' = Pack!Forget(alls)
       PROVE  /\ Reviewing' /\ saves' \subseteq Pack!Save /\ alls' \subseteq Pack!All
              /\ Unsaved' /\ alls' = {} => Unsaved /\ alls = {}
  <2>1. \A r \in saves' : r \in Pack!Save /\ \E o \in saves : r.pc = o.pc /\ r.review = o.review
    <3>1. ASSUME NEW o \in saves
          PROVE  /\ o \in Pack!Save /\ [o EXCEPT !.mine = FALSE] \in Pack!Save
                 /\ [o EXCEPT !.mine = FALSE].pc = o.pc /\ [o EXCEPT !.mine = FALSE].review = o.review
      BY <1>1 DEF Pack!Save
    <3> DEFINE F == {[o EXCEPT !.mine = FALSE] : o \in saves}
    <3>2. \A r \in F : r \in Pack!Save /\ \E o \in saves : r.pc = o.pc /\ r.review = o.review
      BY <3>1
    <3>3. Pack!Forget(saves) = F
      BY DEF Pack!Forget
    <3> HIDE DEF F
    <3> QED BY <1>18, <3>1, <3>2, <3>3
  <2>2. \A b \in alls' : b \in Pack!All /\ \E o \in alls : b.pc = o.pc /\ b.left = o.left
    <3>1. ASSUME NEW o \in alls
          PROVE  /\ o \in Pack!All /\ [o EXCEPT !.mine = FALSE] \in Pack!All
                 /\ [o EXCEPT !.mine = FALSE].pc = o.pc /\ [o EXCEPT !.mine = FALSE].left = o.left
      BY <1>1 DEF Pack!All
    <3> DEFINE F == {[o EXCEPT !.mine = FALSE] : o \in alls}
    <3>2. \A b \in F : b \in Pack!All /\ \E o \in alls : b.pc = o.pc /\ b.left = o.left
      BY <3>1
    <3>3. Pack!Forget(alls) = F
      BY DEF Pack!Forget
    <3> HIDE DEF F
    <3> QED BY <1>18, <3>1, <3>2, <3>3
  <2>3. (saves' = {} <=> saves = {}) /\ (alls' = {} <=> alls = {})
    <3>1. ASSUME NEW rs PROVE Pack!Forget(rs) = {} <=> rs = {}
      BY DEF Pack!Forget
    <3> QED BY <1>18, <3>1
  <2>4. ASSUME \A b, c \in alls : b = c PROVE \A b, c \in alls' : b = c
    BY <1>18, <2>4 DEF Pack!Forget
  <2>5. ASSUME Unsaved' PROVE Unsaved
    <3> SUFFICES ASSUME NEW r \in saves PROVE r.pc = "sent"
      BY DEF Unsaved
    <3>1. r \in Pack!Save /\ (r \in saves' \/ [r EXCEPT !.mine = FALSE] \in saves')
      BY <1>1, <1>18 DEF Pack!Forget
    <3>2. [r EXCEPT !.mine = FALSE].pc = r.pc
      BY <3>1 DEF Pack!Save
    <3> QED BY <2>5, <3>1, <3>2 DEF Unsaved
  <2>6. Reviewing'
    BY <1>2, <1>18, <2>1, <2>2, <2>3, <2>4 DEF Reviewing
  <2> QED BY <2>1, <2>2, <2>3, <2>5, <2>6
<1>20. 0 \in 0 .. Texts
  <2>1. Texts \in Nat
    BY Limits
  <2> QED BY <2>1
<1>21. ASSUME UNCHANGED <<pack, job, rows, restarts, repeats, upload, packs, reviews, trouble>>,
              answers' \in {answers, Pack!Send(answers)}, answers' = answers \/ Begun,
              packPage' \in {"list", "pack"}, at' \in Nat, text' \in 0 .. Texts,
              packPage' = "pack" => "ready" \in packs.data /\ Placed',
              saves' = saves \/ saves' = Pack!Forget(saves), alls' = alls \/ alls' = Pack!Forget(alls)
       PROVE  PackInv'
  <2>1. /\ answers' \in Pack!Entry(RowSeqs) /\ answers'.data = answers.data /\ answers'.got \subseteq answers.got
        /\ answers'.flight = "read" => answers'.got # {}
        /\ answers.stale => answers'.stale
        /\ answers'.flight = "none" \/ Begun
    BY <1>1, <1>12, <1>21, PackRequests
  <2>2. /\ Reviewing' /\ saves' \subseteq Pack!Save /\ alls' \subseteq Pack!All
        /\ Unsaved' /\ alls' = {} => Unsaved /\ alls = {}
    BY <1>18, <1>21, <2>1
  <2> QED BY <1>1, <1>17, <1>21, <2>1, <2>2 DEF Begun
<1>22. CASE \E aged \in BOOLEAN : Pack!OpenPack(aged)
  <2>1. PICK late \in BOOLEAN : Pack!OpenPack(late)
    BY <1>22
  <2>2. answers' \in {answers, Pack!Send(answers)} /\ Begun /\ "ready" \in packs.data
    BY <1>1, <1>12, <2>1, PackRequests DEF Pack!OpenPack
  <2>3. text' \in 0 .. Texts
    <3>1. CASE answers.data = {}
      BY <1>20, <2>1, <3>1 DEF Pack!OpenPack
    <3>2. CASE answers.data # {}
      <4>1. (CHOOSE as \in answers.data : TRUE) \in answers.data
        BY <3>2
      <4> QED BY <1>12, <1>13, <2>1, <3>2, <4>1 DEF Pack!OpenPack
    <3> QED BY <3>1, <3>2
  <2> QED BY <1>1, <1>21, <2>1, <2>2, <2>3 DEF Pack!OpenPack, Placed
<1>23. CASE Pack!Back
  BY <1>1, <1>20, <1>21, <1>23 DEF Pack!Back
<1>24. packPage = "pack" => "ready" \in packs.data /\ Placed
  BY <1>2 DEF Fetching
<1>25. CASE \E i \in DOMAIN rows : Pack!GoTo(i)
  <2>1. PICK i \in DOMAIN rows : Pack!GoTo(i)
    BY <1>25
  <2>2. text' \in 0 .. Texts
    BY <1>12, <1>13, <2>1 DEF Pack!GoTo
  <2>3. i \in Nat
    BY <1>1 DEF RowSeqs
  <2>4. answers.data # {} /\ \A as \in answers.data : i \in DOMAIN as
    BY <1>1, <1>12, <2>1 DEF Pack!GoTo, Pack!Entry, Pack!Maybe
  <2> QED BY <1>1, <1>21, <1>24, <2>1, <2>2, <2>3, <2>4 DEF Pack!GoTo, Placed
<1>26. CASE (\E i \in {0, 1} : Pack!StepInVain(i)) \/ (\E x \in 1 .. Texts : Pack!Type(x)) \/ Pack!Discard
  <2>1. /\ UNCHANGED <<pack, job, rows, restarts, repeats, upload, packs, reviews, trouble, packPage, answers, saves, alls>>
        /\ at' \in {0, 1} \/ at' = at
    BY <1>26 DEF Pack!StepInVain, Pack!Type, Pack!Discard
  <2>2. text' \in 0 .. Texts
    BY <1>1, <1>12, <1>13, <1>26 DEF Pack!StepInVain, Pack!Type, Pack!Discard, Pack!Shown
  <2> QED BY <1>1, <1>21, <1>24, <2>1, <2>2 DEF Placed
<1>27. CASE UNCHANGED packVars
  BY <1>1, <1>21, <1>24, <1>27 DEF packVars, Placed
<1>28. CASE Pack!ReadAnswers \/ Pack!AnswersFail
  <2>1. /\ UNCHANGED <<pack, job, rows, restarts, repeats, upload, packs, packPage, at, text, saves, alls, reviews, trouble>>
        /\ answers.flight # "none"
    BY <1>28 DEF Pack!ReadAnswers, Pack!AnswersFail
  <2>2. /\ answers' \in Pack!Entry(RowSeqs) /\ answers'.data = answers.data /\ answers'.stale = answers.stale
        /\ (answers'.got = {} /\ answers'.flight # "read") \/ answers'.got = {rows}
    BY <1>1, <1>28, PackReads, PackAnswers DEF Pack!ReadAnswers, Pack!AnswersFail
  <2>3. Fetching'
    BY <1>2, <1>12, <2>1, <2>2 DEF Fetching, Placed, Begun
  <2>4. Reviewing' /\ Fresh'
    BY <1>2, <2>1, <2>2 DEF Reviewing, Fresh, Unsaved
  <2> QED BY <1>1, <1>11, <2>1, <2>2, <2>3, <2>4 DEF Begun
<1>29. CASE Pack!AnswersLand
  <2>1. /\ UNCHANGED <<pack, job, rows, restarts, repeats, upload, packs, packPage, at, saves, alls, reviews, trouble>>
        /\ answers' = Pack!Landed(answers) /\ answers.got # {}
        /\ text' = text \/ text' = Pack!Original(CHOOSE as \in answers.got : TRUE, at)
    BY <1>12, <1>29 DEF Pack!AnswersLand
  <2>2. /\ answers' \in Pack!Entry(RowSeqs) /\ answers'.data = answers.got
        /\ answers'.got = {} /\ answers'.flight = "none"
    BY <1>1, <2>1, PackAnswers
  <2>3. text' \in 0 .. Texts
    <3>1. (CHOOSE as \in answers.got : TRUE) \in answers.got
      BY <2>1
    <3> QED BY <1>1, <1>12, <1>13, <2>1, <3>1
  <2>4. Fetching'
    BY <1>2, <1>12, <2>1, <2>2 DEF Fetching, Placed, Begun
  <2>5. Reviewing' /\ Fresh'
    BY <1>2, <2>1, <2>2 DEF Reviewing, Fresh, Unsaved
  <2> QED BY <1>1, <1>11, <2>1, <2>2, <2>3, <2>4, <2>5 DEF Begun
(* Reviews.                                                                *)
<1>30. /\ \A r \in saves : r.review.row \in DOMAIN rows
       /\ \A b \in alls : \A r \in b.left : r.row \in DOMAIN rows
       /\ saves # {} \/ alls # {} => "ready" \in packs.data /\ answers.data # {} /\ Begun
       /\ trouble = "none" => saves = {} \/ alls = {}
       /\ trouble = "none" => \A b, c \in alls : b = c
       /\ trouble = "none" => \A b \in alls : b.pc = "sent" => \A r \in b.left : rows[r.row].text = r.text
  BY <1>2, <1>12 DEF Reviewing
<1>31. CASE \E s \in {"reviewed", "approved"} : Pack!SaveAnswer(s)
  <2>1. PICK s \in {"reviewed", "approved"} : Pack!SaveAnswer(s)
    BY <1>31
  <2> DEFINE x == [nr |-> reviews, pc |-> "sent", review |-> [row |-> at, text |-> text], status |-> s, mine |-> TRUE]
  <2>2. /\ packPage = "pack" /\ saves' = saves \cup {x}
        /\ trouble' = IF Pack!Unsettled /\ trouble = "none" THEN "crossed" ELSE trouble
        /\ reviews' \in Nat
        /\ UNCHANGED <<pack, job, rows, restarts, repeats, upload, packs, packPage, answers, at, text, alls>>
    BY <1>1, <2>1 DEF Pack!SaveAnswer, Pack!Crossing
  <2>3. at \in DOMAIN rows /\ at \in Nat \ {0} /\ answers.data # {} /\ "ready" \in packs.data
    <3>1. \E as \in answers.data : at \in 1 .. Len(as)
      BY <2>1 DEF Pack!SaveAnswer, Pack!Shown
    <3>2. at \in DOMAIN rows
      BY <1>12, <3>1
    <3> QED BY <1>1, <1>24, <2>2, <3>1, <3>2, RowsOf
  <2>4. x \in Pack!Save /\ x.pc = "sent" /\ x.review.row = at
    BY <1>1, <2>3 DEF Pack!Save, Pack!Review
  <2> HIDE DEF x
  <2>5. trouble' = "none" => alls = {} /\ trouble = "none"
    BY <2>2 DEF Pack!Unsettled
  <2>6. Reviewing'
    BY <1>30, <2>2, <2>3, <2>4, <2>5 DEF Reviewing
  <2>7. /\ trouble' \in {"none", "crossed", "lost", "others"}
        /\ (trouble' \notin {"lost", "others"} => trouble \notin {"lost", "others"})
    BY <1>1, <2>2
  <2>8. Unsaved' /\ alls' = {} => Unsaved /\ alls = {}
    BY <2>2 DEF Unsaved
  <2> QED BY <1>1, <1>12, <1>17, <1>24, <2>2, <2>4, <2>6, <2>7, <2>8 DEF Placed, Begun
<1>32. CASE Pack!ApproveAll
  <2>1. PICK as \in answers.data :
          alls' = alls \cup {[nr |-> reviews, pc |-> "sent", left |-> Pack!Unapproved(as), mine |-> TRUE]}
    BY <1>32 DEF Pack!ApproveAll
  <2> DEFINE x == [nr |-> reviews, pc |-> "sent", left |-> Pack!Unapproved(as), mine |-> TRUE]
  <2>2. /\ packPage = "pack" /\ alls' = alls \cup {x}
        /\ trouble' = IF Pack!Unsettled /\ trouble = "none" THEN "crossed" ELSE trouble
        /\ reviews' \in Nat
        /\ UNCHANGED <<pack, job, rows, restarts, repeats, upload, packs, packPage, answers, at, text, saves>>
    <3>1. alls' = alls \cup {x}
      BY <2>1
    <3> HIDE DEF x
    <3>2. /\ packPage = "pack" /\ Pack!Crossing /\ reviews' = reviews + 1
          /\ UNCHANGED <<pack, job, rows, restarts, repeats, upload, packs, packPage, answers, at, text, saves>>
      BY <1>32 DEF Pack!ApproveAll
    <3> QED BY <1>1, <3>1, <3>2 DEF Pack!Crossing
  <2>3. \A r \in Pack!Unapproved(as) : r \in Pack!Review /\ r.row \in DOMAIN as /\ r.text = as[r.row].text
    <3>1. as \in RowSeqs /\ DOMAIN as = 1 .. Len(as)
      BY <1>12
    <3>2. \A i \in DOMAIN as : as[i] \in Pack!Row /\ i \in Nat \ {0}
      BY <3>1, RowsOf
    <3>3. ASSUME NEW r \in Pack!Unapproved(as)
          PROVE  r \in Pack!Review /\ r.row \in DOMAIN as /\ r.text = as[r.row].text
      <4>1. PICK i \in DOMAIN as : r = [row |-> i, text |-> as[i].text]
        BY DEF Pack!Unapproved
      <4>2. as[i].text \in 0 .. Texts /\ i \in Nat \ {0}
        BY <3>2 DEF Pack!Row
      <4>3. r.row = i /\ r.text = as[i].text
        BY <4>1
      <4> QED BY <4>1, <4>2, <4>3 DEF Pack!Review
    <3> QED BY <3>3
  <2>4. x \in Pack!All /\ x.pc = "sent" /\ x.left = Pack!Unapproved(as)
    BY <1>1, <2>3 DEF Pack!All
  <2> HIDE DEF x
  <2>5. trouble' = "none" => saves = {} /\ alls = {} /\ trouble = "none" /\ ~answers.stale
    BY <2>2 DEF Pack!Unsettled
  <2>6. trouble' = "none" => as = rows
    BY <1>2, <2>5 DEF Fresh, Unsaved
  <2>7. Reviewing'
    <3>1. /\ "ready" \in packs'.data /\ answers'.data # {} /\ rows' = rows /\ saves' = saves
          /\ \A r \in saves' : r.review.row \in DOMAIN rows'
      BY <1>24, <1>30, <2>1, <2>2
    <3>2. \A r \in x.left : r.row \in DOMAIN rows
      BY <1>12, <2>1, <2>3, <2>4
    <3>3. \A b \in alls' : \A r \in b.left : r.row \in DOMAIN rows'
      BY <1>30, <2>2, <3>1, <3>2
    <3>4. trouble' = "none" => saves' = {} /\ alls' = {x} /\ \A r \in x.left : rows[r.row].text = r.text
      BY <2>2, <2>3, <2>4, <2>5, <2>6
    <3> QED BY <3>1, <3>3, <3>4 DEF Reviewing
  <2>8. /\ trouble' \in {"none", "crossed", "lost", "others"}
        /\ (trouble' \notin {"lost", "others"} => trouble \notin {"lost", "others"})
    BY <1>1, <2>2
  <2> QED BY <1>1, <1>12, <1>17, <1>24, <2>2, <2>4, <2>7, <2>8 DEF Placed, Begun
<1>33. ASSUME Begun, NEW r \in Pack!Review, r.row \in DOMAIN rows, NEW s \in {"reviewed", "approved"},
              Pack!Updated(r, s),
              UNCHANGED <<pack, job, restarts, repeats, upload, packs, packPage, answers, at, text>>, reviews' \in Nat,
              saves' \subseteq Pack!Save, alls' \subseteq Pack!All,
              trouble' \in {"none", "crossed", "lost", "others"}, trouble' \in {trouble, "others"}, Reviewing', Fresh'
       PROVE  PackInv'
  <2>1. /\ rows' \in RowSeqs /\ DOMAIN rows' = DOMAIN rows /\ Len(rows') = Len(rows)
        /\ \A i \in DOMAIN rows : rows'[i].question = rows[i].question
    BY <1>1, <1>33, Rewritten
  <2>2. Fetching'
    BY <1>2, <1>33, <2>1 DEF Fetching, Placed, Begun
  <2> QED BY <1>1, <1>11, <1>33, <2>1, <2>2
<1>34. CASE \E r \in saves : Pack!UpdateAnswer(r)
  <2>1. PICK r \in saves : Pack!UpdateAnswer(r)
    BY <1>34
  <2>2. /\ r \in Pack!Save /\ r.review \in Pack!Review /\ r.status \in {"reviewed", "approved"}
        /\ r.review.row \in DOMAIN rows
    BY <1>3, <1>30
  <2> DEFINE x == [r EXCEPT !.pc = "done"]
  <2>3. x \in Pack!Save /\ x.pc = "done" /\ x.review = r.review
    BY <2>2 DEF Pack!Save
  <2>4. /\ Pack!Updated(r.review, r.status) /\ saves' = (saves \ {r}) \cup {x}
        /\ UNCHANGED <<pack, job, restarts, repeats, upload, packs, packPage, answers, at, text, alls, reviews, trouble>>
    BY <2>1 DEF Pack!UpdateAnswer
  <2> HIDE DEF x
  <2>5. DOMAIN rows' = DOMAIN rows
    BY <1>1, <2>2, <2>4, Rewritten
  <2>6. Reviewing'
    BY <1>30, <2>2, <2>3, <2>4, <2>5 DEF Reviewing
  <2>7. Fresh'
    <3>1. ~Unsaved'
      BY <2>3, <2>4 DEF Unsaved
    <3> QED BY <3>1 DEF Fresh
  <2> QED BY <1>1, <1>30, <1>33, <2>2, <2>3, <2>4, <2>6, <2>7
<1>35. CASE \E b \in alls : Pack!UpdateNext(b)
  <2>0. PICK b \in alls : Pack!UpdateNext(b)
    BY <1>35
  <2>1. PICK r \in b.left :
          /\ Pack!Updated(r, "approved")
          /\ alls' = (alls \ {b}) \cup
                       {[b EXCEPT !.left = @ \ {r}, !.pc = IF b.left = {r} THEN "done" ELSE "sent"]}
    BY <2>0 DEF Pack!UpdateNext
  <2> DEFINE x == [b EXCEPT !.left = @ \ {r}, !.pc = IF b.left = {r} THEN "done" ELSE "sent"]
  <2>2. /\ b.pc = "sent" /\ alls' = (alls \ {b}) \cup {x}
        /\ UNCHANGED <<pack, job, restarts, repeats, upload, packs, packPage, answers, at, text, saves, reviews, trouble>>
    BY <2>0, <2>1 DEF Pack!UpdateNext
  <2>3. b \in Pack!All /\ r \in Pack!Review /\ r.row \in DOMAIN rows /\ Begun
    BY <1>3, <1>30, <2>0, <2>1
  <2>4. x \in Pack!All /\ x.left = b.left \ {r}
    BY <2>3 DEF Pack!All
  <2> HIDE DEF x
  <2>5. /\ DOMAIN rows' = DOMAIN rows /\ rows'[r.row].text = r.text
        /\ \A i \in DOMAIN rows : i # r.row => rows'[i] = rows[i]
    BY <1>1, <2>1, <2>3, Rewritten
  <2>6. trouble = "none" => alls' = {x} /\ \A o \in b.left : rows'[o.row].text = o.text
    BY <1>30, <2>0, <2>2, <2>3, <2>5
  <2>7. Reviewing' /\ Fresh'
    <3>1. alls' # {} /\ \A c \in alls' : c.left \subseteq b.left \/ c \in alls
      BY <2>2, <2>4
    <3> QED BY <1>30, <2>0, <2>2, <2>4, <2>5, <2>6, <3>1 DEF Reviewing, Fresh
  <2> QED BY <1>1, <1>33, <2>1, <2>2, <2>3, <2>4, <2>7
<1>36. CASE (\E r \in saves : Pack!SaveLands(r)) \/ (\E b \in alls : Pack!AllSettles(b))
  <2>1. /\ UNCHANGED <<pack, job, rows, restarts, repeats, upload, packs, packPage, at, text, reviews, trouble>>
        /\ answers' = Pack!Invalidate(answers, packPage = "pack" \/ Pack!IsReady)
        /\ saves' \subseteq saves /\ alls' \subseteq alls
        /\ saves # {} \/ alls # {}
    BY <1>36 DEF Pack!SaveLands, Pack!AllSettles, Pack!Reread
  <2>5. "ready" \in packs.data /\ answers.data # {} /\ Begun
    BY <1>30, <2>1
  <2>2. answers' = Pack!Invalidate(answers, TRUE)
    BY <1>12, <2>1, <2>5 DEF Pack!Invalidate
  <2>3. /\ answers' \in Pack!Entry(RowSeqs) /\ answers'.data = answers.data /\ answers'.stale
        /\ answers'.got = {} /\ answers'.flight = "sent"
    BY <1>1, <2>2, <2>5, PackInvalidates
  <2>4. Reviewing'
    BY <1>30, <2>1, <2>3, <2>5 DEF Reviewing
  <2> QED BY <1>1, <1>17, <1>24, <2>1, <2>3, <2>4, <2>5 DEF Placed, Begun
<1>37. CASE \E r \in saves : Pack!SaveFails(r)
  <2>0. PICK r \in saves : Pack!SaveFails(r)
    BY <1>37
  <2>1. /\ UNCHANGED <<pack, job, rows, restarts, repeats, upload, packs, packPage, answers, at, text, alls, reviews>>
        /\ saves' = saves \ {r}
        /\ trouble' = IF r.pc = "done" /\ trouble # "others" THEN "lost" ELSE trouble
    BY <2>0 DEF Pack!SaveFails
  <2>2. Reviewing'
    BY <1>30, <2>1 DEF Reviewing
  <2>3. \/ trouble' \in {"lost", "others"}
        \/ Unsaved' /\ alls' = {} => Unsaved /\ alls = {}
    <3>1. CASE r.pc = "done"
      BY <2>1, <3>1
    <3>2. CASE r.pc # "done"
      <4>1. r.pc = "sent"
        BY <1>3, <2>0, <3>2 DEF Pack!Save
      <4> QED BY <2>1, <4>1 DEF Unsaved
    <3> QED BY <3>1, <3>2
  <2>4. /\ trouble' \in {"none", "crossed", "lost", "others"}
        /\ (trouble' \notin {"lost", "others"} => trouble \notin {"lost", "others"})
    BY <1>1, <2>1
  <2>5. answers.flight = "none" \/ Begun
    BY <1>12
  <2> QED BY <1>1, <1>12, <1>17, <1>24, <2>1, <2>2, <2>3, <2>4, <2>5 DEF Placed, Begun
<1>38. CASE \E i \in DOMAIN rows, x \in 1 .. Texts : Pack!OtherReviews(i, x)
  <2>1. PICK i \in DOMAIN rows, x \in 1 .. Texts : Pack!OtherReviews(i, x)
    BY <1>38
  <2> DEFINE r == [row |-> i, text |-> x]
  <2>2. /\ Pack!Updated(r, "reviewed") /\ pack = "ready" /\ trouble' = "others" /\ reviews' \in Nat
        /\ UNCHANGED <<pack, job, restarts, repeats, upload, packs, packPage, answers, at, text, saves, alls>>
    BY <1>1, <2>1 DEF Pack!OtherReviews
  <2>3. r \in Pack!Review /\ r.row \in DOMAIN rows
    <3>1. i \in Nat \ {0} /\ Texts \in Nat
      BY <1>1, Limits, RowsOf
    <3> QED BY <3>1 DEF Pack!Review
  <2> HIDE DEF r
  <2>4. DOMAIN rows' = DOMAIN rows
    BY <1>1, <2>2, <2>3, Rewritten
  <2>5. Reviewing' /\ Fresh'
    BY <1>30, <2>2, <2>4 DEF Reviewing, Fresh
  <2> QED BY <1>1, <1>33, <2>2, <2>3, <2>5 DEF Begun
<1> QED
  BY <1>6, <1>7, <1>8, <1>9, <1>10, <1>15, <1>16, <1>22, <1>23, <1>25, <1>26, <1>27, <1>28, <1>29, <1>31, <1>32,
     <1>34, <1>35, <1>36, <1>37, <1>38 DEF Pack!Next

(* What is fresh is as reviewed, and approving all finds the texts as they *)
(* were shown.                                                             *)
LEMMA PackFollows == PackInv => Pack!ReadyIsComplete /\ Pack!ReviewsAreShown /\ Pack!TextsKept
<1> SUFFICES ASSUME PackInv PROVE Pack!ReadyIsComplete /\ Pack!ReviewsAreShown /\ Pack!TextsKept
  OBVIOUS
<1>1. Pack!ReviewsAreShown
  <2> SUFFICES ASSUME trouble \notin {"lost", "others"}, saves = {}, alls = {}, ~answers.stale,
                      NEW p \in answers.data
               PROVE  p = rows
    BY DEF Pack!ReviewsAreShown
  <2> QED BY DEF PackInv, Fresh, Unsaved
<1>2. Pack!TextsKept
  <2> SUFFICES ASSUME NEW b \in alls, Pack!UpdateNext(b), trouble = "none", NEW i \in DOMAIN rows
               PROVE  rows'[i].text = rows[i].text
    BY DEF Pack!TextsKept
  <2>1. PICK r \in b.left : Pack!Updated(r, "approved") /\ b.pc = "sent"
    BY DEF Pack!UpdateNext
  <2>2. rows \in RowSeqs /\ r.row \in DOMAIN rows /\ rows[r.row].text = r.text
    BY <2>1 DEF PackInv, Reviewing, Pack!TypeOK, RowSeqs
  <2>3. r \in Pack!Review
    BY DEF PackInv, Pack!TypeOK, Pack!All
  <2> QED BY <2>1, <2>2, <2>3, Rewritten
<1> QED BY <1>1, <1>2 DEF PackInv, Drafting

-----------------------------------------------------------------------------
(* The pages that read the log. While nothing is removed, an answer of the *)
(* API has the newest of what the log was, and all of it if less than a    *)
(* page.                                                                   *)

Size == Len(log)
EventLists == Events!Entry(SUBSET (1 .. Size))

Newest(a) ==
  \E n \in 0 .. Size :
    /\ a \subseteq 1 .. n
    /\ \A i \in a, k \in (1 .. n) \ a : Events!Older(k, i)
    /\ a # 1 .. n => Cardinality(a) >= PageSize

EventsInv ==
  /\ Events!TypeOK
  /\ removed = {} => \A a \in events.data \cup events.got : Newest(a)

LEMMA EventAnswers ==
  ASSUME NEW S, NEW e \in Events!Entry(S)
  PROVE  /\ Events!Landed(e) \in Events!Entry(S)
         /\ Events!Landed(e).data = e.got /\ Events!Landed(e).got = {}
         /\ Events!Failed(e) \in Events!Entry(S)
         /\ Events!Failed(e).data = e.data /\ Events!Failed(e).got = {}
<1>1. {} \in Events!Maybe(S)
  BY DEF Events!Maybe
<1> QED BY <1>1 DEF Events!Entry, Events!Landed, Events!Failed

LEMMA EventRequests ==
  ASSUME NEW S, NEW e \in Events!Entry(S), NEW late
  PROVE  /\ Events!Send(e) \in Events!Entry(S)
         /\ Events!Send(e).data = e.data /\ Events!Send(e).got = {}
         /\ Events!Mount(e, late) \in {e, Events!Send(e)}
<1>1. {} \in Events!Maybe(S)
  BY DEF Events!Maybe
<1> QED BY <1>1 DEF Events!Entry, Events!Mount, Events!Fetch, Events!Send

LEMMA EventReads ==
  ASSUME NEW S, NEW e \in Events!Entry(S), NEW a \in S
  PROVE  /\ Events!Read(e, a) \in Events!Entry(S)
         /\ Events!Read(e, a).data = e.data /\ Events!Read(e, a).got = {a}
<1>1. {a} \in Events!Maybe(S)
  BY DEF Events!Maybe
<1> QED BY <1>1 DEF Events!Entry, Events!Read

LEMMA EntriesGrow ==
  ASSUME NEW S, NEW T, S \subseteq T, NEW e \in Events!Entry(S)
  PROVE  e \in Events!Entry(T)
<1>1. Events!Maybe(S) \subseteq Events!Maybe(T)
  BY DEF Events!Maybe
<1> QED BY <1>1 DEF Events!Entry

LEMMA LogLength == Events!TypeOK => Size \in Nat /\ Events!Ids = 1 .. Size
<1> SUFFICES ASSUME Events!TypeOK PROVE Size \in Nat /\ Events!Ids = 1 .. Size
  OBVIOUS
<1>1. log \in Seq(Events!Event)
  BY DEF Events!TypeOK
<1> QED BY <1>1, LenProperties DEF Size, Events!Ids

LEMMA LogRow ==
  ASSUME Events!TypeOK, NEW i \in 1 .. Size
  PROVE  log[i] \in Events!Event /\ log[i].created \in Nat
<1>1. log \in Seq(Events!Event) /\ MaxEvents \in Nat
  BY Limits DEF Events!TypeOK
<1>2. log[i] \in Events!Event
  BY <1>1, LenProperties DEF Size
<1> QED BY <1>1, <1>2 DEF Events!Event

(* A page of the newest. Of the events that are not on it, the one with    *)
(* the fewest newer ones has only events of the page above it.             *)
LEMMA LatestIsNewest ==
  ASSUME Events!TypeOK
  PROVE  /\ Events!Latest \subseteq 1 .. Size
         /\ removed = {} => Newest(Events!Latest)
<1>1. Size \in Nat /\ Events!Ids = 1 .. Size /\ PageSize \in Nat
  BY LogLength, Limits
<1>2. Events!Latest \subseteq 1 .. Size
  BY <1>1 DEF Events!Latest
<1>3. ASSUME removed = {} PROVE Newest(Events!Latest)
  <2> DEFINE L == Events!Latest
             N(i) == {j \in 1 .. Size : log[i].created < log[j].created}
  <2>1. \A i : Events!Newer(i) = N(i)
    BY <1>1, <1>3 DEF Events!Newer, Events!Older
  <2>2. L = {i \in 1 .. Size : Cardinality(N(i)) < PageSize}
    BY <1>1, <1>3, <2>1, SameCardinality DEF Events!Latest
  <2>3. \A i \in 1 .. Size : log[i].created \in Nat
    BY LogRow
  <2>4. IsFiniteSet(1 .. Size)
    BY <1>1, FS_Interval
  <2>5. \A i : N(i) \subseteq 1 .. Size /\ IsFiniteSet(N(i)) /\ Cardinality(N(i)) \in Nat
    <3> SUFFICES ASSUME NEW i PROVE N(i) \subseteq 1 .. Size /\ IsFiniteSet(N(i)) /\ Cardinality(N(i)) \in Nat
      OBVIOUS
    <3>1. N(i) \subseteq 1 .. Size
      OBVIOUS
    <3>2. IsFiniteSet(N(i))
      BY <2>4, <3>1, FS_Subset
    <3> QED BY <3>1, <3>2, FS_CardinalityType
  <2> HIDE DEF L
  <2>6. ASSUME NEW i \in L, NEW k \in (1 .. Size) \ L PROVE Events!Older(k, i)
    <3> SUFFICES ASSUME ~Events!Older(k, i) PROVE FALSE
      OBVIOUS
    <3>1. i \in 1 .. Size /\ log[i].created <= log[k].created
      BY <2>2, <2>3 DEF Events!Older
    <3>2. N(k) \subseteq N(i)
      BY <2>3, <3>1
    <3>3. Cardinality(N(k)) <= Cardinality(N(i))
      BY <2>5, <3>2, FS_Subset
    <3>4. Cardinality(N(i)) < PageSize /\ ~(Cardinality(N(k)) < PageSize)
      BY <2>2
    <3>5. Cardinality(N(i)) \in Nat /\ Cardinality(N(k)) \in Nat
      BY <2>5
    <3> HIDE DEF N
    <3> QED BY <1>1, <3>3, <3>4, <3>5
  <2>7. ASSUME L # 1 .. Size PROVE Cardinality(L) >= PageSize
    <3> DEFINE T == {Cardinality(N(k)) : k \in (1 .. Size) \ L}
    <3>1. T \subseteq Nat /\ T # {}
      BY <2>2, <2>5, <2>7
    <3>2. PICK x \in T : \A y \in T : x <= y
      <4> HIDE DEF T
      <4> QED BY <3>1, Least
    <3>3. PICK k \in (1 .. Size) \ L : x = Cardinality(N(k))
      OBVIOUS
    <3>4. \A j \in (1 .. Size) \ L : Cardinality(N(k)) <= Cardinality(N(j))
      BY <3>2, <3>3
    <3>5. ASSUME NEW j \in N(k), j \notin L PROVE FALSE
      <4>1. j \in 1 .. Size /\ N(j) \subseteq N(k) /\ j \notin N(j)
        BY <2>3, <3>5
      <4>2. N(j) # N(k)
        BY <3>5, <4>1
      <4>3. Cardinality(N(j)) <= Cardinality(N(k)) /\ Cardinality(N(j)) # Cardinality(N(k))
        BY <2>5, <4>1, <4>2, FS_Subset
      <4>4. Cardinality(N(k)) <= Cardinality(N(j))
        BY <3>4, <3>5, <4>1
      <4>5. Cardinality(N(j)) \in Nat /\ Cardinality(N(k)) \in Nat
        BY <2>5
      <4> HIDE DEF N
      <4> QED BY <4>3, <4>4, <4>5
    <3>6. N(k) \subseteq L
      BY <3>5
    <3>7. IsFiniteSet(L) /\ Cardinality(L) \in Nat
      <4>1. L \subseteq 1 .. Size
        BY <2>2
      <4> QED BY <2>4, <4>1, FS_Subset, FS_CardinalityType
    <3>8. Cardinality(N(k)) <= Cardinality(L)
      BY <3>6, <3>7, FS_Subset
    <3>9. Cardinality(N(k)) >= PageSize /\ Cardinality(N(k)) \in Nat
      <4>1. ~(Cardinality(N(k)) < PageSize) /\ Cardinality(N(k)) \in Nat
        BY <2>2, <2>5, <3>3
      <4> HIDE DEF N
      <4> QED BY <1>1, <4>1
    <3> HIDE DEF N
    <3> QED BY <1>1, <3>7, <3>8, <3>9
  <2>8. Size \in 0 .. Size /\ L \subseteq 1 .. Size
    BY <1>1, <2>2
  <2> QED BY <2>6, <2>7, <2>8 DEF Newest, L
<1> QED BY <1>2, <1>3

LEMMA EventsInit == Events!Init => EventsInv
<1> SUFFICES ASSUME Events!Init PROVE EventsInv
  OBVIOUS
<1>1. {} \in Events!Maybe(SUBSET Events!Ids)
  BY DEF Events!Maybe
<1>2. Events!NoEntry \in Events!Entry(SUBSET Events!Ids) /\ Events!NoEntry.data = {}
  BY <1>1 DEF Events!NoEntry, Events!Entry
<1>3. events \in Events!Entry(SUBSET Events!Ids) /\ events.data = {} /\ events.got = {}
  BY <1>2, EventRequests DEF Events!Init
<1>4. Events!NoFilter \in Events!Filters
  BY DEF Events!NoFilter, Events!Filters
<1> QED BY <1>3, <1>4 DEF Events!Init, EventsInv, Events!TypeOK

LEMMA EventsStep == EventsInv /\ [Events!Next]_eventVars => EventsInv'
<1> SUFFICES ASSUME EventsInv, [Events!Next]_eventVars PROVE EventsInv'
  OBVIOUS
<1> USE DEF Events!timeline
<1>1. /\ Size \in Nat /\ Events!Ids = 1 .. Size
      /\ logPage \in {"home", "timeline", "other"}
      /\ log \in Seq(Events!Event)
      /\ removed \subseteq 1 .. Size
      /\ events \in EventLists
      /\ filters \in Events!Filters
      /\ event \in {0} \cup 1 .. Size
      /\ removed = {} => \A a \in events.data \cup events.got : Newest(a)
  BY LogLength DEF EventsInv, Events!TypeOK, EventLists
<1>2. CASE \E k \in EventKinds, c \in 1 .. MaxEvents, m \in BOOLEAN : Events!Log(k, c, m)
  <2>1. PICK k \in EventKinds, c \in 1 .. MaxEvents, m \in BOOLEAN : Events!Log(k, c, m)
    BY <1>2
  <2>2. /\ log' = Append(log, [kind |-> k, created |-> c, month |-> m])
        /\ UNCHANGED <<removed, events, logPage, filters, event>>
    BY <2>1 DEF Events!Log
  <2>3. [kind |-> k, created |-> c, month |-> m] \in Events!Event
    BY DEF Events!Event
  <2>4. /\ log' \in Seq(Events!Event) /\ Len(log') = Len(log) + 1
        /\ \A i \in 1 .. Size : log'[i] = log[i]
    BY <1>1, <2>2, <2>3 DEF Size
  <2>5. Events!Ids' = 1 .. Len(log')
    BY <2>4, LenProperties DEF Events!Ids
  <2>6. 1 .. Size \subseteq 1 .. Len(log')
    BY <1>1, <2>4 DEF Size
  <2>7. events' \in Events!Entry(SUBSET (1 .. Len(log')))
    BY <1>1, <2>2, <2>6, EntriesGrow DEF EventLists
  <2>8. Events!TypeOK'
    BY <1>1, <2>2, <2>4, <2>5, <2>6, <2>7 DEF Events!TypeOK
  <2>9. ASSUME NEW a, Newest(a) PROVE Newest(a)'
    <3>1. PICK n \in 0 .. Size :
            /\ a \subseteq 1 .. n
            /\ \A i \in a, o \in (1 .. n) \ a : Events!Older(o, i)
            /\ a # 1 .. n => Cardinality(a) >= PageSize
      BY <2>9 DEF Newest
    <3>2. n \in 0 .. Size' /\ 1 .. n \subseteq 1 .. Size
      BY <1>1, <2>4 DEF Size
    <3>3. \A i \in a, o \in (1 .. n) \ a : Events!Older(o, i)'
      BY <2>4, <3>1, <3>2 DEF Events!Older
    <3> QED BY <3>1, <3>2, <3>3 DEF Newest
  <2> QED BY <1>1, <2>2, <2>8, <2>9 DEF EventsInv
<1>3. ASSUME log' = log, removed' \subseteq 1 .. Size, removed' = {} => removed = {},
             events' \in EventLists, logPage' \in {"home", "timeline", "other"},
             filters' \in Events!Filters, event' \in {0} \cup 1 .. Size,
             removed = {} => \A a \in events'.data \cup events'.got : Newest(a)
      PROVE  EventsInv'
  <2>1. Events!Ids' = 1 .. Size
    BY <1>1, <1>3 DEF Events!Ids
  <2>2. Events!TypeOK'
    BY <1>1, <1>3, <2>1 DEF Events!TypeOK, EventLists
  <2>3. \A a : Newest(a) => Newest(a)'
    BY <1>3 DEF Newest, Size, Events!Older
  <2> QED BY <1>3, <2>2, <2>3 DEF EventsInv
<1>4. CASE \E i \in Events!Ids : Events!Remove(i)
  <2>1. PICK i \in Events!Ids : Events!Remove(i)
    BY <1>4
  <2>2. removed' = removed \cup {i} /\ UNCHANGED <<log, events, logPage, filters, event>>
    BY <2>1 DEF Events!Remove
  <2> QED BY <1>1, <1>3, <2>2
<1>5. CASE Events!ReadEvents
  <2>1. events' = Events!Read(events, Events!Latest) /\ UNCHANGED <<log, removed, logPage, filters, event>>
    BY <1>5 DEF Events!ReadEvents
  <2>2. Events!Latest \in SUBSET (1 .. Size) /\ (removed = {} => Newest(Events!Latest))
    BY LatestIsNewest DEF EventsInv
  <2>3. events' \in EventLists /\ events'.data = events.data /\ events'.got = {Events!Latest}
    <3> DEFINE S == SUBSET (1 .. Size)
    <3>1. events \in Events!Entry(S) /\ Events!Latest \in S
      BY <1>1, <2>2 DEF EventLists
    <3> HIDE DEF S
    <3>2. /\ Events!Read(events, Events!Latest) \in Events!Entry(S)
          /\ Events!Read(events, Events!Latest).data = events.data
          /\ Events!Read(events, Events!Latest).got = {Events!Latest}
      BY <3>1, EventReads
    <3> QED BY <2>1, <3>2 DEF EventLists, S
  <2> QED BY <1>1, <1>3, <2>1, <2>2, <2>3
<1>6. CASE Events!EventsLand \/ Events!EventsFail \/ Events!Poll
  <2>1. /\ events' \in {Events!Landed(events), Events!Failed(events), Events!Send(events)}
        /\ UNCHANGED <<log, removed, logPage, filters, event>>
    BY <1>6 DEF Events!EventsLand, Events!EventsFail, Events!Poll
  <2>2. events' \in EventLists /\ events'.data \cup events'.got \subseteq events.data \cup events.got
    <3>1. CASE events' = Events!Send(events)
      BY <1>1, <3>1, EventRequests DEF EventLists
    <3>2. CASE events' \in {Events!Landed(events), Events!Failed(events)}
      BY <1>1, <3>2, EventAnswers DEF EventLists
    <3> QED BY <2>1, <3>1, <3>2
  <2> QED BY <1>1, <1>3, <2>1, <2>2
<1>7. Events!Page \subseteq 1 .. Size /\ Events!Filtered \subseteq Events!Page /\ Events!List \subseteq Events!Page
  <2>1. Events!Page \subseteq 1 .. Size
    BY <1>1 DEF Events!Page, EventLists, Events!Entry, Events!Maybe
  <2> QED BY <2>1 DEF Events!Filtered, Events!List
<1>8. ASSUME UNCHANGED <<log, removed, events>>, logPage' \in {"home", "timeline", "other"},
             filters' \in Events!Filters, event' \in {0} \cup 1 .. Size
      PROVE  EventsInv'
  BY <1>1, <1>3, <1>8
<1>9. CASE (\E f \in Events!Filters : Events!SetFilter(f)) \/ Events!ClosePanel
  BY <1>1, <1>8, <1>9 DEF Events!SetFilter, Events!ClosePanel
<1>10. CASE (\E i \in Events!Ids : Events!Select(i)) \/ \E older \in BOOLEAN : Events!Step(older)
  <2>1. event' \in 1 .. Size /\ UNCHANGED <<log, removed, events, logPage, filters>>
    <3>1. UNCHANGED <<log, removed, events, logPage, filters>>
      BY <1>10 DEF Events!Select, Events!Step
    <3>2. event' \in Events!Filtered \cup Events!List
      BY <1>10 DEF Events!Select, Events!Step, Events!Beside
    <3> QED BY <1>7, <3>1, <3>2
  <2> QED BY <1>1, <1>8, <2>1
<1>11. ASSUME NEW p \in {"home", "timeline", "other"}, NEW i \in {0} \cup 1 .. Size, NEW late, Events!Show(p, i, late)
       PROVE  EventsInv'
  <2>1. /\ logPage' = p /\ filters' = Events!NoFilter /\ event' = i /\ UNCHANGED <<log, removed>>
        /\ events' = events \/ events' = Events!Mount(events, late)
    BY <1>11 DEF Events!Show
  <2>2. events' \in EventLists /\ events'.data \cup events'.got \subseteq events.data \cup events.got
    BY <1>1, <2>1, EventRequests DEF EventLists
  <2>3. Events!NoFilter \in Events!Filters
    BY DEF Events!NoFilter, Events!Filters
  <2> QED BY <1>1, <1>3, <2>1, <2>2, <2>3
<1>12. CASE \/ \E p \in {"home", "timeline", "other"}, aged \in BOOLEAN : Events!OpenPage(p, aged)
            \/ \E i \in Events!Ids, aged \in BOOLEAN : Events!OpenCitation(i, aged)
            \/ \E i \in Events!Ids, aged \in BOOLEAN : Events!OpenActivity(i, aged)
  BY <1>1, <1>11, <1>12 DEF Events!OpenPage, Events!OpenCitation, Events!OpenActivity
<1>13. CASE UNCHANGED eventVars
  BY <1>1, <1>8, <1>13 DEF eventVars
<1> QED BY <1>2, <1>4, <1>5, <1>6, <1>9, <1>10, <1>12, <1>13 DEF Events!Next

(* What is not on the page is older than all of it; and less than a page   *)
(* is all of the log.                                                      *)
LEMMA EventsFollow == EventsInv => Events!UnlinkedFollowsOlder /\ Events!MonthIsWhole
<1> SUFFICES ASSUME EventsInv, removed = {}, NEW j \in Events!Page
             PROVE  /\ ~Events!Linked(j) => j = 1 \/ \A i \in Events!Page : Events!Older(j - 1, i)
                    /\ Events!Cardinality(Events!Page) < PageSize =>
                         \A k \in EventKinds :
                           Events!ByKind(k) >= Events!Cardinality({i \in 1 .. j : log[i].month /\ log[i].kind = k})
  BY DEF Events!UnlinkedFollowsOlder, Events!MonthIsWhole
<1>1. Size \in Nat /\ PageSize \in Nat
  BY LogLength, Limits DEF EventsInv
<1>2. PICK n \in 0 .. Size :
        /\ Events!Page \subseteq 1 .. n
        /\ \A i \in Events!Page, k \in (1 .. n) \ Events!Page : Events!Older(k, i)
        /\ Events!Page # 1 .. n => Cardinality(Events!Page) >= PageSize
  <2>1. events \in Events!Entry(SUBSET Events!Ids)
    BY DEF EventsInv, Events!TypeOK
  <2>2. PICK a \in events.data : j \in a
    BY DEF Events!Page
  <2>3. Events!Page = a
    BY <2>1, <2>2 DEF Events!Page, Events!Entry, Events!Maybe
  <2>4. Newest(a)
    BY <2>2 DEF EventsInv
  <2> QED BY <2>3, <2>4 DEF Newest
<1>3. n \in Nat /\ j \in 1 .. n
  BY <1>1, <1>2
<1>4. ASSUME ~Events!Linked(j), j # 1, NEW i \in Events!Page PROVE Events!Older(j - 1, i)
  <2>1. j - 1 \in 1 .. n /\ j - 1 \notin Events!Page
    BY <1>3, <1>4 DEF Events!Linked
  <2> QED BY <1>2, <2>1
<1>5. ASSUME Events!Cardinality(Events!Page) < PageSize, NEW k \in EventKinds
      PROVE  Events!ByKind(k) >= Events!Cardinality({i \in 1 .. j : log[i].month /\ log[i].kind = k})
  <2>1. IsFiniteSet(1 .. n)
    BY <1>3, FS_Interval
  <2>2. Events!Page = 1 .. n
    <3>1. Cardinality(Events!Page) \in Nat
      BY <1>2, <2>1, FS_Subset, FS_CardinalityType
    <3>2. Cardinality(Events!Page) < PageSize
      BY <1>5, SameCardinality
    <3> QED BY <1>1, <1>2, <3>1, <3>2
  <2> DEFINE S == {i \in 1 .. j : log[i].month /\ log[i].kind = k}
             T == {i \in Events!Month : log[i].kind = k}
  <2>3. S \subseteq T
    BY <1>3, <2>2 DEF Events!Month
  <2>4. IsFiniteSet(T)
    <3>1. T \subseteq 1 .. n
      BY <2>2 DEF Events!Month
    <3> QED BY <2>1, <3>1, FS_Subset
  <2>5. Cardinality(S) <= Cardinality(T) /\ Cardinality(S) \in Nat /\ Cardinality(T) \in Nat
    <3>1. IsFiniteSet(S)
      BY <2>3, <2>4, FS_Subset
    <3> QED BY <2>3, <2>4, <3>1, FS_Subset, FS_CardinalityType
  <2> QED BY <2>5, SameCardinality DEF Events!ByKind
<1> QED BY <1>4, <1>5

(* Nothing of the filter lies between the neighbours.                      *)
LEMMA StepsStay == EventsInv => Events!StepStays
<1> SUFFICES ASSUME EventsInv, NEW older \in BOOLEAN, Events!Step(older), event \in Events!Filtered
             PROVE  event' \in Events!Filtered /\ Events!Filtered \cap Events!Between(event, event') = {}
  BY DEF Events!StepStays
<1>1. PICK i \in Events!Beside(older) : event' = i
  BY DEF Events!Step
<1>2. Events!List = Events!Filtered
  BY DEF Events!List
<1>3. /\ i \in Events!Filtered
      /\ IF older THEN Events!Older(i, event) ELSE Events!Older(event, i)
      /\ \A j \in Events!Filtered :
           (IF older THEN Events!Older(j, event) ELSE Events!Older(event, j)) =>
             IF older THEN ~Events!Older(i, j) ELSE ~Events!Older(j, i)
  BY <1>1, <1>2 DEF Events!Beside
<1>4. event \in 1 .. Size /\ i \in 1 .. Size /\ \A j \in Events!Filtered : j \in 1 .. Size
  <2>1. Events!Ids = 1 .. Size
    BY LogLength DEF EventsInv
  <2>2. Events!Filtered \subseteq 1 .. Size
    BY <2>1 DEF EventsInv, Events!TypeOK, Events!Entry, Events!Maybe, Events!Page, Events!Filtered
  <2> QED BY <1>3, <2>2
<1>5. \A j \in 1 .. Size : log[j].created \in Nat
  BY LogRow DEF EventsInv
<1>6. \A j \in Events!Filtered : ~\/ Events!Older(event, j) /\ Events!Older(j, i)
                                  \/ Events!Older(i, j) /\ Events!Older(j, event)
  BY <1>3, <1>4, <1>5 DEF Events!Older
<1> QED BY <1>1, <1>3, <1>6 DEF Events!Between

-----------------------------------------------------------------------------
(* The SOC 2 page. Failed events are counted before all of them, so that   *)
(* what was counted is no more than there is, and adds up when it comes.   *)

ControlsInv ==
  /\ Controls!TypeOK
  /\ \A n \in counting : n <= failed
  /\ \A d \in controls.data \cup controls.got : d.failed <= d.logged

LEMMA ControlLists ==
  ASSUME NEW S, NEW e \in Controls!Entry(S)
  PROVE  /\ Controls!Landed(e) \in Controls!Entry(S)
         /\ Controls!Landed(e).data = e.got /\ Controls!Landed(e).got = {} /\ Controls!Landed(e).flight = "none"
         /\ Controls!Failed(e) \in Controls!Entry(S)
         /\ Controls!Failed(e).data = e.data /\ Controls!Failed(e).got = {} /\ Controls!Failed(e).flight = "none"
<1>1. {} \in Controls!Maybe(S)
  BY DEF Controls!Maybe
<1> QED BY <1>1 DEF Controls!Entry, Controls!Landed, Controls!Failed

LEMMA ControlMounts ==
  ASSUME NEW S, NEW e \in Controls!Entry(S), NEW late
  PROVE  /\ Controls!Mount(e, late) \in Controls!Entry(S)
         /\ Controls!Mount(e, late).data = e.data
         /\ Controls!Mount(e, late).got \subseteq e.got
         /\ e.flight = "sent" => Controls!Mount(e, late).flight = "sent"
<1>1. {} \in Controls!Maybe(S)
  BY DEF Controls!Maybe
<1> QED BY <1>1 DEF Controls!Entry, Controls!Mount, Controls!Fetch, Controls!Send

LEMMA ControlReads ==
  ASSUME NEW S, NEW e \in Controls!Entry(S), NEW a \in S
  PROVE  /\ Controls!Read(e, a) \in Controls!Entry(S)
         /\ Controls!Read(e, a).data = e.data /\ Controls!Read(e, a).got = {a} /\ Controls!Read(e, a).flight = "read"
<1>1. {a} \in Controls!Maybe(S)
  BY DEF Controls!Maybe
<1> QED BY <1>1 DEF Controls!Entry, Controls!Read

LEMMA ControlsInit == Controls!Init => ControlsInv
<1>1. {} \in Controls!Maybe(Controls!Figures) /\ {} \in Controls!Maybe(Nat) /\ {} \in Controls!Maybe(Controls!Families)
  BY DEF Controls!Maybe
<1>2. Controls!NoEntry \in Controls!Entry(Controls!Figures) /\ Controls!NoEntry.data \cup Controls!NoEntry.got = {}
  BY <1>1 DEF Controls!NoEntry, Controls!Entry
<1>3. 0 \in Nat /\ 0 \in 0 .. 0
  OBVIOUS
<1> QED BY <1>1, <1>2, <1>3 DEF ControlsInv, Controls!Init, Controls!TypeOK

LEMMA ControlsStep == ControlsInv /\ [Controls!Next]_controlVars => ControlsInv'
<1> SUFFICES ASSUME ControlsInv, [Controls!Next]_controlVars PROVE ControlsInv'
  OBVIOUS
<1>1. /\ logged \in Nat /\ failed \in 0 .. logged
      /\ controls \in Controls!Entry(Controls!Figures) /\ counting \in Controls!Maybe(Nat)
      /\ counting # {} => controls.flight = "sent"
      /\ soc2Page \in BOOLEAN /\ focus \in Controls!Maybe(Controls!Families) /\ filter \in {"all", "live", "guidance"}
      /\ \A n \in counting : n <= failed
      /\ \A d \in controls.data \cup controls.got : d.failed <= d.logged
  BY DEF ControlsInv, Controls!TypeOK
<1>2. {} \in Controls!Maybe(Nat) /\ {failed} \in Controls!Maybe(Nat) /\ {} \in Controls!Maybe(Controls!Families)
  BY <1>1 DEF Controls!Maybe
<1>3. CASE \E f \in BOOLEAN : Controls!Log(f)
  BY <1>1, <1>3 DEF Controls!Log, ControlsInv, Controls!TypeOK, Controls!Maybe
<1>4. CASE \E p, late \in BOOLEAN : Controls!OpenPage(p, late)
  <2>1. PICK p \in BOOLEAN, late \in BOOLEAN : Controls!OpenPage(p, late)
    BY <1>4
  <2>2. /\ controls' \in Controls!Entry(Controls!Figures) /\ controls'.data = controls.data
        /\ controls'.got \subseteq controls.got
        /\ controls.flight = "sent" => controls'.flight = "sent"
    BY <1>1, <2>1, ControlMounts DEF Controls!OpenPage
  <2>3. UNCHANGED <<logged, failed, counting>> /\ soc2Page' = p /\ focus' = {} /\ filter' = "all"
    BY <2>1 DEF Controls!OpenPage
  <2>4. Controls!TypeOK'
    BY <1>1, <1>2, <2>2, <2>3 DEF Controls!TypeOK
  <2>5. \A d \in (controls.data \cup controls.got)' : d.failed <= d.logged
    BY <1>1, <2>2
  <2> QED BY <1>1, <2>3, <2>4, <2>5 DEF ControlsInv
<1>5. CASE \/ \E f \in Controls!Families : Controls!Focus(f)
           \/ \E e \in {"all", "live", "guidance"} : Controls!SetFilter(e)
  <2>1. \A f \in Controls!Families : {f} \in Controls!Maybe(Controls!Families)
    BY DEF Controls!Maybe
  <2> QED BY <1>1, <1>2, <1>5, <2>1 DEF Controls!Focus, Controls!SetFilter, ControlsInv, Controls!TypeOK
<1>6. CASE Controls!CountErrors
  BY <1>1, <1>2, <1>6 DEF Controls!CountErrors, ControlsInv, Controls!TypeOK
<1>7. CASE Controls!CountEvents
  <2>1. PICK n \in counting : controls' = Controls!Read(controls, [failed |-> n, logged |-> logged])
    BY <1>7 DEF Controls!CountEvents
  <2> DEFINE d == [failed |-> n, logged |-> logged]
  <2>2. n \in Nat /\ n <= failed /\ d \in Controls!Figures /\ d.failed <= d.logged
    BY <1>1, <2>1 DEF Controls!Maybe, Controls!Figures
  <2> HIDE DEF d
  <2>3. controls' \in Controls!Entry(Controls!Figures) /\ controls'.data = controls.data /\ controls'.got = {d}
    BY <1>1, <2>1, <2>2, ControlReads DEF d
  <2> QED BY <1>1, <1>2, <1>7, <2>2, <2>3 DEF Controls!CountEvents, ControlsInv, Controls!TypeOK
<1>8. CASE Controls!ControlsLand
  BY <1>1, <1>2, <1>8, ControlLists DEF Controls!ControlsLand, ControlsInv, Controls!TypeOK
<1>9. CASE Controls!ControlsFail
  BY <1>1, <1>2, <1>9, ControlLists DEF Controls!ControlsFail, ControlsInv, Controls!TypeOK
<1>10. CASE UNCHANGED controlVars
  BY <1>1, <1>10 DEF controlVars, ControlsInv, Controls!TypeOK
<1> QED BY <1>3, <1>4, <1>5, <1>6, <1>7, <1>8, <1>9, <1>10 DEF Controls!Next

(* No control that is shown has more failed events than events.            *)
LEMMA ControlsFollow == ControlsInv => Controls!EvidenceAddsUp
BY DEF ControlsInv, Controls!EvidenceAddsUp

-----------------------------------------------------------------------------
(* The tab of plans: what its queries have read the plan has been.         *)

PlansInv == Plans!TypeOK /\ plan \in had

LEMMA PlanAnswers ==
  ASSUME NEW e \in Plans!Entry(Plans!Plans)
  PROVE  /\ Plans!Landed(e) \in Plans!Entry(Plans!Plans)
         /\ Plans!Landed(e).data = e.got /\ Plans!Landed(e).got = {}
         /\ Plans!Failed(e) \in Plans!Entry(Plans!Plans)
         /\ Plans!Failed(e).data = e.data /\ Plans!Failed(e).got = {}
<1>1. {} \in Plans!Maybe(Plans!Plans)
  BY DEF Plans!Maybe
<1> QED BY <1>1 DEF Plans!Entry, Plans!Landed, Plans!Failed

LEMMA PlanRequests ==
  ASSUME NEW e \in Plans!Entry(Plans!Plans), NEW late
  PROVE  /\ Plans!Mount(e, late) \in Plans!Entry(Plans!Plans)
         /\ Plans!Mount(e, late).data = e.data /\ Plans!Mount(e, late).got \subseteq e.got
         /\ Plans!Send(e) \in Plans!Entry(Plans!Plans)
         /\ Plans!Send(e).data = e.data /\ Plans!Send(e).got = {}
<1>1. {} \in Plans!Maybe(Plans!Plans)
  BY DEF Plans!Maybe
<1> QED BY <1>1 DEF Plans!Entry, Plans!Mount, Plans!Fetch, Plans!Send

LEMMA PlanReads ==
  ASSUME NEW e \in Plans!Entry(Plans!Plans), NEW p \in Plans!Plans
  PROVE  /\ Plans!Read(e, p) \in Plans!Entry(Plans!Plans)
         /\ Plans!Read(e, p).data = e.data /\ Plans!Read(e, p).got = {p}
<1>1. {p} \in Plans!Maybe(Plans!Plans)
  BY DEF Plans!Maybe
<1> QED BY <1>1 DEF Plans!Entry, Plans!Read

LEMMA NoPlan ==
  /\ Plans!NoEntry \in Plans!Entry(Plans!Plans)
  /\ Plans!NoEntry.data = {} /\ Plans!NoEntry.got = {}
<1>1. {} \in Plans!Maybe(Plans!Plans)
  BY DEF Plans!Maybe
<1> QED BY <1>1 DEF Plans!Entry, Plans!NoEntry

LEMMA PlansInit == Plans!Init => PlansInv
<1> SUFFICES ASSUME Plans!Init PROVE PlansInv
  OBVIOUS
<1>1. shown = Plans!Send(Plans!NoEntry) /\ poll = Plans!NoEntry
  BY DEF Plans!Init
<1>2. shown \in Plans!Entry(Plans!Plans) /\ poll \in Plans!Entry(Plans!Plans)
  BY <1>1, NoPlan, PlanRequests
<1>3. shown.data = {} /\ shown.got = {} /\ poll.data = {} /\ poll.got = {}
  BY <1>1, NoPlan, PlanRequests
<1>4. {} \in Plans!Maybe(Plans!Paid)
  BY DEF Plans!Maybe
<1> QED BY <1>2, <1>3, <1>4 DEF PlansInv, Plans!Init, Plans!TypeOK, Plans!Plans

LEMMA PlansStep == PlansInv /\ [Plans!Next]_planVars => PlansInv'
<1> SUFFICES ASSUME PlansInv, [Plans!Next]_planVars PROVE PlansInv'
  OBVIOUS
<1>1. /\ plan \in Plans!Plans /\ had \subseteq Plans!Plans /\ plan \in had
      /\ billingPage \in {"billing", "elsewhere", "away"}
      /\ shown \in Plans!Entry(Plans!Plans) /\ poll \in Plans!Entry(Plans!Plans)
      /\ success \in Plans!Maybe(Plans!Paid)
      /\ shown.data \subseteq had /\ shown.got \subseteq had
      /\ poll.data \subseteq had /\ poll.got \subseteq had
  BY DEF PlansInv, Plans!TypeOK
<1>2. {} \in Plans!Maybe(Plans!Paid) /\ \A p \in Plans!Paid : {p} \in Plans!Maybe(Plans!Paid)
  BY DEF Plans!Maybe
<1>3. /\ plan' \in Plans!Plans /\ had' \subseteq Plans!Plans /\ plan' \in had'
      /\ billingPage' \in {"billing", "elsewhere", "away"}
      /\ success' \in Plans!Maybe(Plans!Paid)
      /\ had \subseteq had'
  <2>1. CASE UNCHANGED <<plan, had>>
    <3>1. billingPage' \in {"billing", "elsewhere", "away"}
      BY <1>1, <2>1 DEF Plans!Next, planVars, Plans!OpenTab, Plans!LeaveTab, Plans!Checkout, Plans!Return,
           Plans!Abandon, Plans!Dismiss, Plans!Poll, Plans!ReadPoll, Plans!PollLands, Plans!PollFails,
           Plans!ReadPlan, Plans!PlanLands, Plans!PlanFails, Plans!PlanBecomes
    <3>2. success' \in Plans!Maybe(Plans!Paid)
      BY <1>1, <1>2, <2>1 DEF Plans!Next, planVars, Plans!OpenTab, Plans!LeaveTab, Plans!Checkout, Plans!Return,
           Plans!Abandon, Plans!Dismiss, Plans!Poll, Plans!ReadPoll, Plans!PollLands, Plans!PollFails,
           Plans!ReadPlan, Plans!PlanLands, Plans!PlanFails, Plans!PlanBecomes
    <3> QED BY <1>1, <2>1, <3>1, <3>2
  <2>2. CASE \E p \in Plans!Paid \cup {"free"} : Plans!PlanBecomes(p)
    BY <1>1, <2>2 DEF Plans!PlanBecomes, Plans!Plans, Plans!Paid
  <2>3. UNCHANGED <<plan, had>> \/ \E p \in Plans!Paid \cup {"free"} : Plans!PlanBecomes(p)
    BY DEF Plans!Next, planVars, Plans!OpenTab, Plans!LeaveTab, Plans!Checkout, Plans!Return,
         Plans!Abandon, Plans!Dismiss, Plans!Poll, Plans!ReadPoll, Plans!PollLands, Plans!PollFails,
         Plans!ReadPlan, Plans!PlanLands, Plans!PlanFails
  <2> QED BY <2>1, <2>2, <2>3
<1>4. /\ shown' \in Plans!Entry(Plans!Plans)
      /\ shown'.data \subseteq had /\ shown'.got \subseteq had
  <2>1. CASE \E aged \in BOOLEAN : Plans!OpenTab(aged)
    BY <1>1, <2>1, PlanRequests DEF Plans!OpenTab
  <2>2. CASE Plans!Load
    BY <1>1, <2>2, NoPlan, PlanRequests DEF Plans!Load
  <2>3. CASE Plans!ReadPlan
    BY <1>1, <2>3, PlanReads DEF Plans!ReadPlan
  <2>4. CASE Plans!PlanLands \/ Plans!PlanFails
    BY <1>1, <2>4, PlanAnswers DEF Plans!PlanLands, Plans!PlanFails
  <2>5. CASE UNCHANGED shown
    BY <1>1, <2>5
  <2> QED BY <2>1, <2>2, <2>3, <2>4, <2>5 DEF Plans!Next, planVars, Plans!LeaveTab, Plans!Checkout, Plans!Return,
           Plans!Abandon, Plans!Dismiss, Plans!Poll, Plans!ReadPoll, Plans!PollLands, Plans!PollFails,
           Plans!PlanBecomes
<1>5. /\ poll' \in Plans!Entry(Plans!Plans)
      /\ poll'.data \subseteq had /\ poll'.got \subseteq had
  <2>1. CASE Plans!Poll
    BY <1>1, <2>1, PlanRequests DEF Plans!Poll
  <2>2. CASE Plans!Load
    BY <1>1, <2>2, NoPlan DEF Plans!Load
  <2>3. CASE Plans!ReadPoll
    BY <1>1, <2>3, PlanReads DEF Plans!ReadPoll
  <2>4. CASE Plans!PollLands \/ Plans!PollFails
    BY <1>1, <2>4, PlanAnswers DEF Plans!PollLands, Plans!PollFails
  <2>5. CASE UNCHANGED poll
    BY <1>1, <2>5
  <2> QED BY <2>1, <2>2, <2>3, <2>4, <2>5 DEF Plans!Next, planVars, Plans!OpenTab, Plans!LeaveTab, Plans!Checkout,
           Plans!Return, Plans!Abandon, Plans!Dismiss, Plans!ReadPlan, Plans!PlanLands, Plans!PlanFails,
           Plans!PlanBecomes
<1> QED BY <1>3, <1>4, <1>5 DEF PlansInv, Plans!TypeOK

(* What is called active was read from the plan.                           *)
LEMMA PlansFollow == PlansInv => Plans!ActivePlanWasReached
BY DEF PlansInv, Plans!TypeOK, Plans!ActivePlanWasReached, Plans!SaysActive, Plans!Confirmed, Plans!Maybe

-----------------------------------------------------------------------------
(* The cards of the account. The tab's user has the name in force, but     *)
(* between a save and its answer; and a change is sent with the password   *)
(* that was checked.                                                       *)

SaveStep == [pc : {"sent", "saved"}, name : Names, here : BOOLEAN]
ChangeStep == [pc : {"check", "update", "changed"}, current : Passwords, new : Passwords]

Named ==
  /\ nameSave # Cards!Idle /\ nameSave.here => user # {}
  /\ user # {} /\ ~astray =>
       IF nameSave.pc = "saved" /\ nameSave.here THEN fullName = nameSave.name ELSE user = {fullName}

Checked == change.pc = "update" => password = change.current \/ raced

CardsInv == Cards!TypeOK /\ Named /\ Checked

LEMMA CardPasswords ==
  /\ {} \in Cards!Maybe(Passwords) /\ {} \in Cards!Maybe(Names)
  /\ \A n \in Names : {n} \in Cards!Maybe(Names)
<1>1. {} \in Cards!Maybe(Passwords) /\ {} \in Cards!Maybe(Names)
  BY DEF Cards!Maybe
<1>2. ASSUME NEW n \in Names PROVE {n} \in Cards!Maybe(Names)
  BY DEF Cards!Maybe
<1> QED BY <1>1, <1>2

LEMMA CardsInit == Cards!Init => CardsInv
<1> SUFFICES ASSUME Cards!Init PROVE CardsInv
  OBVIOUS
<1>1. moves \in 0 .. MaxMoves
  <2>1. moves = 0 /\ MaxMoves \in Nat
    BY Limits DEF Cards!Init
  <2> QED BY <2>1
<1>2. Cards!Blank \in Cards!Typed
  BY CardPasswords DEF Cards!Blank, Cards!Typed
<1>3. Cards!TypeOK
  BY <1>1, <1>2, CardPasswords DEF Cards!Init, Cards!TypeOK
<1> QED BY <1>3 DEF CardsInv, Cards!Init, Named, Checked, Cards!Idle

LEMMA CardsStep == CardsInv /\ [Cards!Next]_cardVars => CardsInv'
<1> SUFFICES ASSUME CardsInv, [Cards!Next]_cardVars PROVE CardsInv'
  OBVIOUS
<1> USE DEF Cards!profile, Cards!card, Cards!history
<1>1. /\ fullName \in Names /\ password \in Passwords
      /\ shownName \in Cards!Maybe(Names) /\ user \in Cards!Maybe(Names)
      /\ field \in Names
      /\ nameSave = Cards!Idle \/ nameSave \in SaveStep
      /\ typed \in Cards!Typed
      /\ change = Cards!Idle \/ change \in ChangeStep
      /\ astray \in BOOLEAN /\ raced \in BOOLEAN
      /\ moves \in 0 .. MaxMoves
      /\ user = {} => typed = Cards!Blank /\ change = Cards!Idle
      /\ change # Cards!Idle => change.current # change.new
      /\ Named /\ Checked
  BY DEF CardsInv, Cards!TypeOK, SaveStep, ChangeStep
<1>2. Cards!Blank \in Cards!Typed
  BY CardPasswords DEF Cards!Blank, Cards!Typed
<1>3. moves' \in 0 .. MaxMoves
  <2>1. CASE UNCHANGED moves
    BY <1>1, <2>1
  <2>2. CASE Cards!Move
    <3>1. moves \in 0 .. MaxMoves /\ moves < MaxMoves /\ moves' = moves + 1 /\ MaxMoves \in Nat
      BY <1>1, <2>2, Limits DEF Cards!Move
    <3> QED BY <3>1
  <2> QED BY <2>1, <2>2 DEF Cards!Next, cardVars, Cards!OpenTab, Cards!LeaveTab, Cards!TypeName, Cards!Save,
           Cards!UpdateName, Cards!Saved, Cards!SaveFails, Cards!RenameElsewhere, Cards!TypeCurrent, Cards!TypeNew,
           Cards!TypeConfirm, Cards!Submit, Cards!CheckPassword, Cards!CheckRefused, Cards!UpdatePassword,
           Cards!Changed, Cards!ChangeFails, Cards!ChangeElsewhere
<1> DEFINE Types == /\ fullName' \in Names /\ password' \in Passwords
                    /\ shownName' \in Cards!Maybe(Names) /\ user' \in Cards!Maybe(Names)
                    /\ field' \in Names
                    /\ nameSave' = Cards!Idle \/ nameSave' \in SaveStep
                    /\ typed' \in Cards!Typed
                    /\ change' = Cards!Idle \/ change' \in ChangeStep
                    /\ astray' \in BOOLEAN /\ raced' \in BOOLEAN
                    /\ user' = {} => typed' = Cards!Blank /\ change' = Cards!Idle
                    /\ change' # Cards!Idle => change'.current # change'.new
<1> SUFFICES Types /\ Named' /\ Checked'
  BY <1>3 DEF CardsInv, Cards!TypeOK, SaveStep, ChangeStep
<1>4. CASE Cards!OpenTab
  <2>1. nameSave # Cards!Idle => /\ nameSave' \in SaveStep /\ ~nameSave'.here
    BY <1>1, <1>4 DEF Cards!OpenTab, SaveStep
  <2>2. nameSave = Cards!Idle => nameSave' = Cards!Idle
    BY <1>4 DEF Cards!OpenTab
  <2>3. Types
    BY <1>1, <1>4, <2>1, <2>2, CardPasswords DEF Cards!OpenTab
  <2>4. Named'
    BY <1>4, <2>1, <2>2 DEF Cards!OpenTab, Named, Cards!Idle
  <2> QED BY <1>1, <1>4, <2>3, <2>4 DEF Cards!OpenTab, Checked
<1>5. CASE Cards!LeaveTab
  <2>1. nameSave' = Cards!Idle \/ nameSave' \in SaveStep
    BY <1>1, <1>5 DEF Cards!LeaveTab, SaveStep
  <2> QED BY <1>1, <1>2, <1>5, <2>1, CardPasswords DEF Cards!LeaveTab, Named, Checked
<1>6. CASE \E n \in Names : Cards!TypeName(n)
  BY <1>1, <1>6 DEF Cards!TypeName, Named, Checked
<1>7. CASE Cards!Save
  <2>1. nameSave' \in SaveStep /\ nameSave'.pc = "sent"
    BY <1>1, <1>7 DEF Cards!Save, SaveStep
  <2>2. nameSave.pc = "idle"
    BY <1>7 DEF Cards!Save, Cards!Idle
  <2> QED BY <1>1, <1>7, <2>1, <2>2 DEF Cards!Save, Named, Checked
<1>8. CASE Cards!UpdateName
  <2>1. nameSave \in SaveStep
    BY <1>1, <1>8 DEF Cards!UpdateName, Cards!Idle
  <2>2. /\ nameSave' \in SaveStep /\ nameSave'.pc = "saved" /\ nameSave'.here = nameSave.here
        /\ nameSave'.name = nameSave.name /\ nameSave.name \in Names /\ nameSave.here \in BOOLEAN
    BY <1>8, <2>1 DEF Cards!UpdateName, SaveStep
  <2>3. Types
    BY <1>1, <1>8, <2>2 DEF Cards!UpdateName
  <2>4. Named'
    <3>1. nameSave # Cards!Idle
      BY <1>8 DEF Cards!UpdateName, Cards!Idle
    <3>2. nameSave.here => user # {}
      BY <1>1, <3>1 DEF Named
    <3>3. fullName' = nameSave.name /\ user' = user /\ (~astray' => nameSave.here)
      BY <1>8, <2>2 DEF Cards!UpdateName
    <3> QED BY <2>2, <3>2, <3>3 DEF Named
  <2> QED BY <1>1, <1>8, <2>3, <2>4 DEF Cards!UpdateName, Checked
<1>9. CASE Cards!Saved
  <2>1. nameSave \in SaveStep
    BY <1>1, <1>9 DEF Cards!Saved, Cards!Idle
  <2>2. nameSave.name \in Names /\ nameSave.here \in BOOLEAN /\ nameSave.pc = "saved"
    BY <1>9, <2>1 DEF Cards!Saved, SaveStep
  <2>3. /\ nameSave' = Cards!Idle /\ shownName' = {nameSave.name}
        /\ user' = IF nameSave.here THEN {nameSave.name} ELSE user
        /\ UNCHANGED <<fullName, password, field, typed, change, astray, raced>>
    BY <1>9 DEF Cards!Saved
  <2>4. shownName' \in Cards!Maybe(Names) /\ user' \in Cards!Maybe(Names)
    BY <1>1, <2>2, <2>3, CardPasswords
  <2>5. user' = {} => user = {}
    BY <2>3
  <2>6. Types
    BY <1>1, <2>3, <2>4, <2>5
  <2>7. nameSave'.pc = "idle"
    BY <2>3 DEF Cards!Idle
  <2>8. Named'
    <3>1. CASE nameSave.here
      <4>1. ~astray => fullName = nameSave.name
        BY <1>1, <2>2, <3>1 DEF Named, Cards!Idle
      <4>2. user' = {nameSave.name} /\ fullName' = fullName /\ astray' = astray
        BY <2>3, <3>1
      <4> QED BY <2>3, <2>7, <4>1, <4>2 DEF Named
    <3>2. CASE ~nameSave.here
      BY <1>1, <2>2, <2>3, <2>7, <3>2 DEF Named
    <3> QED BY <3>1, <3>2
  <2> QED BY <1>1, <2>3, <2>6, <2>8 DEF Checked
<1>10. CASE Cards!SaveFails
  <2>1. nameSave' = Cards!Idle /\ nameSave'.pc = "idle"
    BY <1>10 DEF Cards!SaveFails, Cards!Idle
  <2> QED BY <1>1, <1>10, <2>1 DEF Cards!SaveFails, Named, Checked
<1>11. CASE \E n \in Names : Cards!RenameElsewhere(n)
  BY <1>1, <1>11 DEF Cards!RenameElsewhere, Named, Checked
<1>12. CASE \E p \in Cards!Maybe(Passwords) : Cards!TypeCurrent(p) \/ Cards!TypeNew(p) \/ Cards!TypeConfirm(p)
  <2>1. typed' \in Cards!Typed /\ user # {}
    <3>1. PICK p \in Cards!Maybe(Passwords) :
            typed' \in {[typed EXCEPT !.current = p], [typed EXCEPT !.new = p], [typed EXCEPT !.confirm = p]}
      BY <1>12 DEF Cards!TypeCurrent, Cards!TypeNew, Cards!TypeConfirm
    <3>2. typed' \in Cards!Typed
      BY <1>1, <3>1 DEF Cards!Typed
    <3>3. user # {}
      BY <1>12 DEF Cards!TypeCurrent, Cards!TypeNew, Cards!TypeConfirm
    <3> QED BY <3>2, <3>3
  <2>2. UNCHANGED <<fullName, password, shownName, user, field, nameSave, change, astray, raced>>
    BY <1>12 DEF Cards!TypeCurrent, Cards!TypeNew, Cards!TypeConfirm
  <2> QED BY <1>1, <2>1, <2>2 DEF Named, Checked
<1>13. CASE Cards!Submit
  <2>1. PICK c \in typed.current, n \in typed.new : change' = [pc |-> "check", current |-> c, new |-> n]
    BY <1>13 DEF Cards!Submit
  <2>2. typed.current \in Cards!Maybe(Passwords) /\ typed.new \in Cards!Maybe(Passwords)
    BY <1>1 DEF Cards!Typed
  <2>3. c \in Passwords /\ n \in Passwords /\ c # n
    BY <1>13, <2>1, <2>2 DEF Cards!Submit, Cards!Maybe
  <2>4. change' \in ChangeStep /\ change'.pc = "check" /\ change'.current # change'.new
    BY <2>1, <2>3 DEF ChangeStep
  <2>5. user # {}
    BY <1>1, <1>13, <2>1 DEF Cards!Blank
  <2> QED BY <1>1, <1>13, <2>4, <2>5 DEF Cards!Submit, Named, Checked
<1>14. CASE Cards!CheckPassword
  <2>1. change \in ChangeStep /\ change # Cards!Idle
    BY <1>1, <1>14 DEF Cards!CheckPassword, Cards!Idle
  <2>2. change' \in ChangeStep /\ change'.pc = "update" /\ change'.current = change.current /\ change'.new = change.new
    BY <1>14, <2>1 DEF Cards!CheckPassword, ChangeStep
  <2> QED BY <1>1, <1>14, <2>1, <2>2, CardPasswords DEF Cards!CheckPassword, Named, Checked
<1>15. CASE Cards!CheckRefused
  BY <1>1, <1>15 DEF Cards!CheckRefused, Cards!Idle, Named, Checked
<1>16. CASE Cards!UpdatePassword
  <2>1. change \in ChangeStep /\ change # Cards!Idle
    BY <1>1, <1>16 DEF Cards!UpdatePassword, Cards!Idle
  <2>2. /\ change' \in ChangeStep /\ change'.pc = "changed" /\ change'.current = change.current
        /\ change'.new = change.new /\ change.new \in Passwords
    BY <1>16, <2>1 DEF Cards!UpdatePassword, ChangeStep
  <2> QED BY <1>1, <1>16, <2>1, <2>2 DEF Cards!UpdatePassword, Named, Checked
<1>17. CASE Cards!Changed
  BY <1>1, <1>2, <1>17 DEF Cards!Changed, Cards!Idle, Named, Checked
<1>18. CASE Cards!ChangeFails
  BY <1>1, <1>18 DEF Cards!ChangeFails, Cards!Idle, Named, Checked
<1>19. CASE \E p \in Passwords : Cards!ChangeElsewhere(p)
  BY <1>1, <1>19 DEF Cards!ChangeElsewhere, Named, Checked
<1>20. CASE UNCHANGED cardVars
  BY <1>1, <1>20 DEF cardVars, Named, Checked
<1> QED
  BY <1>4, <1>5, <1>6, <1>7, <1>8, <1>9, <1>10, <1>11, <1>12, <1>13, <1>14, <1>15, <1>16, <1>17, <1>18, <1>19, <1>20
     DEF Cards!Next

LEMMA CardsFollow == CardsInv => Cards!FieldIsSaved /\ Cards!CurrentGiven
<1> SUFFICES ASSUME CardsInv PROVE Cards!FieldIsSaved /\ Cards!CurrentGiven
  OBVIOUS
<1>1. Cards!FieldIsSaved
  <2> SUFFICES ASSUME user # {}, nameSave = Cards!Idle, ~Cards!Dirty, ~astray PROVE field = fullName
    BY DEF Cards!FieldIsSaved
  <2>1. nameSave.pc = "idle"
    BY DEF Cards!Idle
  <2>2. user = {fullName}
    BY <2>1 DEF CardsInv, Named
  <2> QED BY <2>2 DEF Cards!Dirty
<1>2. Cards!CurrentGiven
  BY DEF CardsInv, Checked, Cards!CurrentGiven, Cards!UpdatePassword
<1> QED BY <1>1, <1>2

-----------------------------------------------------------------------------
(* The palette lists no more items than there are.                         *)

PaletteInv == Palette!TypeOK /\ Palette!OneMatchIsHighlighted

ListedFit ==
  /\ Cardinality(Palette!Listed) \in 0 .. Len(Items)
  /\ Palette!Listed # {} => Cardinality(Palette!Listed) > 0

LEMMA ItemsListed ==
  /\ Len(Items) \in Nat /\ DOMAIN Items = 1 .. Len(Items)
  /\ ListedFit
<1>1. Len(Items) \in Nat /\ DOMAIN Items = 1 .. Len(Items)
  BY Limits, LenProperties
<1>2. IsFiniteSet(1 .. Len(Items)) /\ Cardinality(1 .. Len(Items)) = Len(Items)
  <2>1. 1 \in Int /\ Len(Items) \in Int
    BY <1>1
  <2>2. IsFiniteSet(1 .. Len(Items)) /\ Cardinality(1 .. Len(Items)) = IF 1 > Len(Items) THEN 0 ELSE Len(Items) - 1 + 1
    BY <2>1, FS_Interval, Zenon
  <2> QED BY <1>1, <2>2
<1>3. Palette!Listed \subseteq 1 .. Len(Items)
  BY <1>1 DEF Palette!Listed
<1>4. /\ IsFiniteSet(Palette!Listed)
      /\ Cardinality(Palette!Listed) <= Len(Items)
  BY <1>2, <1>3, FS_Subset
<1>5. Cardinality(Palette!Listed) \in Nat
  BY <1>4, FS_CardinalityType
<1>6. Palette!Listed # {} => Cardinality(Palette!Listed) # 0
  BY <1>4, FS_EmptySet
<1> QED BY <1>1, <1>4, <1>5, <1>6 DEF ListedFit

LEMMA SomeItems ==
  ASSUME NEW v \in Palette!Views
  PROVE  Len(Items) \in Nat /\ Len(Items) > 0
<1>1. PICK i \in DOMAIN Items : v = Items[i]
  BY DEF Palette!Views
<1> QED BY <1>1, ItemsListed

LEMMA PaletteInit == Palette!Init => PaletteInv
<1> SUFFICES ASSUME Palette!Init PROVE PaletteInv
  OBVIOUS
<1>1. Len(Items) \in Nat /\ Len(Items) > 0
  BY SomeItems DEF Palette!Init
<1>2. index \in -1 .. Len(Items) - 1
  <2>1. index = 0
    BY DEF Palette!Init
  <2> QED BY <1>1, <2>1
<1>3. query \in Palette!Queries /\ path \in Palette!Views /\ nav = FALSE /\ open = FALSE
  BY Limits DEF Palette!Init, Palette!Queries
<1> QED BY <1>2, <1>3 DEF PaletteInv, Palette!TypeOK, Palette!OneMatchIsHighlighted

LEMMA PaletteStep == PaletteInv /\ [Palette!Next]_paletteVars => PaletteInv'
<1> SUFFICES ASSUME PaletteInv, [Palette!Next]_paletteVars PROVE PaletteInv'
  OBVIOUS
<1> DEFINE n == Cardinality(Palette!Listed)
<1>1. /\ path \in Palette!Views /\ nav \in BOOLEAN /\ open \in BOOLEAN /\ query \in Palette!Queries
      /\ index \in -1 .. Len(Items) - 1
      /\ open /\ Palette!Listed # {} => index \in 0 .. n - 1
  BY SameCardinality DEF PaletteInv, Palette!TypeOK, Palette!OneMatchIsHighlighted
<1>2. Len(Items) \in Nat /\ Len(Items) > 0
  BY <1>1, SomeItems
<1>3. n \in 0 .. Len(Items) /\ (Palette!Listed # {} => n > 0)
  BY ItemsListed DEF ListedFit
<1>4. n' \in 0 .. Len(Items) /\ (Palette!Listed' # {} => n' > 0)
  <2>1. ListedFit'
    BY ItemsListed, PTL
  <2> QED BY <2>1 DEF ListedFit
<1>5. UNCHANGED query => Palette!Listed' = Palette!Listed
  BY DEF Palette!Listed
<1> HIDE DEF n
<1>7. path' \in Palette!Views /\ nav' \in BOOLEAN /\ open' \in BOOLEAN /\ query' \in Palette!Queries
  <2>1. \A i \in Palette!Listed : Items[i] \in Palette!Views
    BY DEF Palette!Listed, Palette!Views
  <2>2. "" \in Palette!Queries
    BY Limits DEF Palette!Queries
  <2>3. CASE \/ Palette!OpenPalette
             \/ \E escape \in BOOLEAN : Palette!ClosePalette(escape)
             \/ \E q \in Palette!Queries : Palette!Type(q)
    BY <1>1, <2>2, <2>3 DEF Palette!OpenPalette, Palette!ClosePalette, Palette!Type
  <2>4. CASE \/ Palette!ArrowDown
             \/ Palette!ArrowUp
             \/ \E i \in 0 .. Len(Items) - 1 : Palette!Hover(i)
             \/ UNCHANGED paletteVars
    BY <1>1, <2>4 DEF Palette!ArrowDown, Palette!ArrowUp, Palette!Hover, paletteVars
  <2>5. CASE Palette!Enter
    <3>1. UNCHANGED query /\ open' = FALSE
      BY <2>5 DEF Palette!Enter
    <3>2. PICK i \in Palette!Listed : Palette!Go(Items[i])
      BY <2>5 DEF Palette!Enter
    <3> QED BY <1>1, <2>1, <3>1, <3>2 DEF Palette!Go
  <2>6. CASE \/ \E to \in BOOLEAN : Palette!SetNav(to)
             \/ \E p \in Palette!Views : Palette!Click(p)
    BY <1>1, <2>6 DEF Palette!SetNav, Palette!Click, Palette!Go
  <2> QED BY <2>3, <2>4, <2>5, <2>6 DEF Palette!Next
<1>8. /\ index' \in -1 .. Len(Items) - 1
      /\ open' /\ Palette!Listed' # {} => index' \in 0 .. n' - 1
  <2>1. CASE index' = 0
    <3>1. 0 \in -1 .. Len(Items) - 1
      BY <1>2
    <3>2. Palette!Listed' # {} => 0 \in 0 .. n' - 1
      BY <1>4 DEF n
    <3> QED BY <2>1, <3>1, <3>2
  <2>2. CASE UNCHANGED <<query, open>> /\ open
    <3>1. n' = n /\ Palette!Listed' = Palette!Listed
      BY <1>5, <2>2 DEF n
    <3>2. CASE Palette!ArrowDown
      <4>1. index' = IF index + 1 < n THEN index + 1 ELSE n - 1
        BY <3>2, SameCardinality DEF Palette!ArrowDown, n
      <4> QED BY <1>1, <1>2, <1>3, <3>1, <4>1, <2>2
    <3>3. CASE Palette!ArrowUp
      <4>1. index' = IF index > 0 THEN index - 1 ELSE 0
        BY <3>3 DEF Palette!ArrowUp
      <4> QED BY <1>1, <1>2, <1>3, <3>1, <4>1, <2>2
    <3>4. CASE \E i \in 0 .. Len(Items) - 1 : Palette!Hover(i)
      <4>1. index' \in 0 .. n - 1
        BY <3>4, SameCardinality DEF Palette!Hover, n
      <4> QED BY <1>2, <1>3, <3>1, <4>1
    <3>5. CASE UNCHANGED index
      BY <1>1, <3>1, <3>5, <2>2
    <3> QED BY <2>2, <3>2, <3>3, <3>4, <3>5 DEF Palette!Next, paletteVars, Palette!OpenPalette,
          Palette!ClosePalette, Palette!Type, Palette!Enter, Palette!SetNav, Palette!Click
  <2>3. CASE UNCHANGED index /\ ~open'
    BY <1>1, <2>3
  <2>4. \/ index' = 0
        \/ UNCHANGED <<query, open>> /\ open
        \/ UNCHANGED index /\ ~open'
    <3>1. CASE Palette!OpenPalette \/ \E q \in Palette!Queries : Palette!Type(q)
      BY <3>1 DEF Palette!OpenPalette, Palette!Type
    <3>2. CASE Palette!ArrowDown \/ Palette!ArrowUp \/ \E i \in 0 .. Len(Items) - 1 : Palette!Hover(i)
      BY <3>2 DEF Palette!ArrowDown, Palette!ArrowUp, Palette!Hover
    <3>3. CASE Palette!Enter \/ \E escape \in BOOLEAN : Palette!ClosePalette(escape)
      BY <3>3 DEF Palette!Enter, Palette!ClosePalette
    <3>4. CASE (\E to \in BOOLEAN : Palette!SetNav(to)) \/ \E p \in Palette!Views : Palette!Click(p)
      BY <3>4 DEF Palette!SetNav, Palette!Click
    <3>5. CASE UNCHANGED paletteVars
      BY <3>5 DEF paletteVars
    <3> QED BY <3>1, <3>2, <3>3, <3>4, <3>5 DEF Palette!Next
  <2> QED BY <2>1, <2>2, <2>3, <2>4
<1> QED BY <1>7, <1>8, SameCardinality DEF PaletteInv, Palette!TypeOK, Palette!OneMatchIsHighlighted, n

-----------------------------------------------------------------------------
(* The rows of questionnaires. What is drafted and what the run has still  *)
(* to draft make an answer to each question at least; one that is ready    *)
(* stays so, its answers as they are, unless its job is run again then;    *)
(* and answers are asked for only of one that is ready or was.             *)

WasAsked(e) == e.flight # "none" \/ e.data # {} \/ e.got # {}
WasReady(p) == p \in reopened \/ statuses[p] = "ready"

Whole(p) ==
  /\ p \in running => drafted[p] + todo[p] >= Sizes[p]
  /\ WasReady(p) => drafted[p] >= Sizes[p]
  /\ WasReady(p) /\ p \notin reopened => p \notin running
  /\ WasAsked(counts[p]) => WasReady(p)
  /\ counts[p].data \cup counts[p].got \subseteq Sizes[p] .. drafted[p]
  /\ p \notin reopened => counts[p].data \cup counts[p].got \subseteq {drafted[p]}
  /\ \A l \in packList.data \cup packList.got : l[p] = "ready" => WasReady(p)

RowsInv == HomeRows!TypeOK /\ \A p \in HomeRows!Packs : Whole(p)

LEMMA RowAnswers ==
  ASSUME NEW S, NEW e \in HomeRows!Entry(S)
  PROVE  /\ HomeRows!Landed(e) \in HomeRows!Entry(S)
         /\ HomeRows!Landed(e).data = e.got /\ HomeRows!Landed(e).got = {}
         /\ HomeRows!Failed(e) \in HomeRows!Entry(S)
         /\ HomeRows!Failed(e).data = e.data /\ HomeRows!Failed(e).got = {}
         /\ HomeRows!Landed(e).flight = "none" /\ HomeRows!Failed(e).flight = "none"
<1>1. {} \in HomeRows!Maybe(S)
  BY DEF HomeRows!Maybe
<1> QED BY <1>1 DEF HomeRows!Entry, HomeRows!Landed, HomeRows!Failed

LEMMA RowRequests ==
  ASSUME NEW S, NEW e \in HomeRows!Entry(S), NEW late
  PROVE  /\ HomeRows!Mount(e, late) \in HomeRows!Entry(S)
         /\ HomeRows!Mount(e, late).data = e.data /\ HomeRows!Mount(e, late).got \subseteq e.got
         /\ HomeRows!Send(e) \in HomeRows!Entry(S)
         /\ HomeRows!Send(e).data = e.data /\ HomeRows!Send(e).got = {}
<1>1. {} \in HomeRows!Maybe(S)
  BY DEF HomeRows!Maybe
<1> QED BY <1>1 DEF HomeRows!Entry, HomeRows!Mount, HomeRows!Fetch, HomeRows!Send

LEMMA RowReads ==
  ASSUME NEW S, NEW e \in HomeRows!Entry(S), NEW a \in S
  PROVE  /\ HomeRows!Read(e, a) \in HomeRows!Entry(S)
         /\ HomeRows!Read(e, a).data = e.data /\ HomeRows!Read(e, a).got = {a}
<1>1. {a} \in HomeRows!Maybe(S)
  BY DEF HomeRows!Maybe
<1> QED BY <1>1 DEF HomeRows!Entry, HomeRows!Read

LEMMA NoRows ==
  ASSUME NEW S
  PROVE  /\ HomeRows!NoEntry \in HomeRows!Entry(S) /\ ~WasAsked(HomeRows!NoEntry)
         /\ HomeRows!NoEntry.data = {} /\ HomeRows!NoEntry.got = {}
<1>1. {} \in HomeRows!Maybe(S)
  BY DEF HomeRows!Maybe
<1> QED BY <1>1 DEF HomeRows!Entry, HomeRows!NoEntry, WasAsked

LEMMA SizesAreNumbers ==
  /\ HomeRows!Packs = 1 .. Len(Sizes) /\ Len(Sizes) \in Nat
  /\ \A p \in HomeRows!Packs : Sizes[p] \in Nat
  /\ Sizes \in [HomeRows!Packs -> Nat]
<1>1. Sizes \in Seq(Nat)
  BY Limits
<1> QED BY <1>1 DEF HomeRows!Packs

LEMMA RowsInit == HomeRows!Init => RowsInv
<1> SUFFICES ASSUME HomeRows!Init PROVE RowsInv
  OBVIOUS
<1>1. HomeRows!TypeOK
  <2>1. /\ packList \in HomeRows!Entry([HomeRows!Packs -> HomeRows!Statuses])
        /\ counts \in [HomeRows!Packs -> HomeRows!Entry(Nat)]
    BY NoRows DEF HomeRows!Init
  <2>2. /\ drafted \in [HomeRows!Packs -> Nat] /\ todo \in [HomeRows!Packs -> Nat]
        /\ \A p \in HomeRows!Packs : todo[p] <= Sizes[p]
    BY SizesAreNumbers DEF HomeRows!Init
  <2> QED BY <2>1, <2>2 DEF HomeRows!Init, HomeRows!TypeOK, HomeRows!Statuses
<1>2. ASSUME NEW p \in HomeRows!Packs PROVE Whole(p)
  BY NoRows, SizesAreNumbers DEF HomeRows!Init, Whole, WasReady
<1> QED BY <1>1, <1>2 DEF RowsInv

LEMMA RowsStep == RowsInv /\ [HomeRows!Next]_rowVars => RowsInv'
<1> SUFFICES ASSUME RowsInv, [HomeRows!Next]_rowVars PROVE RowsInv'
  OBVIOUS
<1> USE DEF HomeRows!database
<1> DEFINE RowLists == [HomeRows!Packs -> HomeRows!Statuses]
<1>1. /\ statuses \in RowLists /\ drafted \in [HomeRows!Packs -> Nat] /\ todo \in [HomeRows!Packs -> Nat]
      /\ running \subseteq HomeRows!Packs /\ reopened \subseteq HomeRows!Packs
      /\ packList \in HomeRows!Entry(RowLists) /\ counts \in [HomeRows!Packs -> HomeRows!Entry(Nat)]
      /\ rowsPage \in {"rows", "other"}
      /\ \A p \in HomeRows!Packs : todo[p] <= Sizes[p] /\ Whole(p)
  BY DEF RowsInv, HomeRows!TypeOK
<1>2. CASE UNCHANGED rowVars
  BY <1>1, <1>2 DEF rowVars, RowsInv, HomeRows!TypeOK, Whole, WasReady
<1>3. CASE HomeRows!Leave
  BY <1>1, <1>3 DEF HomeRows!Leave, RowsInv, HomeRows!TypeOK, Whole, WasReady
(* A job, at whatever it does, touches no other questionnaire, and its own *)
(* only while nobody has seen that ready, or once it is reopened.          *)
<1>4. ASSUME NEW p \in running, UNCHANGED <<counts, packList, rowsPage>>,
             statuses' \in RowLists, drafted' \in [HomeRows!Packs -> Nat], todo' \in [HomeRows!Packs -> Nat],
             running' \subseteq running, reopened' \in {reopened, reopened \cup {p}},
             \A q \in HomeRows!Packs \ {p} :
               /\ statuses'[q] = statuses[q] /\ drafted'[q] = drafted[q] /\ todo'[q] = todo[q]
               /\ q \in running' <=> q \in running,
             drafted'[p] >= drafted[p], todo'[p] <= Sizes[p],
             p \in running' => drafted'[p] + todo'[p] >= Sizes[p],
             WasReady(p)' => drafted'[p] >= Sizes[p],
             statuses'[p] = "ready" => p \in reopened' \/ p \notin running'
      PROVE  RowsInv'
  <2>1. HomeRows!TypeOK'
    <3>1. \A q \in HomeRows!Packs : todo'[q] <= Sizes[q]
      BY <1>1, <1>4
    <3> QED BY <1>1, <1>4, <3>1 DEF HomeRows!TypeOK
  <2>2. ASSUME NEW q \in HomeRows!Packs, q # p PROVE Whole(q)'
    <3>1. Whole(q) /\ (q \in reopened' <=> q \in reopened)
      BY <1>1, <1>4, <2>2
    <3> QED BY <1>4, <2>2, <3>1 DEF Whole, WasReady, WasAsked
  <2>3. Whole(p)'
    <3>1. /\ p \in HomeRows!Packs /\ Whole(p) /\ drafted[p] \in Nat /\ drafted'[p] \in Nat /\ Sizes[p] \in Nat
          /\ counts[p] \in HomeRows!Entry(Nat)
      BY <1>1, <1>4, SizesAreNumbers
    <3>2. CASE p \in reopened
      <4>1. p \in reopened' /\ WasReady(p)'
        BY <1>4, <3>2 DEF WasReady
      <4>2. (counts[p].data \cup counts[p].got \subseteq Sizes[p] .. drafted[p])'
        BY <1>4, <3>1 DEF Whole
      <4> QED BY <1>4, <4>1, <4>2 DEF Whole
    <3>3. CASE p \notin reopened
      <4>1. ~WasReady(p) /\ counts[p].data = {} /\ counts[p].got = {} /\ ~WasAsked(counts[p])
        BY <1>4, <3>1, <3>3 DEF Whole, WasAsked
      <4>2. \A l \in packList.data \cup packList.got : l[p] # "ready"
        BY <3>1, <4>1 DEF Whole
      <4> QED BY <1>4, <4>1, <4>2 DEF Whole, WasReady, WasAsked
    <3> QED BY <3>2, <3>3
  <2> QED BY <2>1, <2>2, <2>3 DEF RowsInv
<1>5. ASSUME NEW p \in running
      PROVE  /\ p \in HomeRows!Packs /\ drafted[p] \in Nat /\ todo[p] \in Nat /\ Sizes[p] \in Nat
             /\ drafted[p] + todo[p] >= Sizes[p] /\ todo[p] <= Sizes[p]
             /\ WasReady(p) => drafted[p] >= Sizes[p]
             /\ statuses[p] = "ready" => p \in reopened
             /\ \A s \in HomeRows!Statuses :
                  [statuses EXCEPT ![p] = s] \in RowLists /\ [statuses EXCEPT ![p] = s][p] = s
  BY <1>1, SizesAreNumbers DEF Whole, WasReady
<1>14. CASE \E p \in HomeRows!Packs : HomeRows!Draft(p)
  <2>1. PICK p \in HomeRows!Packs : HomeRows!Draft(p)
    BY <1>14
  <2>2. PICK n \in 1 .. InsertAttempts : drafted' = [drafted EXCEPT ![p] = drafted[p] + n]
    BY <2>1 DEF HomeRows!Draft
  <2>3. n \in Nat /\ n >= 1
    <3>1. InsertAttempts \in Nat /\ n \in 1 .. InsertAttempts
      BY Limits
    <3> QED BY <3>1
  <2>4. /\ p \in running /\ todo' = [todo EXCEPT ![p] = todo[p] - 1] /\ todo[p] > 0
        /\ UNCHANGED <<statuses, running, reopened, counts, packList, rowsPage>>
    BY <2>1 DEF HomeRows!Draft
  <2>5. drafted[p] + n \in Nat /\ todo[p] - 1 \in Nat /\ drafted[p] + n + (todo[p] - 1) >= Sizes[p]
        /\ todo[p] - 1 <= Sizes[p] /\ drafted[p] + n >= drafted[p]
    BY <1>5, <2>3, <2>4
  <2>6. /\ drafted' \in [HomeRows!Packs -> Nat] /\ todo' \in [HomeRows!Packs -> Nat]
        /\ drafted'[p] = drafted[p] + n /\ todo'[p] = todo[p] - 1
        /\ \A q \in HomeRows!Packs \ {p} : drafted'[q] = drafted[q] /\ todo'[q] = todo[q]
    BY <1>1, <2>2, <2>4, <2>5
  <2>7. (WasReady(p)' <=> WasReady(p)) /\ (WasReady(p)' => drafted'[p] >= Sizes[p])
    BY <1>5, <2>3, <2>4, <2>6 DEF WasReady
  <2> QED BY <1>1, <1>4, <1>5, <2>4, <2>5, <2>6, <2>7
<1>15. CASE \E p \in HomeRows!Packs : HomeRows!RunAgain(p)
  <2>1. PICK p \in HomeRows!Packs : HomeRows!RunAgain(p)
    BY <1>15
  <2>2. PICK s \in {statuses[p], "error"} \cup (IF todo[p] = 0 THEN {"ready"} ELSE {}) :
          /\ statuses' = [statuses EXCEPT ![p] = s]
          /\ reopened' = IF s = "ready" THEN reopened \cup {p} ELSE reopened
    BY <2>1 DEF HomeRows!RunAgain
  <2>3. /\ p \in running /\ todo' = [todo EXCEPT ![p] = Sizes[p]]
        /\ UNCHANGED <<running, drafted, counts, packList, rowsPage>>
    BY <2>1 DEF HomeRows!RunAgain
  <2>4. s \in HomeRows!Statuses
    BY <1>1, <2>1, <2>2 DEF HomeRows!Statuses
  <2>5. /\ statuses' \in RowLists /\ statuses'[p] = s
        /\ todo' \in [HomeRows!Packs -> Nat] /\ todo'[p] = Sizes[p]
        /\ \A q \in HomeRows!Packs \ {p} : statuses'[q] = statuses[q] /\ todo'[q] = todo[q]
    BY <1>1, <1>5, <2>2, <2>3, <2>4
  <2>6. WasReady(p)' => drafted'[p] >= Sizes[p]
    <3>1. CASE s = "ready"
      <4>1. todo[p] = 0 \/ WasReady(p)
        BY <2>2, <3>1 DEF WasReady
      <4> QED BY <1>5, <2>3, <4>1
    <3>2. CASE s # "ready"
      BY <1>5, <2>2, <2>3, <2>5, <3>2 DEF WasReady
    <3> QED BY <3>1, <3>2
  <2>7. drafted'[p] + todo'[p] >= Sizes[p] /\ drafted'[p] >= drafted[p] /\ todo'[p] <= Sizes[p]
    BY <1>5, <2>3, <2>5
  <2> QED BY <1>1, <1>4, <2>2, <2>3, <2>5, <2>6, <2>7
<1>16. CASE \E p \in HomeRows!Packs : HomeRows!Finish(p) \/ HomeRows!JobFails(p)
  <2>1. PICK p \in HomeRows!Packs, s \in {"ready", "error"} :
          HomeRows!Ends(p, s) /\ (s = "ready" => todo[p] = 0)
    BY <1>16 DEF HomeRows!Finish, HomeRows!JobFails
  <2>2. /\ p \in running /\ statuses' = [statuses EXCEPT ![p] = s] /\ running' = running \ {p}
        /\ UNCHANGED <<todo, drafted, reopened, counts, packList, rowsPage>>
    BY <2>1 DEF HomeRows!Ends
  <2>3. /\ statuses' \in RowLists /\ statuses'[p] = s
        /\ \A q \in HomeRows!Packs \ {p} : statuses'[q] = statuses[q] /\ (q \in running' <=> q \in running)
    BY <1>1, <1>5, <2>2 DEF HomeRows!Statuses
  <2>4. WasReady(p)' => drafted'[p] >= Sizes[p]
    BY <1>5, <2>1, <2>2, <2>3 DEF WasReady
  <2>5. drafted'[p] >= drafted[p] /\ todo'[p] <= Sizes[p]
    BY <1>5, <2>2
  <2> QED BY <1>1, <1>4, <2>2, <2>3, <2>4, <2>5
<1>6. ASSUME UNCHANGED <<statuses, running, todo, drafted, reopened>>, rowsPage' \in {"rows", "other"},
             packList' \in HomeRows!Entry(RowLists), counts' \in [HomeRows!Packs -> HomeRows!Entry(Nat)],
             \A l \in packList'.data \cup packList'.got : l \in packList.data \cup packList.got \/ l = statuses,
             \A p \in HomeRows!Packs :
                /\ WasAsked(counts'[p]) => WasAsked(counts[p]) \/ WasReady(p)
                /\ counts'[p].data \cup counts'[p].got \subseteq counts[p].data \cup counts[p].got \cup
                     (IF WasReady(p) THEN {drafted[p]} ELSE {})
      PROVE  RowsInv'
  <2>1. HomeRows!TypeOK'
    BY <1>1, <1>6 DEF HomeRows!TypeOK
  <2>2. ASSUME NEW p \in HomeRows!Packs PROVE Whole(p)'
    <3>1. /\ Whole(p) /\ (WasReady(p)' <=> WasReady(p))
          /\ drafted[p] \in Nat /\ Sizes[p] \in Nat
      BY <1>1, <1>6, SizesAreNumbers DEF WasReady
    <3>2. (WasAsked(counts[p]) => WasReady(p))'
      BY <1>6, <3>1 DEF Whole, WasAsked
    <3>3. /\ (counts[p].data \cup counts[p].got \subseteq Sizes[p] .. drafted[p])'
          /\ (p \notin reopened => counts[p].data \cup counts[p].got \subseteq {drafted[p]})'
      <4>1. WasReady(p) => drafted[p] \in Sizes[p] .. drafted[p]
        BY <3>1 DEF Whole
      <4> QED BY <1>6, <3>1, <4>1 DEF Whole
    <3>4. (\A l \in packList.data \cup packList.got : l[p] = "ready" => WasReady(p))'
      <4>1. \A l \in packList.data \cup packList.got : l[p] = "ready" => WasReady(p)
        BY <3>1 DEF Whole
      <4>2. statuses[p] = "ready" => WasReady(p)
        BY DEF WasReady
      <4> QED BY <1>6, <3>1, <4>1, <4>2
    <3> QED BY <1>6, <3>1, <3>2, <3>3, <3>4 DEF Whole
  <2> QED BY <2>1, <2>2 DEF RowsInv
<1>7. \A p \in HomeRows!Packs : p \in HomeRows!Ready(packList) => WasReady(p)
  BY <1>1 DEF HomeRows!Ready, Whole
<1>8. \A p \in HomeRows!Packs : \A late :
        /\ HomeRows!Mount(counts[p], late) \in HomeRows!Entry(Nat)
        /\ HomeRows!Mount(counts[p], late).data = counts[p].data
        /\ HomeRows!Mount(counts[p], late).got \subseteq counts[p].got
  <2>1. ASSUME NEW p \in HomeRows!Packs PROVE counts[p] \in HomeRows!Entry(Nat)
    BY <1>1
  <2> QED BY <2>1, RowRequests
<1>9. CASE \E aged \in BOOLEAN : HomeRows!Open(aged)
  <2>1. PICK late \in BOOLEAN : HomeRows!Open(late)
    BY <1>9
  <2>2. packList' \in HomeRows!Entry(RowLists) /\ packList'.data = packList.data /\ packList'.got \subseteq packList.got
    <3>1. packList' = HomeRows!Mount(packList, late)
      BY <2>1 DEF HomeRows!Open
    <3>2. packList \in HomeRows!Entry(RowLists)
      BY <1>1
    <3> HIDE DEF RowLists
    <3> QED BY <3>1, <3>2, RowRequests
  <2>3. counts' = [p \in HomeRows!Packs |->
                    IF p \in HomeRows!Ready(packList) THEN HomeRows!Mount(counts[p], late) ELSE counts[p]]
    BY <2>1 DEF HomeRows!Open
  <2>4. counts' \in [HomeRows!Packs -> HomeRows!Entry(Nat)]
    BY <1>1, <1>8, <2>3
  <2>5. \A p \in HomeRows!Packs : /\ WasAsked(counts'[p]) => WasAsked(counts[p]) \/ WasReady(p)
                                  /\ counts'[p].data \cup counts'[p].got \subseteq counts[p].data \cup counts[p].got
    BY <1>7, <1>8, <2>3
  <2> QED BY <1>6, <2>1, <2>2, <2>4, <2>5 DEF HomeRows!Open
<1>10. CASE HomeRows!Poll \/ HomeRows!ListFails
  <2>1. packList' \in HomeRows!Entry(RowLists) /\ packList'.data = packList.data /\ packList'.got = {}
    <3>1. packList \in HomeRows!Entry(RowLists)
      BY <1>1
    <3> HIDE DEF RowLists
    <3>2. CASE HomeRows!Poll
      <4>1. packList' = HomeRows!Send(packList)
        BY <3>2 DEF HomeRows!Poll
      <4> QED BY <3>1, <4>1, RowRequests
    <3>3. CASE HomeRows!ListFails
      <4>1. packList' = HomeRows!Failed(packList)
        BY <3>3 DEF HomeRows!ListFails
      <4> QED BY <3>1, <4>1, RowAnswers
    <3> QED BY <1>10, <3>2, <3>3
  <2>2. UNCHANGED <<statuses, running, todo, drafted, reopened, counts, rowsPage>>
    BY <1>10 DEF HomeRows!Poll, HomeRows!ListFails
  <2> QED BY <1>1, <1>6, <2>1, <2>2
<1>11. CASE HomeRows!ReadList
  <2>1. packList' \in HomeRows!Entry(RowLists) /\ packList'.data = packList.data /\ packList'.got = {statuses}
    BY <1>1, <1>11, RowReads DEF HomeRows!ReadList
  <2>2. UNCHANGED <<statuses, running, todo, drafted, reopened, counts, rowsPage>>
    BY <1>11 DEF HomeRows!ReadList
  <2> QED BY <1>1, <1>6, <2>1, <2>2
<1>12. CASE HomeRows!ListLands
  <2> DEFINE l == HomeRows!Landed(packList)
  <2>1. l \in HomeRows!Entry(RowLists) /\ l.data = packList.got /\ l.got = {}
    BY <1>1, RowAnswers
  <2> HIDE DEF l
  <2>2. /\ packList' = l
        /\ counts' = [p \in HomeRows!Packs |->
                          IF rowsPage = "rows" /\ p \in HomeRows!Ready(l) \ HomeRows!Ready(packList)
                                               THEN HomeRows!Mount(counts[p], FALSE) ELSE counts[p]]
    BY <1>12 DEF HomeRows!ListLands, HomeRows!Rows, l
  <2>3. \A p \in HomeRows!Packs : p \in HomeRows!Ready(l) => WasReady(p)
    BY <1>1, <2>1 DEF HomeRows!Ready, Whole
  <2>4. counts' \in [HomeRows!Packs -> HomeRows!Entry(Nat)]
    BY <1>1, <1>8, <2>2
  <2>5. \A p \in HomeRows!Packs : /\ WasAsked(counts'[p]) => WasAsked(counts[p]) \/ WasReady(p)
                                  /\ counts'[p].data \cup counts'[p].got \subseteq counts[p].data \cup counts[p].got
    BY <1>8, <2>2, <2>3
  <2>6. UNCHANGED <<statuses, running, todo, drafted, reopened, rowsPage>>
    BY <1>12 DEF HomeRows!ListLands
  <2> QED BY <1>1, <1>6, <2>1, <2>2, <2>4, <2>5, <2>6
<1>13. CASE \E p \in HomeRows!Packs : HomeRows!ReadAnswers(p) \/ HomeRows!AnswersLand(p) \/ HomeRows!AnswersFail(p)
  <2>1. PICK p \in HomeRows!Packs : HomeRows!ReadAnswers(p) \/ HomeRows!AnswersLand(p) \/ HomeRows!AnswersFail(p)
    BY <1>13
  <2>2. counts[p] \in HomeRows!Entry(Nat) /\ drafted[p] \in Nat
    BY <1>1
  <2>3. UNCHANGED <<statuses, running, todo, drafted, reopened, packList, rowsPage>> /\ counts[p].flight # "none"
    BY <2>1 DEF HomeRows!ReadAnswers, HomeRows!AnswersLand, HomeRows!AnswersFail
  <2>4. WasReady(p)
    BY <1>1, <2>3 DEF Whole, WasAsked
  <2>5. PICK e \in HomeRows!Entry(Nat) :
          /\ counts' = [counts EXCEPT ![p] = e]
          /\ e.data \cup e.got \subseteq counts[p].data \cup counts[p].got \cup {drafted[p]}
    BY <2>1, <2>2, RowReads, RowAnswers DEF HomeRows!ReadAnswers, HomeRows!AnswersLand, HomeRows!AnswersFail
  <2>6. counts' \in [HomeRows!Packs -> HomeRows!Entry(Nat)]
    BY <1>1, <2>5
  <2>7. ASSUME NEW q \in HomeRows!Packs
        PROVE  /\ WasAsked(counts'[q]) => WasAsked(counts[q]) \/ WasReady(q)
               /\ counts'[q].data \cup counts'[q].got \subseteq counts[q].data \cup counts[q].got \cup
                     (IF WasReady(q) THEN {drafted[q]} ELSE {})
    BY <1>1, <2>4, <2>5
  <2> QED BY <1>1, <1>6, <2>3, <2>6, <2>7
<1> QED BY <1>2, <1>3, <1>9, <1>10, <1>11, <1>12, <1>13, <1>14, <1>15, <1>16 DEF HomeRows!Next

(* The places of those that are ready are all different.                   *)
LEMMA PlacesDiffer ==
  ASSUME NEW p \in HomeRows!Ready(packList), NEW q \in HomeRows!Ready(packList), HomeRows!Place(p) = HomeRows!Place(q)
  PROVE  p = q
<1> DEFINE Before(r) == {s \in HomeRows!Ready(packList) : s < r}
<1>1. /\ HomeRows!Ready(packList) \subseteq 1 .. Len(Sizes) /\ Len(Sizes) \in Nat
  BY SizesAreNumbers DEF HomeRows!Ready
<1>2. IsFiniteSet(1 .. Len(Sizes))
  BY <1>1, FS_Interval
<1>3. \A r : IsFiniteSet(Before(r)) /\ HomeRows!Place(r) = Cardinality(Before(r))
  BY <1>1, <1>2, FS_Subset, SameCardinality DEF HomeRows!Place
<1>4. ASSUME NEW r \in HomeRows!Ready(packList), NEW s \in HomeRows!Ready(packList), r < s
      PROVE  HomeRows!Place(r) # HomeRows!Place(s)
  <2>1. Before(r) \subseteq Before(s) /\ r \in Before(s) /\ r \notin Before(r)
    BY <1>1, <1>4
  <2> HIDE DEF Before
  <2> QED BY <1>3, <2>1, FS_Subset
<1>5. p \in Nat /\ q \in Nat
  BY <1>1
<1> QED BY <1>4, <1>5

(* A row finds its own answers, and they are whole.                        *)
LEMMA RowsFollow == RowsInv => HomeRows!RowsAreWhole
<1> SUFFICES ASSUME RowsInv, NEW l \in packList.data, NEW p \in HomeRows!Packs, l[p] = "ready"
             PROVE  IF HomeRows!Figures(p) = {} THEN HomeRows!IsPending(p) \/ counts[p].flight = "none"
                    ELSE /\ HomeRows!Figures(p) \subseteq Sizes[p] .. drafted[p]
                         /\ p \notin reopened => HomeRows!Figures(p) = {drafted[p]}
  BY DEF HomeRows!RowsAreWhole
<1>1. p \in HomeRows!Ready(packList)
  BY DEF HomeRows!Ready
<1>2. HomeRows!QueryOf(p) = {p}
  BY <1>1, PlacesDiffer DEF HomeRows!QueryOf
<1>3. HomeRows!Figures(p) = counts[p].data
  BY <1>2 DEF HomeRows!Figures
<1>4. /\ counts[p].data \subseteq Sizes[p] .. drafted[p]
      /\ p \notin reopened => counts[p].data \subseteq {drafted[p]}
  BY DEF RowsInv, Whole
<1>5. counts[p].data = {} => HomeRows!IsPending(p) \/ counts[p].flight = "none"
  BY <1>2 DEF HomeRows!IsPending
<1> QED BY <1>3, <1>4, <1>5

-----------------------------------------------------------------------------
(* All of them, one at a time.                                             *)

PartInv ==
  /\ part = "members" => Inv
  /\ part = "inbox" => InboxInv
  /\ part = "pack" => PackInv
  /\ part = "events" => EventsInv
  /\ part = "controls" => ControlsInv
  /\ part = "plans" => PlansInv
  /\ part = "cards" => CardsInv
  /\ part = "palette" => PaletteInv
  /\ part = "rows" => RowsInv

LEMMA PartInvInit == ConsoleInit => PartInv
<1> SUFFICES ASSUME ConsoleInit
             PROVE  PartInv
  OBVIOUS
<1>1. Init /\ part \in {"members", "inbox", "pack", "events", "controls", "plans", "cards", "palette", "rows"}
  BY DEF ConsoleInit
<1>2. /\ part = "inbox" => Inbox!Init
      /\ part = "pack" => Pack!Init
      /\ part = "events" => Events!Init
      /\ part = "controls" => Controls!Init
      /\ part = "plans" => Plans!Init
      /\ part = "cards" => Cards!Init
      /\ part = "palette" => Palette!Init
      /\ part = "rows" => HomeRows!Init
  BY DEF ConsoleInit
<1> QED BY <1>1, <1>2, InvInit, InboxInit, PackInit, EventsInit, ControlsInit, PlansInit, CardsInit, PaletteInit,
           RowsInit DEF PartInv

LEMMA PartInvStep == PartInv /\ [ConsoleNext]_consoleVars => PartInv'
<1> SUFFICES ASSUME PartInv, [ConsoleNext]_consoleVars
             PROVE  PartInv'
  OBVIOUS
<1>1. /\ part' = part
      /\ part = "members" => [Next]_vars
      /\ part = "inbox" => [Inbox!Next]_inboxVars
      /\ part = "pack" => [Pack!Next]_packVars
      /\ part = "events" => [Events!Next]_eventVars
      /\ part = "controls" => [Controls!Next]_controlVars
      /\ part = "plans" => [Plans!Next]_planVars
      /\ part = "cards" => [Cards!Next]_cardVars
      /\ part = "palette" => [Palette!Next]_paletteVars
      /\ part = "rows" => [HomeRows!Next]_rowVars
  BY DEF ConsoleNext, consoleVars
<1>2. /\ part' = "members" => Inv'
      /\ part' = "inbox" => InboxInv'
      /\ part' = "pack" => PackInv'
      /\ part' = "events" => EventsInv'
      /\ part' = "controls" => ControlsInv'
      /\ part' = "plans" => PlansInv'
      /\ part' = "cards" => CardsInv'
      /\ part' = "palette" => PaletteInv'
      /\ part' = "rows" => RowsInv'
  BY <1>1, InvStep, InboxStep, PackStep, EventsStep, ControlsStep, PlansStep, CardsStep, PaletteStep, RowsStep
     DEF PartInv
<1> QED BY <1>2 DEF PartInv

(* While the others rest, the page of members goes on as if they were not  *)
(* there: what is proved of it holds in the console.                       *)
THEOREM MembersGoOn == ConsoleSpec => Spec
<1>1. ConsoleInit => Init
  BY DEF ConsoleInit
<1>2. [ConsoleNext]_consoleVars => [Next]_vars
  BY DEF ConsoleNext, consoleVars
<1> QED BY <1>1, <1>2, PTL DEF ConsoleSpec, Spec

(* In the console too a workspace has one owner, whatever the others do,   *)
(* but where a transfer stopped half way or requests ran together.         *)
THEOREM ConsoleOneOwner == ConsoleSpec => []OneOwnerUnlessTroubled
BY MembersGoOn, OneOwner, PTL

(* Every part keeps to its own types (its TypeOK).                         *)
THEOREM PartsTyped == ConsoleSpec => []PartTypeOK
<1>1. PartInv => PartTypeOK
  BY DEF PartInv, PartTypeOK, Inv, InboxInv, PackInv, EventsInv, ControlsInv, PlansInv, CardsInv, PaletteInv, RowsInv
<1> QED BY <1>1, PartInvInit, PartInvStep, PTL DEF ConsoleSpec

(* What a page changed itself it shows, or is about to fetch, once it was  *)
(* answered: roles, decisions, reviews and the name of the account.        *)
THEOREM ChangesAreShown == ConsoleSpec => []OwnChangesAreShown
<1>1. PartInv => OwnChangesAreShown
  BY RolesAreShown, InboxFollows, PackFollows, CardsFollow DEF PartInv, OwnChangesAreShown
<1> QED BY <1>1, PartInvInit, PartInvStep, PTL DEF ConsoleSpec

(* What the pages show is so: offers, tabs, packs, rows, links, counts,    *)
(* plans and what Enter opens.                                             *)
THEOREM PagesAreTrue == ConsoleSpec => []PagesTellTheTruth
<1>1. PartInv => PagesTellTheTruth
  BY OffersAreRights, InboxFollows, PackFollows, RowsFollow, EventsFollow, ControlsFollow, PlansFollow
     DEF PartInv, PagesTellTheTruth, PaletteInv
<1> QED BY <1>1, PartInvInit, PartInvStep, PTL DEF ConsoleSpec

(* A step does what was asked for on what was on the screen: notes go with *)
(* their own request, approving all keeps the texts, the keys step to a    *)
(* neighbour, and a password is changed by who gave the current one.       *)
THEOREM StepsAreAsAsked == ConsoleSpec => StepsDoAsAsked
<1>1. PartInv => (part = "inbox" => Inbox!NotesStayWithRequests)
  BY InboxFollows DEF PartInv
<1>2. PartInv => /\ part = "pack" => Pack!TextsKept
                 /\ part = "events" => Events!StepStays
                 /\ part = "cards" => Cards!CurrentGiven
  BY PackFollows, StepsStay, CardsFollow DEF PartInv
<1> QED BY <1>1, <1>2, PartInvInit, PartInvStep, PTL DEF ConsoleSpec, StepsDoAsAsked

=============================================================================
