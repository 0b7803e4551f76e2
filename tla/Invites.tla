------------------------------ MODULE Invites -------------------------------
(***************************************************************************)
(* Inviting people and joining: the invite card of Settings > Members      *)
(* (components/dashboard/members-view.tsx, InviteCard, PasswordControl),   *)
(* the join page that a shared link opens in the tabs of one newcomer      *)
(* (components/dashboard/onboarding.tsx, lib/invite.ts), and the API of    *)
(* both (backend/app/routers/members.py).                                  *)
(*                                                                         *)
(* Join codes and link tokens are random: each is a number never used      *)
(* before. A link token or password that is off is 0.                      *)
(***************************************************************************)
EXTENDS Naturals, FiniteSets, QueryCache

CONSTANTS
  Tabs,       \* tabs in which the newcomer opens join pages
  MaxFailed,  \* MAX_FAILED_JOINS
  InsertAttempts, \* calls that run_db makes for one insert
  MaxFresh    \* codes and tokens that are made; bounds the runs

ASSUME TabsAssumption == IsFiniteSet(Tabs)
ASSUME MaxFailedAssumption == MaxFailed \in Nat \ {0}
ASSUME InsertAttemptsAssumption == InsertAttempts \in Nat \ {0}
ASSUME MaxFreshAssumption == MaxFresh \in Nat

VARIABLES
  invite,    \* the row of workspace_invites
  fresh,     \* codes and tokens up to here have been used
  card,      \* the query ["invite", workspace] of an admin's page
  editing,   \* whether PasswordControl shows its form although there is a password
  req,       \* the card's mutations: link, code and password
  tab,       \* the newcomer's join pages
  member,    \* whether the newcomer has joined
  attempts,  \* rows of workspace_join_attempts of the last 15 minutes
  tidy       \* history: the card's requests did not overlap, and no answer was lost

vars == <<invite, fresh, card, editing, req, tab, member, attempts, tidy>>

Row == [code : Nat, token : Nat, password : {0, 1}]
Settings == [code : Nat, token : Nat, hasPassword : BOOLEAN]
NoRow == [code |-> 0, token |-> 0, password |-> 0]
Out(row) == [code |-> row.code, token |-> row.token, hasPassword |-> row.password # 0]

Mutations == {"link", "code", "password"}
Idle == [pc |-> "idle"]
Req == [pc : {"sent", "updating", "done", "failed"}, on : BOOLEAN, out : Settings]

(* A link is what was copied from the card; its key is 0 in the plain one. *)
Link == [code : Nat, key : Nat]
NoTab == [page |-> "closed"]
Tab == [page : {"loading", "broken", "shown"},
        link : Link,
        keyValid : BOOLEAN, acceptsPassword : BOOLEAN, already : BOOLEAN,
        join : {"none", "sent", "found", "counting", "recording", "inserting", "done", "failed"},
        password : {0, 1, 2},  \* typed: none, the workspace's, or a wrong one
        verdict : {"none", "inserting", "recording", "failed"},
        dead : BOOLEAN]  \* history: the key joined with was dead when it was sent

TypeOK ==
  /\ invite \in Row
  /\ fresh \in Nat
  /\ card \in Entry(Settings)
  /\ editing \in BOOLEAN
  /\ req \in [Mutations -> {Idle} \cup Req]
  /\ tab \in [Tabs -> {NoTab} \cup Tab]
  /\ member \in BOOLEAN
  /\ attempts \in Nat
  /\ tidy \in BOOLEAN
  /\ \A t \in Tabs : tab[t].page # "closed" /\ tab[t].join # "none" => tab[t].page = "shown"

Init ==
  /\ invite = [code |-> 1, token |-> 0, password |-> 0]
  /\ fresh = 1
  /\ card = NoEntry
  /\ editing = FALSE
  /\ req = [m \in Mutations |-> Idle]
  /\ tab = [t \in Tabs |-> NoTab]
  /\ member = FALSE
  /\ attempts = 0
  /\ tidy = TRUE

admin == <<invite, fresh, card, editing, req, tidy>>
newcomer == <<tab, member, attempts>>

-----------------------------------------------------------------------------
(* The card.                                                               *)

IsPending(m) == req[m].pc # "idle"
Unanswered == card.flight # "none" \/ \E m \in Mutations : IsPending(m)

OpenCard ==
  /\ card' = Mount(card, TRUE)
  /\ tidy' = (tidy /\ \A m \in Mutations : ~IsPending(m))
  /\ UNCHANGED <<invite, fresh, editing, req, tab, member, attempts>>

ReadInvite ==
  /\ card.flight = "sent"
  /\ card' = Read(card, Out(invite))
  /\ UNCHANGED <<invite, fresh, editing, req, tidy, tab, member, attempts>>

(* The effect on hasPassword.                                              *)
Editing(old, new) == IF {s.hasPassword : s \in old} = {s.hasPassword : s \in new} THEN editing
                     ELSE \E s \in new : ~s.hasPassword

InviteLands ==
  /\ card.flight = "read"
  /\ card' = Landed(card)
  /\ editing' = Editing(card.data, card.got)
  /\ UNCHANGED <<invite, fresh, req, tidy, tab, member, attempts>>

Mutate(m, on) ==
  /\ ~IsPending(m)
  /\ fresh + (IF (m = "link" /\ on) \/ IsPending("link") THEN 1 ELSE 0)
           + (IF m = "code" \/ IsPending("code") THEN 2 ELSE 0) <= MaxFresh
  /\ req' = [req EXCEPT ![m] = [pc |-> "sent", on |-> on, out |-> Out(NoRow)]]
  /\ tidy' = (tidy /\ ~Unanswered)
  /\ UNCHANGED <<invite, fresh, card, editing, tab, member, attempts>>

(* Create link and Reset link turn it on, Turn off turns it off.           *)
ClickLink(on) ==
  /\ \E s \in card.data : ~on => s.token # 0
  /\ Mutate("link", on)

NewWorkspaceLink ==
  /\ card.data # {}
  /\ Mutate("code", TRUE)

(* The form takes six characters or more; Turn off is beside "is set".     *)
ClickPassword(on) ==
  /\ \E s \in card.data : IF on THEN ~s.hasPassword \/ editing ELSE s.hasPassword /\ ~editing
  /\ Mutate("password", on)

ChangePassword ==
  /\ \E s \in card.data : s.hasPassword
  /\ editing' = ~editing
  /\ UNCHANGED <<invite, fresh, card, req, tidy, tab, member, attempts>>

Answer(m, row) == req' = [req EXCEPT ![m] = [req[m] EXCEPT !.pc = "done", !.out = Out(row)]]

\* Mutant of SetLink: turning the link on again keeps the token.
SetLinkAgain ==
  /\ req["link"].pc = "sent"
  /\ LET row == [invite EXCEPT !.token = IF ~req["link"].on THEN 0
                                         ELSE IF invite.token # 0 THEN invite.token ELSE 2]
     IN  invite' = row /\ Answer("link", row)
  /\ fresh' = IF req["link"].on THEN fresh + 1 ELSE fresh
  /\ UNCHANGED <<card, editing, tidy, tab, member, attempts>>

(* set_invite_link: a new token each time.                                 *)
SetLink ==
  /\ req["link"].pc = "sent"
  /\ LET row == [invite EXCEPT !.token = IF req["link"].on THEN fresh + 1 ELSE 0]
     IN  invite' = row /\ Answer("link", row)
  /\ fresh' = IF req["link"].on THEN fresh + 1 ELSE fresh
  /\ UNCHANGED <<card, editing, tidy, tab, member, attempts>>

SetPassword ==
  /\ req["password"].pc = "sent"
  /\ LET row == [invite EXCEPT !.password = IF req["password"].on THEN 1 ELSE 0]
     IN  invite' = row /\ Answer("password", row)
  /\ UNCHANGED <<fresh, card, editing, tidy, tab, member, attempts>>

(* reset_join_code reads the row, and updates it by what it has read.      *)
ReadForCode ==
  /\ req["code"].pc = "sent"
  /\ req' = [req EXCEPT !["code"] = [req["code"] EXCEPT !.pc = "updating", !.out = Out(invite)]]
  /\ UNCHANGED <<invite, fresh, card, editing, tidy, tab, member, attempts>>

ResetCode ==
  /\ req["code"].pc = "updating"
  /\ LET row == [invite EXCEPT !.code = fresh + 1,
                               !.token = IF req["code"].out.token # 0 THEN fresh + 2 ELSE invite.token]
     IN  invite' = row /\ Answer("code", row)
  /\ fresh' = fresh + 2
  /\ UNCHANGED <<card, editing, tidy, tab, member, attempts>>

\* Mutant of MutationLands: the answer is not put on the card.
MutationOnlyLands(m) ==
  /\ req[m].pc = "done"
  /\ req' = [req EXCEPT ![m] = Idle]
  /\ UNCHANGED <<invite, fresh, card, editing, tidy, tab, member, attempts>>

(* onSuccess: setQueryData, and for the password setEditing.               *)
MutationLands(m) ==
  /\ req[m].pc = "done"
  /\ req' = [req EXCEPT ![m] = Idle]
  /\ card' = [card EXCEPT !.data = {req[m].out}, !.stale = FALSE]
  /\ editing' = IF m = "password" THEN ~req[m].out.hasPassword
                ELSE Editing(card.data, {req[m].out})
  /\ UNCHANGED <<invite, fresh, tidy, tab, member, attempts>>

(* An error: refused or lost, before or after it took effect.              *)
MutationFails(m) ==
  /\ IsPending(m)
  /\ req' = [req EXCEPT ![m] = Idle]
  /\ tidy' = (tidy /\ req[m].pc \in {"sent", "updating"})
  /\ UNCHANGED <<invite, fresh, card, editing, tab, member, attempts>>

-----------------------------------------------------------------------------
(* The join page.                                                          *)

(* Somebody copies one of the card's two links, and the newcomer opens it. *)
Copied == UNION {{[code |-> s.code, key |-> s.token], [code |-> s.code, key |-> 0]} : s \in card.data}

OpenLink(t, l) ==
  /\ tab[t] = NoTab
  /\ l \in Copied
  /\ tab' = [tab EXCEPT ![t] = [page |-> "loading", link |-> l, keyValid |-> FALSE,
                                acceptsPassword |-> FALSE, already |-> FALSE, join |-> "none",
                                password |-> 0, verdict |-> "none",
                                dead |-> FALSE]]
  /\ UNCHANGED <<member, attempts, admin>>

KeyMatches(row, key) == key # 0 /\ key = row.token

(* preview_join, and the page it brings.                                   *)
Preview(t) ==
  /\ tab[t].page = "loading"
  /\ tab' = [tab EXCEPT ![t] =
       IF tab[t].link.code # invite.code THEN [tab[t] EXCEPT !.page = "broken"]
       ELSE [tab[t] EXCEPT !.page = "shown", !.already = member,
                           !.keyValid = KeyMatches(invite, tab[t].link.key),
                           !.acceptsPassword = invite.password # 0]]
  /\ UNCHANGED <<member, attempts, admin>>

(* What the page lets one do, once shown.                                  *)
CanJoin(t, password) ==
  /\ tab[t].page = "shown" /\ ~tab[t].already
  /\ tab[t].join \in {"none", "failed"}
  /\ IF tab[t].keyValid THEN password = 0 ELSE tab[t].acceptsPassword /\ password # 0

Join(t, password) ==
  /\ CanJoin(t, password)
  /\ tab' = [tab EXCEPT ![t] = [tab[t] EXCEPT
               !.join = "sent", !.password = password,
               !.dead = password = 0 /\ (tab[t].link.code # invite.code
                                         \/ ~KeyMatches(invite, tab[t].link.key))]]
  /\ UNCHANGED <<member, attempts, admin>>

Leave(t) ==
  /\ tab[t].page # "closed"
  /\ tab[t].join \in {"none", "failed", "done"}
  /\ tab' = [tab EXCEPT ![t] = NoTab]
  /\ UNCHANGED <<member, attempts, admin>>

Answered(t, pc) == [tab[t] EXCEPT !.join = pc, !.password = 0,
                                    !.verdict = "none", !.dead = FALSE]
JoinGoes(t, pc) ==
  tab' = [tab EXCEPT ![t] = IF pc \in {"done", "failed"} THEN Answered(t, pc)
                            ELSE [tab[t] EXCEPT !.join = pc]]
InJoin(t, pc) == tab[t].page # "closed" /\ tab[t].join = pc

(* join_workspace: the invite and what it says of the key or password, one's *)
(* role, the failed attempts, then the verdict.                            *)
Admits(t) ==
  \/ tab[t].password = 0 /\ KeyMatches(invite, tab[t].link.key)
  \/ tab[t].password # 0 /\ tab[t].password = invite.password

Verdict(t) == IF Admits(t) THEN "inserting"
              ELSE IF invite.token = 0 /\ invite.password = 0 THEN "failed" ELSE "recording"

FindInvite(t) ==
  /\ InJoin(t, "sent")
  /\ tab' = [tab EXCEPT ![t] =
       IF tab[t].link.code # invite.code THEN Answered(t, "failed")
       ELSE [tab[t] EXCEPT !.join = "found", !.verdict = Verdict(t)]]
  /\ UNCHANGED <<member, attempts, admin>>

CheckMember(t) ==
  /\ InJoin(t, "found")
  /\ JoinGoes(t, IF member THEN "done" ELSE "counting")
  /\ UNCHANGED <<member, attempts, admin>>

\* Mutant of CountAttempts: one more failed attempt than allowed.
CountAttemptsMore(t) ==
  /\ InJoin(t, "counting")
  /\ JoinGoes(t, IF attempts > MaxFailed THEN "failed" ELSE tab[t].verdict)
  /\ UNCHANGED <<member, attempts, admin>>

CountAttempts(t) ==
  /\ InJoin(t, "counting")
  /\ JoinGoes(t, IF attempts >= MaxFailed THEN "failed" ELSE tab[t].verdict)
  /\ UNCHANGED <<member, attempts, admin>>

(* The insert is repeated while its answer is lost: any of its calls may   *)
(* have left a row, or none.                                               *)
RecordAttempt(t) ==
  /\ InJoin(t, "recording")
  /\ \E n \in 0 .. InsertAttempts : attempts' = attempts + n
  /\ JoinGoes(t, "failed")
  /\ UNCHANGED <<member, admin>>

(* The key of workspace_members lets one insert through. When its answer   *)
(* is lost, the repeated one fails.                                        *)
InsertMember(t) ==
  /\ InJoin(t, "inserting")
  /\ \/ member' = TRUE /\ JoinGoes(t, IF member THEN "failed" ELSE "done")
     \/ member' \in {member, TRUE} /\ JoinGoes(t, "failed")
  /\ UNCHANGED <<attempts, admin>>

(* A call before the verdict raises.                                       *)
JoinBreaks(t) ==
  /\ tab[t].page # "closed" /\ tab[t].join \in {"sent", "found", "counting"}
  /\ JoinGoes(t, "failed")
  /\ UNCHANGED <<member, attempts, admin>>

(* Attempts leave the window.                                              *)
AttemptsExpire ==
  /\ attempts > 0
  /\ attempts' = attempts - 1
  /\ UNCHANGED <<tab, member, admin>>

-----------------------------------------------------------------------------
Next ==
  \/ OpenCard
  \/ ReadInvite
  \/ InviteLands
  \/ \E on \in BOOLEAN : ClickLink(on)
  \/ NewWorkspaceLink
  \/ \E on \in BOOLEAN : ClickPassword(on)
  \/ ChangePassword
  \/ SetLink
  \/ SetPassword
  \/ ReadForCode
  \/ ResetCode
  \/ \E m \in Mutations : MutationLands(m)
  \/ \E m \in Mutations : MutationFails(m)
  \/ \E t \in Tabs, l \in Copied : OpenLink(t, l)
  \/ \E t \in Tabs : Preview(t)
  \/ \E t \in Tabs, p \in {0, 1, 2} : Join(t, p)
  \/ \E t \in Tabs : Leave(t)
  \/ \E t \in Tabs : FindInvite(t)
  \/ \E t \in Tabs : CheckMember(t)
  \/ \E t \in Tabs : CountAttempts(t)
  \/ \E t \in Tabs : RecordAttempt(t)
  \/ \E t \in Tabs : InsertMember(t)
  \/ \E t \in Tabs : JoinBreaks(t)
  \/ AttemptsExpire

Spec == Init /\ [][Next]_vars

-----------------------------------------------------------------------------
(* A link that was reset, turned off, or is of an old workspace link when  *)
(* its button is pressed admits nobody, whatever is turned on while the    *)
(* request is served (members.py:264, members-view.tsx:388).               *)
DeadLinksStayOut == \A t \in Tabs : InJoin(t, "inserting") => ~tab[t].dead

(* The failed attempts of 15 minutes exceed their limit by no more than    *)
(* the rows of those that had counted before it was reached: one of each   *)
(* tab, with its repeated inserts (members.py:365-371).                    *)
AttemptsBounded == attempts < MaxFailed + InsertAttempts * Cardinality(Tabs)

(* As long as the card's requests do not overlap, it shows the links and   *)
(* the password as they are (setQueryData).                                *)
CardIsCurrent == tidy /\ ~Unanswered => \A s \in card.data : s = Out(invite)
=============================================================================
