-------------------------------- MODULE Login --------------------------------
(***************************************************************************)
(* Signing in and signing up (components/auth/login-view.tsx): the form,   *)
(* the code that confirms an address, the limit on the mails that carry    *)
(* codes (backend/app/routers/auth_rate_limit.py), and the way back to the *)
(* page that a visitor was sent to the form from (middleware.ts and        *)
(* lib/safe-next.ts).                                                      *)
(*                                                                         *)
(* One address, in one tab, within one day of the limit. Accounts and      *)
(* mails are those of Supabase Auth, which is external.                    *)
(*                                                                         *)
(* The view can be left while it waits: what it asked for goes on, and may *)
(* still sign in. Bound: one sign-in goes on like this at a time.          *)
(***************************************************************************)
EXTENDS Naturals, FiniteSets

CONSTANTS
  Asks,      \* requests for a mail that may be under way at a time
  MaxSends,  \* _MAX_SENDS_PER_WINDOW
  InsertAttempts,  \* calls that run_db makes for one insert
  MaxAsks    \* requests for a mail in all; bounds the runs

VARIABLES
  account,   \* of the address: "none", "unconfirmed", or "confirmed"
  mails,     \* mails sent to it
  rows,      \* its rows in verification_email_sends
  open,      \* history: requests let through because the API could not tell
  asked,     \* history: requests made
  ask,       \* the requests under way
  screen,    \* a page behind the sign-in, "form", "verify", or "away"
  mode,      \* of the form
  next,      \* where the login view goes once signed in
  headed,    \* history: the page that the visitor was on the way to
  loading,   \* what the login view waits for
  orphan,    \* the sign-in of a view that was left, if any
  session    \* whether there is a session

vars == <<account, mails, rows, open, asked, ask, screen, mode, next, headed, loading, orphan, session>>

Home == "/dashboard"
Views == {Home, "/settings?plan=pro"}
Links == Views \cup {"", "/login", "elsewhere"}  \* what ?next= may hold

Idle == [pc |-> "idle", for |-> "nothing"]
Ask == [pc : {"count", "record", "send", "refused"}, for : {"signup", "signin", "resend", "left"}]
Awaited == {"signup", "signin"}  \* "left": a sign-up of a view that was left

NoOrphan == [for |-> "nothing"]
Orphan == [for : {"signin", "code"}, next : Views, headed : Views]

TypeOK ==
  /\ account \in {"none", "unconfirmed", "confirmed"}
  /\ mails \in Nat /\ rows \in Nat /\ open \in Nat
  /\ asked \in 0 .. MaxAsks
  /\ ask \in [Asks -> Ask \cup {Idle}]
  /\ screen \in Views \cup {"form", "verify", "away"}
  /\ mode \in {"signin", "signup"}
  /\ next \in Views /\ headed \in Views
  /\ loading \in {"nothing", "signin", "mail", "code"}
  /\ orphan \in Orphan \cup {NoOrphan}
  /\ session \in BOOLEAN
  /\ session => account = "confirmed"
  /\ screen \in Views => session
  /\ loading = "mail" <=> \E c \in Asks : ask[c].for \in Awaited

Init ==
  /\ account \in {"none", "unconfirmed", "confirmed"}
  /\ mails = 0 /\ rows = 0 /\ open = 0 /\ asked = 0
  /\ ask = [c \in Asks |-> Idle]
  /\ screen = "away"
  /\ mode = "signin"
  /\ next = Home /\ headed = Home
  /\ loading = "nothing"
  /\ orphan = NoOrphan
  /\ session = FALSE

limiter == <<rows, open, asked, ask>>
view == <<screen, mode, next, loading, orphan>>

-----------------------------------------------------------------------------
(* The way to the form and back.                                           *)

(* Only pages of the site, and never the login page itself.                *)
SafeNext(link) == IF link \in Views THEN link ELSE Home

(* A page: the middleware sends a visitor without a session to the form.   *)
Visit(p) ==
  /\ screen = "away"
  /\ headed' = p
  /\ mode' = "signin"
  /\ IF session THEN screen' = p /\ UNCHANGED next
     ELSE screen' = "form" /\ next' = SafeNext(p)
  /\ UNCHANGED <<account, mails, limiter, loading, orphan, session>>

(* The login page, from a button of the pricing page or by its address.    *)
OpenLogin(link, m) ==
  /\ screen = "away"
  /\ headed' = SafeNext(link)
  /\ mode' = m
  /\ next' = SafeNext(link)
  /\ screen' = IF session THEN SafeNext(link) ELSE "form"
  /\ UNCHANGED <<account, mails, limiter, loading, orphan, session>>

(* What a view that is left waits for goes on without it.                  *)
Abandon(rest) ==
  /\ ask' = [c \in Asks |->
       CASE ask[c].for = "signup" -> [ask[c] EXCEPT !.for = "left"]
         [] ask[c].for = "signin" -> [ask[c] EXCEPT !.for = "resend"]
         [] OTHER -> ask[c]]
  /\ loading' = "nothing"
  /\ orphan' = IF loading \in {"signin", "code"} THEN [for |-> loading, next |-> next, headed |-> headed]
               ELSE rest

(* By a link of the page, at any time.                                     *)
Leave ==
  /\ screen # "away"
  /\ loading \in {"signin", "code"} => orphan = NoOrphan
  /\ screen' = "away"
  /\ Abandon(orphan)
  /\ UNCHANGED <<account, mails, rows, open, asked, mode, next, headed, session>>

(* A full navigation.                                                      *)
SignOut ==
  /\ screen \in Views
  /\ session' = FALSE
  /\ screen' = "form" /\ mode' = "signin"
  /\ next' = Home /\ headed' = Home
  /\ orphan' = NoOrphan
  /\ UNCHANGED <<account, mails, limiter, loading>>

Expire ==
  /\ session
  /\ session' = FALSE
  /\ screen' = IF screen \in Views THEN "away" ELSE screen
  /\ UNCHANGED <<account, mails, limiter, mode, next, headed, loading, orphan>>

Push == session' = TRUE /\ screen' = next

-----------------------------------------------------------------------------
(* The limit on mails. A request counts the rows and then inserts one,     *)
(* again if the answer is lost; if it fails the mail is sent all the same. *)

Wait(c, f) ==
  /\ ask[c] = Idle /\ asked < MaxAsks
  /\ asked' = asked + 1
  /\ ask' = [ask EXCEPT ![c] = [pc |-> "count", for |-> f]]

\* Mutant of Count: one mail too many.
CountMore(c) ==
  /\ ask[c].pc = "count"
  /\ ask' = [ask EXCEPT ![c] = [ask[c] EXCEPT !.pc = IF rows <= MaxSends THEN "record" ELSE "refused"]]
  /\ UNCHANGED <<account, mails, rows, open, asked, view, headed, session>>

Count(c) ==
  /\ ask[c].pc = "count"
  /\ ask' = [ask EXCEPT ![c] = [ask[c] EXCEPT !.pc = IF rows < MaxSends THEN "record" ELSE "refused"]]
  /\ UNCHANGED <<account, mails, rows, open, asked, view, headed, session>>

Record(c) ==
  /\ ask[c].pc = "record"
  /\ \E n \in 1 .. InsertAttempts : rows' = rows + n
  /\ ask' = [ask EXCEPT ![c] = [ask[c] EXCEPT !.pc = "send"]]
  /\ UNCHANGED <<account, mails, open, asked, view, headed, session>>

AskFails(c) ==
  /\ ask[c].pc \in {"count", "record"}
  /\ \E n \in 0 .. InsertAttempts : rows' = rows + n /\ (ask[c].pc = "count" => n = 0)
  /\ open' = open + 1
  /\ ask' = [ask EXCEPT ![c] = [ask[c] EXCEPT !.pc = "send"]]
  /\ UNCHANGED <<account, mails, asked, view, headed, session>>

(* Supabase mails a code to an address not confirmed yet, and says so to   *)
(* others too. A resend leaves the view's button alone.                    *)
Finish(c) ==
  /\ ask' = [ask EXCEPT ![c] = Idle]
  /\ loading' = IF ask[c].for \in Awaited THEN "nothing" ELSE loading

Send(c) ==
  /\ ask[c].pc = "send"
  /\ account' = IF ask[c].for \in {"signup", "left"} /\ account = "none" THEN "unconfirmed" ELSE account
  /\ mails' = IF account' = "unconfirmed" THEN mails + 1 ELSE mails
  /\ screen' = IF ask[c].for = "signup" THEN "verify" ELSE screen
  /\ Finish(c)
  /\ UNCHANGED <<rows, open, asked, mode, next, headed, orphan, session>>

(* The limit is reached, or Supabase fails.                                *)
NoMail(c) ==
  /\ ask[c].pc \in {"refused", "send"}
  /\ Finish(c)
  /\ UNCHANGED <<account, mails, rows, open, asked, screen, mode, next, headed, orphan, session>>

-----------------------------------------------------------------------------
(* The form and its second step.                                           *)

(* The two passwords typed are the same.                                   *)
SignUp(c) ==
  /\ screen = "form" /\ mode = "signup" /\ loading = "nothing"
  /\ loading' = "mail"
  /\ Wait(c, "signup")
  /\ UNCHANGED <<account, mails, rows, open, screen, mode, next, headed, orphan, session>>

SignIn ==
  /\ screen = "form" /\ mode = "signin" /\ loading = "nothing"
  /\ loading' = "signin"
  /\ UNCHANGED <<account, mails, limiter, screen, mode, next, headed, orphan, session>>

SignedIn ==
  /\ loading = "signin" /\ account = "confirmed"
  /\ loading' = "nothing"
  /\ Push
  /\ UNCHANGED <<account, mails, limiter, mode, next, headed, orphan>>

(* "not confirmed": on to the second step, with a new code.                *)
NotConfirmed(c) ==
  /\ loading = "signin" /\ account = "unconfirmed"
  /\ loading' = "mail"
  /\ screen' = "verify"
  /\ Wait(c, "signin")
  /\ UNCHANGED <<account, mails, rows, open, mode, next, headed, orphan, session>>

(* A wrong password or code, or no answer.                                 *)
Refused ==
  /\ loading \in {"signin", "code"}
  /\ loading' = "nothing"
  /\ UNCHANGED <<account, mails, limiter, screen, mode, next, headed, orphan, session>>

\* Mutant of SwitchMode: the other form forgets where the visitor was going.
SwitchModeAnew ==
  /\ screen = "form"
  /\ mode' = IF mode = "signin" THEN "signup" ELSE "signin"
  /\ next' = Home
  /\ UNCHANGED <<account, mails, limiter, screen, headed, loading, orphan, session>>

(* Also while a request is under way.                                      *)
SwitchMode ==
  /\ screen = "form"
  /\ mode' = IF mode = "signin" THEN "signup" ELSE "signin"
  /\ UNCHANGED <<account, mails, limiter, screen, next, headed, loading, orphan, session>>

Verify ==
  /\ screen = "verify" /\ loading = "nothing"
  /\ loading' = "code"
  /\ UNCHANGED <<account, mails, limiter, screen, mode, next, headed, orphan, session>>

Verified ==
  /\ loading = "code" /\ account = "unconfirmed" /\ mails > 0
  /\ account' = "confirmed"
  /\ loading' = "nothing"
  /\ Push
  /\ UNCHANGED <<mails, limiter, mode, next, headed, orphan>>

(* Nothing keeps this from being clicked again at once.                    *)
Resend(c) ==
  /\ screen = "verify"
  /\ Wait(c, "resend")
  /\ UNCHANGED <<account, mails, rows, open, view, headed, session>>

(* The code is typed into another tab.                                     *)
ConfirmedElsewhere ==
  /\ account = "unconfirmed" /\ mails > 0
  /\ account' = "confirmed"
  /\ UNCHANGED <<mails, limiter, view, headed, session>>

-----------------------------------------------------------------------------
(* The sign-in of a view that was left. Success takes the tab from where   *)
(* its visitor is by now, a login view that waits included.                *)

OrphanSignsIn ==
  /\ \/ orphan.for = "signin" /\ account = "confirmed" /\ UNCHANGED account
     \/ orphan.for = "code" /\ account = "unconfirmed" /\ mails > 0 /\ account' = "confirmed"
  /\ session' = TRUE
  /\ screen' = orphan.next /\ headed' = orphan.headed
  /\ Abandon(NoOrphan)
  /\ UNCHANGED <<mails, rows, open, asked, mode, next>>

(* Nothing shows the second step, but the mail is asked for.               *)
OrphanNotConfirmed(c) ==
  /\ orphan.for = "signin" /\ account = "unconfirmed"
  /\ orphan' = NoOrphan
  /\ Wait(c, "resend")
  /\ UNCHANGED <<account, mails, rows, open, screen, mode, next, loading, headed, session>>

(* Refused, or gone with its page.                                         *)
OrphanEnds ==
  /\ orphan # NoOrphan
  /\ orphan' = NoOrphan
  /\ UNCHANGED <<account, mails, limiter, screen, mode, next, loading, headed, session>>

Next ==
  \/ \E p \in Views : Visit(p)
  \/ \E link \in Links, m \in {"signin", "signup"} : OpenLogin(link, m)
  \/ Leave
  \/ SignOut
  \/ Expire
  \/ \E c \in Asks : Count(c)
  \/ \E c \in Asks : Record(c)
  \/ \E c \in Asks : AskFails(c)
  \/ \E c \in Asks : Send(c)
  \/ \E c \in Asks : NoMail(c)
  \/ \E c \in Asks : SignUp(c)
  \/ SignIn
  \/ SignedIn
  \/ \E c \in Asks : NotConfirmed(c)
  \/ Refused
  \/ SwitchMode
  \/ Verify
  \/ Verified
  \/ \E c \in Asks : Resend(c)
  \/ ConfirmedElsewhere
  \/ OrphanSignsIn
  \/ \E c \in Asks : OrphanNotConfirmed(c)
  \/ OrphanEnds

Spec == Init /\ [][Next]_vars

-----------------------------------------------------------------------------
(* An address gets no more mails than the limit, but for those sent while  *)
(* the API could not be asked and one for every further request that was   *)
(* counting at the same time (auth_rate_limit.py:37-53).                   *)
MailsBounded == mails <= MaxSends + open + (Cardinality(Asks) - 1)

(* Whoever signs in, directly or by way of signing up, resending and       *)
(* confirming, arrives at the page that they were on the way to when they  *)
(* opened the view that signed them in, although that view, or the one     *)
(* that they opened since, was left meanwhile (login-view.tsx:108).        *)
ArrivesWhereHeaded == screen \in Views => screen = headed
=============================================================================
