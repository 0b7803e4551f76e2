-------------------------------- MODULE OAuth --------------------------------
(***************************************************************************)
(* Connecting a client of the MCP server: the client's registration and    *)
(* its requests (backend/app/services/mcp_oauth_provider.py), the consent  *)
(* page, which the user may have open in several tabs                      *)
(* (app/_old-dashboard/oauth/authorize/page.tsx, shown by                  *)
(* app/(dashboard)/oauth/authorize/page.tsx), the decision                 *)
(* (backend/app/routers/oauth.py) and the exchange of the code for an API  *)
(* key. What the server remembers of all this but the key is in memory.    *)
(*                                                                         *)
(* A code is the key that it will hand out. Scopes, PKCE and redirect URIs *)
(* are left out; the mcp package checks them.                              *)
(***************************************************************************)
EXTENDS Naturals, Sequences, FiniteSets, QueryCache

CONSTANTS
  Clients,     \* apps that connect
  Tabs,        \* of the user's browser
  Workspaces,
  MaxRequests, \* authorization requests; bounds the runs
  MaxKeys      \* keys minted; bounds the runs

VARIABLES
  registered,  \* _clients
  asked,       \* history: the client of each request, in the order of /authorize
  pending,     \* _pending
  aged,        \* the requests older than _REQUEST_TTL_SECONDS
  codes,       \* _codes
  keys,        \* the rows of api_keys minted, and the request each is for
  offered,     \* the codes that redirects brought to a client
  holds,       \* the tokens a client has
  redirects,   \* history: how often a decision on a request was redirected
  member,      \* the workspaces of the user
  tab,         \* the consent page in each tab
  call         \* the decision each tab has sent

vars == <<registered, asked, pending, aged, codes, keys, offered, holds, redirects, member, tab, call>>

Requests == DOMAIN asked
KeyIds == DOMAIN keys

Closed == [page |-> "closed"]
Page == [page : {"loading", "consent", "expired"},
         request : 1 .. MaxRequests,
         list : SUBSET Workspaces,      \* workspaces
         first : Maybe(Workspaces),     \* workspaces[0]
         chosen : Maybe(Workspaces),    \* workspaceId
         submitting : BOOLEAN]

(* A decision: `ws` is empty to deny, `key` is the key minted for it, 0 if *)
(* none. `here`: the page is still there to hear of it; `alone`: history,  *)
(* nothing else has touched the request or its membership meanwhile.       *)
Idle == [pc |-> "idle"]
Call == [pc : {"pending", "member", "mint", "complete", "redirect", "refused"},
         request : 1 .. MaxRequests,
         ws : Maybe(Workspaces),
         key : 0 .. MaxKeys,
         here : BOOLEAN,
         alone : BOOLEAN]

TypeOK ==
  /\ registered \subseteq Clients
  /\ asked \in Seq(Clients) /\ Len(asked) <= MaxRequests
  /\ pending \subseteq Requests /\ aged \subseteq Requests
  /\ keys \in Seq([ws : Workspaces, request : Requests]) /\ Len(keys) <= MaxKeys
  /\ codes \subseteq KeyIds /\ offered \subseteq KeyIds
  /\ holds \subseteq KeyIds
  /\ redirects \in [1 .. MaxRequests -> Nat]
  /\ member \subseteq Workspaces
  /\ tab \in [Tabs -> {Closed} \cup Page]
  /\ call \in [Tabs -> {Idle} \cup Call]
  /\ \A t \in Tabs : tab[t] # Closed /\ tab[t].submitting => call[t] # Idle /\ call[t].here

Init ==
  /\ registered = {}
  /\ asked = <<>>
  /\ pending = {} /\ aged = {}
  /\ codes = {} /\ keys = <<>> /\ offered = {} /\ holds = {}
  /\ redirects = [r \in 1 .. MaxRequests |-> 0]
  /\ member \in SUBSET Workspaces
  /\ tab = [t \in Tabs |-> Closed]
  /\ call = [t \in Tabs |-> Idle]

memory == <<registered, pending, codes>>
client == <<offered, holds>>
history == <<asked, redirects>>

Going == {t \in Tabs : call[t] # Idle}

(* The calls of others on request r no longer run alone.                   *)
Disturbed(r, others) ==
  [t \in Tabs |-> IF t \in others \cap Going /\ call[t].request = r
                  THEN [call[t] EXCEPT !.alone = FALSE] ELSE call[t]]

-----------------------------------------------------------------------------
(* The client and the provider.                                            *)

Register(c) ==
  /\ registered' = registered \cup {c}
  /\ UNCHANGED <<pending, aged, codes, keys, client, history, member, tab, call>>

(* _sweep_expired                                                          *)
Kept == pending \ aged

(* /authorize: the client's user is sent to the consent page.              *)
Authorize(c) ==
  /\ c \in registered /\ Len(asked) < MaxRequests
  /\ asked' = Append(asked, c)
  /\ pending' = Kept \cup {Len(asked) + 1}
  /\ UNCHANGED <<registered, aged, codes, keys, client, redirects, member, tab, call>>

Age(r) ==
  /\ r \in pending \ aged
  /\ aged' = aged \cup {r}
  /\ call' = Disturbed(r, Tabs)
  /\ UNCHANGED <<memory, keys, client, history, member, tab>>

(* load_authorization_code and exchange_authorization_code, without a      *)
(* pause between them; whether the answer arrives or not.                  *)
Exchange(c, k) ==
  /\ k \in offered \cap codes /\ asked[keys[k].request] = c /\ c \in registered
  /\ codes' = codes \ {k}
  /\ holds' \in {holds, holds \cup {k}}
  /\ UNCHANGED <<registered, pending, aged, keys, offered, history, member, tab, call>>

CodeExpires(k) ==
  /\ k \in codes
  /\ codes' = codes \ {k}
  /\ UNCHANGED <<registered, pending, aged, keys, client, history, member, tab, call>>

(* The process restarts: decisions under way end in an error.              *)
Restart ==
  /\ registered # {}
  /\ registered' = {} /\ pending' = {} /\ codes' = {}
  /\ call' = [t \in Tabs |-> IF call[t] = Idle THEN Idle ELSE [call[t] EXCEPT !.pc = "refused", !.alone = FALSE]]
  /\ UNCHANGED <<aged, keys, client, history, member, tab>>

(* The user joins a workspace, or is removed from it.                      *)
MembershipChanges(w) ==
  /\ member' = IF w \in member THEN member \ {w} ELSE member \cup {w}
  /\ UNCHANGED <<memory, aged, keys, client, history, tab, call>>

-----------------------------------------------------------------------------
(* The consent page.                                                       *)

OpenConsent(t, r) ==
  /\ tab[t] = Closed /\ r \in Requests
  /\ tab' = [tab EXCEPT ![t] = [page |-> "loading", request |-> r, list |-> {}, first |-> {},
                                chosen |-> {}, submitting |-> FALSE]]
  /\ UNCHANGED <<memory, aged, keys, client, history, member, call>>

(* get_consent_info, when the page loads and when the browser reconnects.  *)
LoadConsent(t) ==
  /\ tab[t].page \in {"loading", "consent"}
  /\ pending' = Kept
  /\ IF tab[t].request \notin Kept
     THEN tab' = [tab EXCEPT ![t] = [tab[t] EXCEPT !.page = "expired"]]
     ELSE \E f \in Maybe(member) :
            /\ f = {} => member = {}
            /\ tab' = [tab EXCEPT ![t] = [tab[t] EXCEPT !.page = "consent", !.list = member, !.first = f]]
  /\ UNCHANGED <<registered, codes, aged, keys, client, history, member, call>>

(* It is not asked again, and the page says expired.                       *)
LoadFails(t) ==
  /\ tab[t].page \in {"loading", "consent"}
  /\ tab' = [tab EXCEPT ![t] = [tab[t] EXCEPT !.page = "expired"]]
  /\ UNCHANGED <<memory, aged, keys, client, history, member, call>>

Pick(t, w) ==
  /\ tab[t].page = "consent" /\ w \in tab[t].list
  /\ tab' = [tab EXCEPT ![t] = [tab[t] EXCEPT !.chosen = {w}]]
  /\ UNCHANGED <<memory, aged, keys, client, history, member, call>>

(* A choice made is kept when the list is read again without it.           *)
Selected(t) == IF tab[t].chosen # {} THEN tab[t].chosen ELSE tab[t].first

Decide(t, ws) ==
  /\ tab[t].page = "consent" /\ ~tab[t].submitting /\ call[t] = Idle
  /\ tab' = [tab EXCEPT ![t] = [tab[t] EXCEPT !.submitting = TRUE]]
  /\ call' = [Disturbed(tab[t].request, Tabs) EXCEPT ![t] =
                [pc |-> "pending", request |-> tab[t].request, ws |-> ws, key |-> 0, here |-> TRUE,
                 alone |-> \A u \in Going : call[u].request # tab[t].request]]
  /\ UNCHANGED <<memory, aged, keys, client, history, member>>

Approve(t) == tab[t].page = "consent" /\ tab[t].list # {} /\ Decide(t, Selected(t))
Deny(t) == Decide(t, {})

LeaveTab(t) ==
  /\ tab[t] # Closed
  /\ tab' = [tab EXCEPT ![t] = Closed]
  /\ call' = [call EXCEPT ![t] = IF call[t] = Idle THEN Idle ELSE [call[t] EXCEPT !.here = FALSE]]
  /\ UNCHANGED <<memory, aged, keys, client, history, member>>

-----------------------------------------------------------------------------
(* The decision.                                                           *)

Goto(t, pc) == call' = [call EXCEPT ![t] = [call[t] EXCEPT !.pc = pc]]

(* submit_consent: the request is looked up, ...                           *)
LookUp(t) ==
  /\ call[t].pc = "pending" /\ call[t].ws # {}
  /\ pending' = Kept
  /\ Goto(t, IF call[t].request \in Kept THEN "member" ELSE "refused")
  /\ UNCHANGED <<registered, codes, aged, keys, client, history, member, tab>>

\* Mutant of CheckMember: the key is minted first.
CheckMemberAfter(t) ==
  /\ call[t].pc = "member" /\ Len(keys) < MaxKeys
  /\ \E w \in call[t].ws :
       /\ keys' = Append(keys, [ws |-> w, request |-> call[t].request])
       /\ call' = [call EXCEPT ![t] = [call[t] EXCEPT !.pc = IF w \in member THEN "complete" ELSE "refused",
                                                      !.key = Len(keys) + 1]]
  /\ UNCHANGED <<memory, aged, client, history, member, tab>>

(* ... the membership checked, ...                                         *)
CheckMember(t) ==
  /\ call[t].pc = "member"
  /\ Goto(t, IF call[t].ws \subseteq member THEN "mint" ELSE "refused")
  /\ UNCHANGED <<memory, aged, keys, client, history, member, tab>>

(* ... the key minted, ...                                                 *)
Mint(t) ==
  /\ call[t].pc = "mint" /\ Len(keys) < MaxKeys
  /\ \E w \in call[t].ws : keys' = Append(keys, [ws |-> w, request |-> call[t].request])
  /\ call' = [call EXCEPT ![t] = [call[t] EXCEPT !.pc = "complete", !.key = Len(keys) + 1]]
  /\ UNCHANGED <<memory, aged, client, history, member, tab>>

Decided(t) ==
  /\ Goto(t, "redirect")
  /\ redirects' = [redirects EXCEPT ![call[t].request] = redirects[call[t].request] + 1]

\* Mutant of Complete: the request is not taken out of the pending ones.
CompleteOnly(t) ==
  /\ call[t].pc = "complete"
  /\ codes' = codes \cup {call[t].key}
  /\ Decided(t)
  /\ UNCHANGED <<registered, pending, aged, keys, client, asked, member, tab>>

(* ... and the request completed (complete_authorization), if it is still  *)
(* there: nothing takes the key back otherwise.                            *)
Complete(t) ==
  /\ call[t].pc = "complete"
  /\ IF call[t].request \in pending
     THEN /\ pending' = pending \ {call[t].request}
          /\ codes' = codes \cup {call[t].key}
          /\ Decided(t)
     ELSE /\ Goto(t, "refused")
          /\ UNCHANGED <<pending, codes, redirects>>
  /\ UNCHANGED <<registered, aged, keys, client, asked, member, tab>>

(* deny_authorization, however old the request.                            *)
ServeDeny(t) ==
  /\ call[t].pc = "pending" /\ call[t].ws = {}
  /\ IF call[t].request \in pending
     THEN pending' = pending \ {call[t].request} /\ Decided(t)
     ELSE Goto(t, "refused") /\ UNCHANGED <<pending, redirects>>
  /\ UNCHANGED <<registered, codes, aged, keys, client, asked, member, tab>>

(* The browser follows the redirect to the client, also from another page  *)
(* that it shows by now, but not once it was closed.                       *)
Redirected(t) ==
  /\ call[t].pc = "redirect"
  /\ call' = [call EXCEPT ![t] = Idle]
  /\ \/ tab' = [tab EXCEPT ![t] = Closed] /\ offered' = offered \cup ({call[t].key} \ {0})
     \/ ~call[t].here /\ UNCHANGED <<tab, offered>>
  /\ UNCHANGED <<memory, aged, keys, holds, history, member>>

Error(t) ==
  /\ call[t] # Idle
  /\ call' = [call EXCEPT ![t] = Idle]
  /\ tab' = [tab EXCEPT ![t] = IF call[t].here THEN [tab[t] EXCEPT !.submitting = FALSE] ELSE tab[t]]
  /\ UNCHANGED <<memory, aged, keys, client, history, member>>

Next ==
  \/ \E c \in Clients : Register(c)
  \/ \E c \in Clients : Authorize(c)
  \/ \E r \in Requests : Age(r)
  \/ \E c \in Clients, k \in KeyIds : Exchange(c, k)
  \/ \E k \in codes : CodeExpires(k)
  \/ Restart
  \/ \E w \in Workspaces : MembershipChanges(w)
  \/ \E t \in Tabs, r \in Requests : OpenConsent(t, r)
  \/ \E t \in Tabs : LoadConsent(t)
  \/ \E t \in Tabs : LoadFails(t)
  \/ \E t \in Tabs, w \in Workspaces : Pick(t, w)
  \/ \E t \in Tabs : Approve(t)
  \/ \E t \in Tabs : Deny(t)
  \/ \E t \in Tabs : LeaveTab(t)
  \/ \E t \in Tabs : LookUp(t)
  \/ \E t \in Tabs : CheckMember(t)
  \/ \E t \in Tabs : Mint(t)
  \/ \E t \in Tabs : Complete(t)
  \/ \E t \in Tabs : ServeDeny(t)
  \/ \E t \in Tabs : Redirected(t)
  \/ \E t \in Tabs : Error(t)

Spec == Init /\ [][Next]_vars

-----------------------------------------------------------------------------
(* A request is decided once, approved or denied, whatever tabs it is open *)
(* in and however their decisions overlap: it never brings its client two  *)
(* tokens (mcp_oauth_provider.py:103).                                     *)
DecidedOnce ==
  \A r \in Requests :
    /\ redirects[r] <= 1
    /\ Cardinality({k \in holds : keys[k].request = r}) <= 1

(* A decision that the page is told was refused has left no key behind,    *)
(* unless another decision, the request's age or a restart came in between *)
(* (oauth.py:82: the key is minted before the request is completed).       *)
RefusalLeavesNoKey ==
  \A t \in Going : call[t].pc = "refused" /\ call[t].alone => call[t].key = 0
=============================================================================
