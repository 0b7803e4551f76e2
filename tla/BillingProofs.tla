---------------------------- MODULE BillingProofs -----------------------------
(***************************************************************************)
(* Proofs about paid plans, for any number of memberships and failures.    *)
(***************************************************************************)
EXTENDS Billing, SequenceTheorems, TLAPS

-----------------------------------------------------------------------------
(* The inductive invariant.                                                *)

A(m) == [type |-> "activated", of |-> m]
D(m) == [type |-> "deactivated", of |-> m]
Pending(e) == \E i \in DOMAIN events : events[i] = e

(* Events are about memberships bought, and a deactivation about one that  *)
(* is not charged for; an activation comes after all that is about earlier *)
(* memberships, and before all else about its own.                         *)
Made ==
  /\ \A e \in Event : Pending(e) =>
       /\ e.of \in DOMAIN bought
       /\ e.type = "deactivated" => e.of \notin active
  /\ \A i, j \in DOMAIN events : events[i].type = "activated" /\ j < i => events[j].of < events[i].of

(* The membership m is on file, charged for or not, and has its plan.      *)
Has(m) == sub = {[membership |-> m, active |-> TRUE]} /\ plan = bought[m]

(* The last membership put on file is h: those before it are over, but for *)
(* the spared, and done with; those after it have their activation still   *)
(* to come; and once h itself has neither event to come, the plan is its,  *)
(* or the free one. The last one bought has not been spared yet.           *)
Filed(h) ==
  /\ h \in Nat
  /\ h = 0 <=> sub = {}
  /\ \A s \in sub : s.membership = h
  /\ \A m \in DOMAIN bought :
       /\ m < h => m \notin active \ spared /\ ~Pending(A(m))
       /\ m > h => Pending(A(m))
       /\ Pending(A(m)) /\ m \notin active => Pending(D(m))
  /\ Len(bought) \notin spared
  /\ h = 0 => plan = "free"
  /\ h # 0 => h \in DOMAIN bought
  /\ h # 0 /\ ~Pending(A(h)) /\ ~Pending(D(h)) => IF h \in active THEN Has(h) ELSE plan = "free"

(* The one run is for the first event, and has done what its steps say.    *)
Fits(e, r, h) ==
  /\ e = events[1]
  /\ r.pc = "cancel" => e.type = "activated" /\ e.of # h /\ r.onFile = {h}
  /\ r.pc = "subscription" => IF e.type = "activated" THEN e.of = h \/ h \notin active \ spared ELSE e.of = h
  /\ r.pc = "plan" => sub = {[membership |-> e.of, active |-> e.type = "activated"]}
  /\ r.pc = "answer" => IF e.type = "activated" THEN Has(e.of) ELSE e.of = h => plan = "free"

RunsFor(h) == \A e \in Event : \A r \in run[e] : Fits(e, r, h)

InOrder == orderly => \E h \in Nat : Filed(h) /\ RunsFor(h)

Inv == TypeOK /\ Made /\ InOrder

-----------------------------------------------------------------------------
(* Sequences.                                                              *)

(* What is left when the i-th is taken out.                                *)
LEMMA RemoveAtProps ==
  ASSUME NEW S, NEW s \in Seq(S), NEW i \in 1 .. Len(s)
  PROVE  /\ RemoveAt(s, i) \in Seq(S)
         /\ Len(RemoveAt(s, i)) = Len(s) - 1
         /\ \A j \in 1 .. Len(s) - 1 : RemoveAt(s, i)[j] = IF j < i THEN s[j] ELSE s[j + 1]
<1>1. /\ SubSeq(s, 1, i - 1) \in Seq(S) /\ Len(SubSeq(s, 1, i - 1)) = i - 1
      /\ \A j \in 1 .. i - 1 : SubSeq(s, 1, i - 1)[j] = s[j]
  OBVIOUS
<1>2. /\ SubSeq(s, i + 1, Len(s)) \in Seq(S) /\ Len(SubSeq(s, i + 1, Len(s))) = Len(s) - i
      /\ \A j \in 1 .. Len(s) - i : SubSeq(s, i + 1, Len(s))[j] = s[i + j]
  OBVIOUS
<1> DEFINE a == SubSeq(s, 1, i - 1)
           b == SubSeq(s, i + 1, Len(s))
<1>3. RemoveAt(s, i) = a \o b
  BY DEF RemoveAt
<1>4. /\ a \in Seq(S) /\ b \in Seq(S) /\ Len(a) = i - 1 /\ Len(b) = Len(s) - i
      /\ \A j \in 1 .. i - 1 : a[j] = s[j]
      /\ \A j \in 1 .. Len(s) - i : b[j] = s[i + j]
  BY <1>1, <1>2
<1> HIDE DEF a, b
<1>5. /\ a \o b \in Seq(S) /\ Len(a \o b) = Len(a) + Len(b)
      /\ \A j \in 1 .. Len(a) + Len(b) : (a \o b)[j] = IF j <= Len(a) THEN a[j] ELSE b[j - Len(a)]
  BY <1>4, ConcatProperties
<1>6. \A j \in 1 .. Len(s) - 1 : (a \o b)[j] = IF j < i THEN s[j] ELSE s[j + 1]
  <2> TAKE j \in 1 .. Len(s) - 1
  <2>1. CASE j < i
    BY <1>4, <1>5, <2>1
  <2>2. CASE ~(j < i)
    <3>1. j - Len(a) \in 1 .. Len(s) - i /\ i + (j - Len(a)) = j + 1
      BY <1>4, <2>2
    <3>2. b[j - Len(a)] = s[j + 1]
      BY <1>4, <3>1
    <3>3. (a \o b)[j] = b[j - Len(a)]
      BY <1>4, <1>5, <2>2
    <3> QED BY <2>2, <3>2, <3>3
  <2> QED BY <2>1, <2>2
<1> QED BY <1>3, <1>4, <1>5, <1>6

(* An event that is new.                                                   *)
LEMMA EventAdded ==
  ASSUME events \in Seq(Event), NEW x \in Event, events' = Append(events, x)
  PROVE  /\ events' \in Seq(Event) /\ Len(events') = Len(events) + 1
         /\ \A i \in DOMAIN events : i \in DOMAIN events' /\ events'[i] = events[i]
         /\ \A i \in DOMAIN events' : i \in DOMAIN events \/ (events'[i] = x /\ i = Len(events) + 1)
         /\ \A e \in Event : Pending(e)' <=> Pending(e) \/ e = x
         /\ events # <<>> => events'[1] = events[1]
<1>1. /\ events' \in Seq(Event) /\ Len(events') = Len(events) + 1 /\ Len(events) \in Nat
      /\ DOMAIN events = 1 .. Len(events) /\ DOMAIN events' = 1 .. Len(events) + 1
      /\ \A i \in 1 .. Len(events) : events'[i] = events[i]
      /\ events'[Len(events) + 1] = x
  OBVIOUS
<1>2. \A i \in DOMAIN events : i \in DOMAIN events' /\ events'[i] = events[i]
  BY <1>1
<1>3. \A i \in DOMAIN events' : i \in DOMAIN events \/ (events'[i] = x /\ i = Len(events) + 1)
  BY <1>1
<1>4. Len(events) + 1 \in DOMAIN events'
  BY <1>1
<1>5. \A e \in Event : Pending(e)' <=> Pending(e) \/ e = x
  BY <1>1, <1>2, <1>3, <1>4 DEF Pending
<1>6. events # <<>> => 1 \in DOMAIN events
  BY <1>1
<1> QED BY <1>1, <1>2, <1>3, <1>5, <1>6

(* An event that has its answer.                                           *)
LEMMA EventTaken ==
  ASSUME TypeOK, NEW k \in DOMAIN events, events' = RemoveAt(events, k)
  PROVE  /\ events' \in Seq(Event)
         /\ \A i \in DOMAIN events' : /\ events'[i] = events[IF i < k THEN i ELSE i + 1]
                                      /\ (IF i < k THEN i ELSE i + 1) \in DOMAIN events \ {k}
         /\ DOMAIN events' \subseteq Nat
         /\ \A e \in Event : Pending(e)' <=> Pending(e) /\ e # events[k]
<1>1. /\ events \in Seq(Event) /\ Len(events) \in Nat /\ DOMAIN events = 1 .. Len(events)
      /\ \A i, j \in DOMAIN events : events[i] = events[j] => i = j
  BY DEF TypeOK
<1>2. /\ events' \in Seq(Event) /\ DOMAIN events' = 1 .. Len(events) - 1
      /\ \A i \in 1 .. Len(events) - 1 : events'[i] = IF i < k THEN events[i] ELSE events[i + 1]
  <2>1. k \in 1 .. Len(events)
    BY <1>1
  <2>2. /\ events' \in Seq(Event) /\ Len(events') = Len(events) - 1
        /\ \A i \in 1 .. Len(events) - 1 : events'[i] = IF i < k THEN events[i] ELSE events[i + 1]
    BY <1>1, <2>1, RemoveAtProps
  <2>3. DOMAIN events' = 1 .. Len(events')
    BY <2>2
  <2> QED BY <2>2, <2>3
<1>3. \A i \in DOMAIN events' : /\ events'[i] = events[IF i < k THEN i ELSE i + 1]
                                /\ (IF i < k THEN i ELSE i + 1) \in DOMAIN events \ {k}
  BY <1>1, <1>2
<1>4. \A i \in DOMAIN events \ {k} : \E j \in DOMAIN events' : events'[j] = events[i]
  <2> TAKE i \in DOMAIN events \ {k}
  <2>1. CASE i < k
    <3>1. i \in DOMAIN events' /\ events'[i] = events[i]
      BY <1>1, <1>2, <2>1
    <3> QED BY <3>1
  <2>2. CASE i > k
    <3>1. i - 1 \in DOMAIN events' /\ events'[i - 1] = events[i]
      BY <1>1, <1>2, <2>2
    <3> QED BY <3>1
  <2> QED BY <1>1, <2>1, <2>2
<1>5. ASSUME NEW e \in Event PROVE Pending(e)' <=> Pending(e) /\ e # events[k]
  <2>1. ASSUME Pending(e)' PROVE Pending(e) /\ e # events[k]
    <3>1. PICK i \in DOMAIN events' : events'[i] = e
      BY <2>1 DEF Pending
    <3>2. PICK j \in DOMAIN events \ {k} : events[j] = e
      BY <1>3, <3>1
    <3> QED BY <1>1, <3>2 DEF Pending
  <2>2. ASSUME Pending(e), e # events[k] PROVE Pending(e)'
    BY <1>4, <2>2 DEF Pending
  <2> QED BY <2>1, <2>2
<1> QED BY <1>2, <1>3, <1>5

-----------------------------------------------------------------------------
(* Types and events.                                                       *)

LEMMA EventFields ==
  /\ \A m \in Ids : A(m) \in Event /\ D(m) \in Event
  /\ \A e \in Event : e.of \in Ids /\ e.of \in Nat /\ e.of # 0
  /\ \A e \in Event : e.type = "activated" => e = A(e.of)
  /\ \A e \in Event : e.type = "deactivated" => e = D(e.of)
  /\ \A m, n \in Nat : A(m) # D(n) /\ (m # n => A(m) # A(n) /\ D(m) # D(n))
<1>1. Ids \subseteq Nat \ {0}
  BY MembershipsAssumption DEF Ids
<1>2. \A m \in Ids : A(m) \in Event /\ D(m) \in Event
  BY DEF A, D, Event
<1>3. \A e \in Event : e.of \in Ids /\ (e.type = "activated" => e = A(e.of)) /\ (e.type = "deactivated" => e = D(e.of))
  BY DEF A, D, Event
<1>4. \A m, n : A(m) # D(n) /\ (m # n => A(m) # A(n) /\ D(m) # D(n))
  <2> TAKE m, n
  <2>1. A(m).type # D(n).type /\ A(m).of = m /\ A(n).of = n /\ D(m).of = m /\ D(n).of = n
    BY DEF A, D
  <2> QED BY <2>1
<1> QED BY <1>1, <1>2, <1>3, <1>4

LEMMA Singletons == ASSUME NEW S PROVE {} \in Maybe(S) /\ \A x \in S : {x} \in Maybe(S)
BY DEF Maybe

LEMMA Bought ==
  ASSUME TypeOK
  PROVE  /\ DOMAIN bought = 1 .. Len(bought) /\ Len(bought) \in 0 .. Memberships /\ DOMAIN bought \subseteq Ids
         /\ \A m \in DOMAIN bought : bought[m] \in Paid
BY MembershipsAssumption DEF TypeOK, Ids

(* Distinct events stay distinct when a new one is added, and what is made *)
(* of them stays so.                                                       *)
LEMMA AddedType ==
  ASSUME TypeOK, Made, NEW x \in Event, ~Pending(x), events' = Append(events, x)
  PROVE  /\ \A i, j \in DOMAIN events' : events'[i] = events'[j] => i = j
         /\ (x.type = "activated" => \A e \in Event : Pending(e) => e.of < x.of) =>
              \A i, j \in DOMAIN events' : events'[i].type = "activated" /\ j < i => events'[j].of < events'[i].of
<1>1. events \in Seq(Event) /\ DOMAIN events = 1 .. Len(events) /\ Len(events) \in Nat
      /\ \A i, j \in DOMAIN events : events[i] = events[j] => i = j
  BY DEF TypeOK
<1>2. /\ \A i \in DOMAIN events : i \in DOMAIN events' /\ events'[i] = events[i] /\ events[i] # x /\ events[i] \in Event
      /\ \A i \in DOMAIN events' : i \in DOMAIN events \/ (events'[i] = x /\ i = Len(events) + 1)
  BY <1>1, EventAdded DEF Pending
<1>3. \A i, j \in DOMAIN events' : events'[i] = events'[j] => i = j
  BY <1>1, <1>2
<1>4. ASSUME x.type = "activated" => \A e \in Event : Pending(e) => e.of < x.of,
             NEW i \in DOMAIN events', NEW j \in DOMAIN events', events'[i].type = "activated", j < i
      PROVE  events'[j].of < events'[i].of
  <2>1. j \in DOMAIN events
    BY <1>1, <1>2, <1>4
  <2>2. CASE i \in DOMAIN events
    BY <1>2, <1>4, <2>1, <2>2 DEF Made
  <2>3. CASE i \notin DOMAIN events
    BY <1>2, <1>4, <2>1, <2>3 DEF Pending
  <2> QED BY <2>2, <2>3
<1> QED BY <1>3, <1>4

(* A membership that is charged for no more, with its event.               *)
LEMMA Deactivated ==
  ASSUME TypeOK, Made, NEW m \in Ids, Deactivate(m), bought' = bought
  PROVE  /\ active' = active \ {m} /\ active' \subseteq DOMAIN bought
         /\ events' \in Seq(Event)
         /\ \A i, j \in DOMAIN events' : events'[i] = events'[j] => i = j
         /\ \A e \in Event : Pending(e)' <=> Pending(e) \/ (m \in active /\ e = D(m))
         /\ events # <<>> => events'[1] = events[1]
         /\ Made'
<1>1. active' = active \ {m} /\ active' \subseteq DOMAIN bought
  BY DEF Deactivate, TypeOK
<1>2. CASE m \notin active
  BY <1>1, <1>2 DEF Deactivate, TypeOK, Made, Pending
<1>3. CASE m \in active
  <2>1. events' = Append(events, D(m)) /\ D(m) \in Event /\ D(m).type = "deactivated" /\ D(m).of = m /\ m \in DOMAIN bought
    BY <1>3, EventFields DEF Deactivate, D, TypeOK
  <2>2. ~Pending(D(m))
    BY <1>3, <2>1 DEF Made
  <2>3. /\ \A i, j \in DOMAIN events' : events'[i] = events'[j] => i = j
        /\ \A i, j \in DOMAIN events' : events'[i].type = "activated" /\ j < i => events'[j].of < events'[i].of
    BY <2>1, <2>2, AddedType
  <2>4. /\ events' \in Seq(Event) /\ \A e \in Event : Pending(e)' <=> Pending(e) \/ e = D(m)
        /\ events # <<>> => events'[1] = events[1]
    BY <2>1, EventAdded DEF TypeOK
  <2>5. Made'
    BY <1>1, <2>1, <2>3, <2>4 DEF Made
  <2> QED BY <1>1, <1>3, <2>3, <2>4, <2>5
<1> QED BY <1>2, <1>3

LEMMA BuyType ==
  ASSUME TypeOK, Made, NEW p \in Paid, Buy(p)
  PROVE  /\ TypeOK' /\ Made'
         /\ \A m \in DOMAIN bought : bought'[m] = bought[m]
         /\ DOMAIN bought' = DOMAIN bought \cup {Len(bought) + 1}
         /\ \A e \in Event : Pending(e)' <=> Pending(e) \/ e = A(Len(bought) + 1)
         /\ events # <<>> => events'[1] = events[1]
<1> DEFINE n == Len(bought) + 1
<1>1. /\ n \in Ids /\ n \in Nat /\ bought' \in Seq(Paid) /\ Len(bought') = n /\ DOMAIN bought' = DOMAIN bought \cup {n}
      /\ n \notin DOMAIN bought /\ (\A m \in DOMAIN bought : bought'[m] = bought[m] /\ m < n)
      /\ active' = active \cup {n} /\ n <= Memberships
  BY MembershipsAssumption DEF Buy, TypeOK, Ids
<1>2. A(n) \in Event /\ A(n).type = "activated" /\ A(n).of = n /\ events' = Append(events, A(n))
  BY <1>1, EventFields DEF A, Buy
<1>3. ~Pending(A(n)) /\ \A e \in Event : Pending(e) => e.of < n
  BY <1>1, <1>2 DEF Made
<1> HIDE DEF n
<1>4. /\ \A i, j \in DOMAIN events' : events'[i] = events'[j] => i = j
      /\ \A i, j \in DOMAIN events' : events'[i].type = "activated" /\ j < i => events'[j].of < events'[i].of
  BY <1>2, <1>3, AddedType
<1>5. /\ events' \in Seq(Event) /\ \A e \in Event : Pending(e)' <=> Pending(e) \/ e = A(n)
      /\ events # <<>> => events'[1] = events[1]
  BY <1>2, EventAdded DEF TypeOK
<1>6. UNCHANGED <<run, sub, plan, spared, orderly, failures>>
  BY DEF Buy
<1>7. Made'
  BY <1>1, <1>2, <1>3, <1>4, <1>5 DEF Made
<1>8. TypeOK'
  BY <1>1, <1>4, <1>5, <1>6 DEF TypeOK, Pending
<1> QED BY <1>1, <1>5, <1>7, <1>8 DEF n

(* A run that goes on, or begins.                                          *)
LEMMA RunsOn ==
  ASSUME TypeOK, NEW e \in Event, Pending(e)', NEW r \in Run, run' = [run EXCEPT ![e] = {r}],
         \A d \in Event : Pending(d) => Pending(d)'
  PROVE  /\ run' \in [Event -> Maybe(Run)]
         /\ \A d \in Event : run'[d] # {} => \E i \in DOMAIN events' : events'[i] = d
<1>1. {r} \in Maybe(Run)
  BY Singletons
<1>2. \A d \in Event : run[d] # {} => Pending(d)'
  BY DEF TypeOK, Pending
<1> QED BY <1>1, <1>2 DEF TypeOK, Pending

LEMMA RunFields ==
  ASSUME TypeOK, NEW e \in Event, NEW pc, At(e, pc)
  PROVE  /\ Pending(e)
         /\ \E r \in Run : run[e] = {r} /\ r.pc = pc /\ OnFile(e) = r.onFile
         /\ OnFile(e) \in Maybe(Ids)
<1>1. PICK r \in run[e] : r.pc = pc
  BY DEF At
<1>2. run[e] = {r} /\ r \in Run
  BY <1>1 DEF TypeOK, Maybe
<1>3. OnFile(e) = r.onFile /\ r.onFile \in Maybe(Ids)
  BY <1>2 DEF OnFile, Run
<1> QED BY <1>1, <1>2, <1>3 DEF TypeOK, Pending

(* The steps that leave the events alone.                                  *)
LEMMA EventsStay ==
  ASSUME UNCHANGED <<events, bought, active>>
  PROVE  /\ \A e \in Event : Pending(e)' <=> Pending(e)
         /\ Made => Made'
BY DEF Pending, Made

LEMMA DeliverType ==
  ASSUME TypeOK, Made, NEW i \in DOMAIN events, Deliver(i)
  PROVE  TypeOK' /\ Made'
<1>1. events[i] \in Event /\ Pending(events[i])
  BY DEF TypeOK, Pending
<1>2. [pc |-> "read", onFile |-> {}] \in Run
  BY Singletons DEF Run
<1>3. UNCHANGED <<bought, active, events, sub, plan, spared, failures>>
  BY DEF Deliver
<1>4. /\ run' \in [Event -> Maybe(Run)]
      /\ \A d \in Event : run'[d] # {} => \E j \in DOMAIN events' : events'[j] = d
  BY <1>1, <1>2, <1>3, EventsStay, RunsOn DEF Deliver
<1>5. orderly' \in BOOLEAN
  BY DEF Deliver, TypeOK
<1> QED BY <1>3, <1>4, <1>5, EventsStay DEF TypeOK

(* What is on file when it is read.                                        *)
LEMMA ReadFields ==
  ASSUME TypeOK, NEW e \in Event, ReadOnFile(e)
  PROVE  /\ {s.membership : s \in sub} \in Maybe(Ids)
         /\ [pc |-> AfterRead(e, {s.membership : s \in sub}), onFile |-> {s.membership : s \in sub}] \in Run
         /\ run' = [run EXCEPT ![e] = {[pc |-> AfterRead(e, {s.membership : s \in sub}), onFile |-> {s.membership : s \in sub}]}]
<1>1. {s.membership : s \in sub} \in Maybe(Ids)
  BY DEF TypeOK, Maybe, Sub
<1>2. \A onFile : AfterRead(e, onFile) \in {"read", "cancel", "subscription", "plan", "answer"}
  BY DEF AfterRead
<1> QED BY <1>1, <1>2 DEF ReadOnFile, Run

LEMMA GoesOn ==
  ASSUME TypeOK, NEW e \in Event, NEW pc, At(e, pc), NEW to \in {"subscription", "plan", "answer"}, Goto(e, to)
  PROVE  \E r \in Run : r = [pc |-> to, onFile |-> OnFile(e)] /\ run' = [run EXCEPT ![e] = {r}]
<1>1. OnFile(e) \in Maybe(Ids)
  BY RunFields
<1> QED BY <1>1 DEF Goto, Run

LEMMA CancelFields ==
  ASSUME TypeOK, NEW e \in Event, Cancel(e)
  PROVE  \E m \in Ids : /\ OnFile(e) = {m}
                        /\ \/ Deactivate(m) /\ UNCHANGED spared
                           \/ spared' = spared \cup ({m} \cap active) /\ UNCHANGED <<active, events>>
<1>1. OnFile(e) \in Maybe(Ids)
  BY RunFields DEF Cancel
<1> QED BY <1>1 DEF Cancel, Maybe

LEMMA CancelType ==
  ASSUME TypeOK, Made, NEW e \in Event, Cancel(e)
  PROVE  TypeOK' /\ Made'
<1>1. PICK m \in Ids : \/ Deactivate(m) /\ UNCHANGED spared
                       \/ spared' = spared \cup ({m} \cap active) /\ UNCHANGED <<active, events>>
  BY CancelFields
<1>2. UNCHANGED <<bought, sub, plan, orderly, failures>>
  BY DEF Cancel
<1>3. /\ active' \subseteq DOMAIN bought /\ events' \in Seq(Event) /\ Made'
      /\ \A i, j \in DOMAIN events' : events'[i] = events'[j] => i = j
      /\ \A d \in Event : Pending(d) => Pending(d)'
  <2>1. CASE Deactivate(m)
    BY <1>2, <2>1, Deactivated
  <2>2. CASE UNCHANGED <<active, events>>
    BY <1>2, <2>2, EventsStay DEF TypeOK
  <2> QED BY <1>1, <2>1, <2>2
<1>4. spared' \subseteq DOMAIN bought'
  BY <1>1, <1>2 DEF TypeOK
<1>5. /\ run' \in [Event -> Maybe(Run)]
      /\ \A d \in Event : run'[d] # {} => \E i \in DOMAIN events' : events'[i] = d
  BY <1>3, GoesOn, RunsOn, RunFields DEF Cancel
<1> QED BY <1>2, <1>3, <1>4, <1>5 DEF TypeOK

LEMMA EndsType ==
  ASSUME TypeOK, Made, NEW m \in Ids, Ends(m)
  PROVE  TypeOK' /\ Made'
<1>1. Deactivate(m) /\ UNCHANGED <<bought, run, sub, plan, spared, orderly, failures>>
  BY DEF Ends
<1>2. /\ active' \subseteq DOMAIN bought /\ events' \in Seq(Event) /\ Made'
      /\ \A i, j \in DOMAIN events' : events'[i] = events'[j] => i = j
      /\ \A d \in Event : Pending(d) => Pending(d)'
  BY <1>1, Deactivated
<1>3. \A d \in Event : run'[d] # {} => \E i \in DOMAIN events' : events'[i] = d
  BY <1>1, <1>2 DEF TypeOK, Pending
<1> QED BY <1>1, <1>2, <1>3 DEF TypeOK

LEMMA WritesType ==
  ASSUME TypeOK, Made, NEW e \in Event, ReadOnFile(e) \/ WriteSub(e) \/ WritePlan(e)
  PROVE  TypeOK' /\ Made'
<1>1. UNCHANGED <<events, bought, active, spared, orderly, failures>> /\ Pending(e)
  BY RunFields DEF ReadOnFile, WriteSub, WritePlan
<1>2. PICK r \in Run : run' = [run EXCEPT ![e] = {r}]
  BY ReadFields, GoesOn DEF WriteSub, WritePlan
<1>3. /\ run' \in [Event -> Maybe(Run)]
      /\ \A d \in Event : run'[d] # {} => \E i \in DOMAIN events' : events'[i] = d
  BY <1>1, <1>2, EventsStay, RunsOn
<1>4. sub' \in Maybe(Sub)
  <2>1. CASE WriteSub(e)
    <3> DEFINE paid == e.type = "activated"
    <3>1. paid \in BOOLEAN /\ e.of \in Ids
      BY EventFields
    <3>2. sub' = {[membership |-> e.of, active |-> paid]}
      BY <2>1 DEF WriteSub
    <3> HIDE DEF paid
    <3>3. [membership |-> e.of, active |-> paid] \in Sub
      BY <3>1 DEF Sub
    <3> QED BY <3>2, <3>3, Singletons
  <2>2. CASE sub' = sub
    BY <2>2 DEF TypeOK
  <2> QED BY <2>1, <2>2 DEF ReadOnFile, WritePlan
<1>5. plan' \in {"free"} \cup Paid
  BY <1>1, Bought DEF Made, ReadOnFile, WriteSub, WritePlan, TypeOK
<1> QED BY <1>1, <1>3, <1>4, <1>5, EventsStay DEF TypeOK

LEMMA AnswerFields ==
  ASSUME TypeOK, NEW e \in Event, Answer(e)
  PROVE  /\ \A d \in Event : Pending(d)' <=> Pending(d) /\ d # e
         /\ events' \in Seq(Event)
         /\ \A i, j \in DOMAIN events' : events'[i] = events'[j] => i = j
         /\ Made => Made'
<1>1. PICK k \in DOMAIN events : events[k] = e /\ events' = RemoveAt(events, k)
  BY DEF Answer
<1>2. /\ events' \in Seq(Event) /\ DOMAIN events' \subseteq Nat /\ DOMAIN events \subseteq Nat
      /\ \A d \in Event : Pending(d)' <=> Pending(d) /\ d # e
      /\ \A i \in DOMAIN events' : /\ events'[i] = events[IF i < k THEN i ELSE i + 1]
                                   /\ (IF i < k THEN i ELSE i + 1) \in DOMAIN events \ {k}
  BY <1>1, EventTaken DEF TypeOK
<1>3. \A i, j \in DOMAIN events' : i # j => (IF i < k THEN i ELSE i + 1) # (IF j < k THEN j ELSE j + 1)
  BY <1>2
<1>4. \A i, j \in DOMAIN events' : j < i => (IF j < k THEN j ELSE j + 1) < (IF i < k THEN i ELSE i + 1)
  BY <1>2
<1>5. \A i, j \in DOMAIN events' : events'[i] = events'[j] => i = j
  BY <1>2, <1>3 DEF TypeOK
<1>6. ASSUME Made PROVE Made'
  <2>1. \A i, j \in DOMAIN events' : events'[i].type = "activated" /\ j < i => events'[j].of < events'[i].of
    BY <1>2, <1>4, <1>6 DEF Made
  <2>2. bought' = bought /\ active' = active
    BY DEF Answer
  <2> QED BY <1>2, <1>6, <2>1, <2>2 DEF Made
<1> QED BY <1>2, <1>5, <1>6

LEMMA AnswerType ==
  ASSUME TypeOK, Made, NEW e \in Event, Answer(e)
  PROVE  TypeOK' /\ Made'
<1>1. run' = [run EXCEPT ![e] = {}] /\ UNCHANGED <<bought, active, sub, plan, spared, orderly, failures>>
  BY DEF Answer
<1>2. \A d \in Event : run'[d] # {} => \E i \in DOMAIN events' : events'[i] = d
  BY <1>1, AnswerFields DEF TypeOK, Pending
<1> QED BY <1>1, <1>2, AnswerFields, Singletons DEF TypeOK

LEMMA FailsType ==
  ASSUME TypeOK, Made, NEW e \in Event, Fails(e)
  PROVE  TypeOK' /\ Made'
<1>1. run' = [run EXCEPT ![e] = {}] /\ UNCHANGED <<bought, active, events, sub, plan, spared, orderly>>
  BY DEF Fails
<1>2. failures' \in 0 .. MaxFailures
  BY MaxFailuresAssumption DEF Fails, TypeOK
<1> QED BY <1>1, <1>2, EventsStay, Singletons DEF TypeOK

LEMMA TypeStep == ASSUME TypeOK, Made, Next PROVE TypeOK' /\ Made'
BY BuyType, EndsType, DeliverType, WritesType, CancelType, AnswerType, FailsType DEF Next

-----------------------------------------------------------------------------
(* What is on file, while events are handled in order.                     *)

(* The first event is the one that a run is for.                           *)
LEMMA FirstIs ==
  ASSUME TypeOK, NEW e \in Event, run[e] # {}, NEW h, RunsFor(h)
  PROVE  Pending(e) /\ 1 \in DOMAIN events /\ events[1] = e /\ events # <<>>
<1>1. PICK r \in run[e] : TRUE
  OBVIOUS
<1>2. Pending(e) /\ e = events[1]
  BY <1>1 DEF RunsFor, Fits, TypeOK, Pending
<1>3. 1 \in DOMAIN events /\ events # <<>>
  BY <1>2 DEF TypeOK, Pending
<1> QED BY <1>2, <1>3

(* Nothing to come about earlier memberships follows it, nor does its own  *)
(* activation if it is a deactivation.                                     *)
LEMMA NoneBefore ==
  ASSUME TypeOK, Made, NEW e \in Event, 1 \in DOMAIN events, events[1] = e, NEW m \in Ids, Pending(A(m))
  PROVE  A(m) = e \/ e.of < m
<1>1. PICK i \in DOMAIN events : events[i] = A(m)
  BY DEF Pending
<1>2. i = 1 \/ 1 < i
  BY DEF TypeOK
<1>3. A(m).type = "activated" /\ A(m).of = m
  BY DEF A
<1> QED BY <1>1, <1>2, <1>3 DEF Made

LEMMA BuyFiled ==
  ASSUME Inv, orderly, NEW p \in Paid, Buy(p), NEW h \in Nat, Filed(h), RunsFor(h)
  PROVE  Filed(h)' /\ RunsFor(h)'
<1>0. PICK n \in Nat : n = Len(bought) + 1
  BY DEF Inv, TypeOK
<1>1. /\ \A m \in DOMAIN bought : bought'[m] = bought[m]
      /\ DOMAIN bought' = DOMAIN bought \cup {n}
      /\ \A e \in Event : Pending(e)' <=> Pending(e) \/ e = A(n)
      /\ events # <<>> => events'[1] = events[1]
      /\ UNCHANGED <<run, sub, plan, spared>> /\ active' = active \cup {n}
  BY <1>0, BuyType DEF Inv, Buy
<1>2. /\ DOMAIN bought = 1 .. Len(bought) /\ DOMAIN bought \subseteq Ids
      /\ n \in Ids /\ n \in Nat /\ h < n /\ \A m \in DOMAIN bought : m < n
  <2>1. TypeOK /\ Len(bought) < Memberships
    BY DEF Inv, Buy
  <2>2. h \in DOMAIN bought \cup {0}
    BY DEF Filed
  <2> QED BY <1>0, <2>1, <2>2, Bought, MembershipsAssumption DEF Ids
<1>3. \A m \in DOMAIN bought : /\ m \in Ids /\ A(m) \in Event /\ D(m) \in Event /\ A(m) # A(n) /\ D(m) # A(n)
  BY <1>2, EventFields, MembershipsAssumption DEF Ids
<1>4. Filed(h)'
  <2>1. /\ n > h => Pending(A(n))' /\ n \in active'
    BY <1>1, <1>2, EventFields
  <2>2. \A m \in DOMAIN bought :
          /\ m < h => m \notin active' \ spared' /\ ~Pending(A(m))'
          /\ m > h => Pending(A(m))'
          /\ Pending(A(m))' /\ m \notin active' => Pending(D(m))'
    BY <1>1, <1>2, <1>3 DEF Filed
  <2>3. h # 0 /\ ~Pending(A(h))' /\ ~Pending(D(h))' => IF h \in active' THEN Has(h)' ELSE plan' = "free"
    BY <1>1, <1>2, <1>3 DEF Filed, Has
  <2>4. Len(bought') = n /\ n \notin spared
    BY <1>0, <1>2 DEF Inv, TypeOK, Buy
  <2> QED BY <1>1, <1>2, <2>1, <2>2, <2>3, <2>4 DEF Filed
<1>5. RunsFor(h)'
  <2> SUFFICES ASSUME NEW e \in Event, NEW r \in run[e] PROVE Fits(e, r, h)'
    BY <1>1 DEF RunsFor
  <2>1. Pending(e) /\ events # <<>> /\ Fits(e, r, h)
    BY FirstIs DEF RunsFor, Inv
  <2>2. e.of \in DOMAIN bought
    BY <2>1 DEF Inv, Made
  <2>3. h \notin active \ spared => h \notin active' \ spared'
    BY <1>1, <1>2
  <2> QED BY <1>1, <2>1, <2>2, <2>3 DEF Fits, Has
<1> QED BY <1>4, <1>5

(* Where only runs begin, go on or end, what is on file stays.             *)
LEMMA FiledStays ==
  ASSUME UNCHANGED <<bought, active, events, sub, plan, spared>>, NEW h \in Nat, Filed(h)
  PROVE  Filed(h)' /\ \A e \in Event : \A r : Fits(e, r, h) => Fits(e, r, h)'
BY DEF Filed, Has, Pending, Fits

(* Whop's events and cancellations keep it, too.                           *)
LEMMA DeactivatedFiled ==
  ASSUME TypeOK, Made, NEW m \in Ids, Deactivate(m), UNCHANGED <<bought, sub, plan, spared>>, NEW h \in Nat, Filed(h)
  PROVE  Filed(h)' /\ \A e \in Event : \A r : events # <<>> /\ Fits(e, r, h) => Fits(e, r, h)'
<1>1. /\ active' = active \ {m}
      /\ \A e \in Event : Pending(e)' <=> Pending(e) \/ (m \in active /\ e = D(m))
      /\ events # <<>> => events'[1] = events[1]
  BY Deactivated
<1>2. \A n \in DOMAIN bought : n \in Ids /\ n \in Nat /\ A(n) \in Event /\ D(n) \in Event /\ A(n) # D(m) /\ (n # m => D(n) # D(m))
  BY Bought, EventFields, MembershipsAssumption DEF Ids
<1>3. Filed(h)'
  BY <1>1, <1>2 DEF Filed, Has
<1>4. ASSUME NEW e \in Event, NEW r, events # <<>>, Fits(e, r, h) PROVE Fits(e, r, h)'
  BY <1>1, <1>4 DEF Fits, Has
<1> QED BY <1>3, <1>4

LEMMA EndsFiled ==
  ASSUME Inv, orderly, NEW m \in Ids, Ends(m), NEW h \in Nat, Filed(h), RunsFor(h)
  PROVE  Filed(h)' /\ RunsFor(h)'
<1>1. Deactivate(m) /\ UNCHANGED <<bought, run, sub, plan, spared>>
  BY DEF Ends
<1>2. \A e \in Event : \A r \in run[e] : Fits(e, r, h) /\ events # <<>>
  BY FirstIs DEF RunsFor, Inv
<1> QED BY <1>1, <1>2, DeactivatedFiled DEF RunsFor, Inv

LEMMA DeliverFiled ==
  ASSUME Inv, orderly, NEW i \in DOMAIN events, Deliver(i), orderly', NEW h \in Nat, Filed(h)
  PROVE  Filed(h)' /\ RunsFor(h)'
<1>1. /\ i = 1 /\ \A e \in Event : run[e] = {}
      /\ run' = [run EXCEPT ![events[1]] = {[pc |-> "read", onFile |-> {}]}]
      /\ UNCHANGED <<bought, active, events, sub, plan, spared>>
  BY DEF Deliver
<1>2. ASSUME NEW e \in Event, NEW r \in run'[e] PROVE Fits(e, r, h)'
  <2>1. e = events[1] /\ r.pc = "read"
    BY <1>1, <1>2 DEF Inv, TypeOK
  <2> QED BY <1>1, <2>1 DEF Fits
<1> QED BY <1>1, <1>2, FiledStays DEF RunsFor

LEMMA FailsFiled ==
  ASSUME Inv, orderly, NEW e \in Event, Fails(e), NEW h \in Nat, Filed(h), RunsFor(h)
  PROVE  Filed(h)' /\ RunsFor(h)'
<1>1. run' = [run EXCEPT ![e] = {}] /\ UNCHANGED <<bought, active, events, sub, plan, spared>>
  BY DEF Fails
<1>2. \A d \in Event : \A r \in run'[d] : r \in run[d]
  BY <1>1 DEF Inv, TypeOK
<1> QED BY <1>1, <1>2, FiledStays DEF RunsFor

(* The one run goes on.                                                    *)
LEMMA RunGoesOn ==
  ASSUME Inv, NEW e \in Event, NEW h, NEW k, run[e] # {}, RunsFor(h), NEW r, run' = [run EXCEPT ![e] = {r}], Fits(e, r, k)'
  PROVE  RunsFor(k)'
<1>1. \A d \in Event \ {e} : run[d] = {}
  BY FirstIs DEF Inv
<1>2. \A d \in Event : \A q \in run'[d] : d = e /\ q = r
  BY <1>1 DEF Inv, TypeOK
<1> QED BY <1>2 DEF RunsFor

LEMMA ReadFiled ==
  ASSUME Inv, orderly, NEW e \in Event, ReadOnFile(e), NEW h \in Nat, Filed(h), RunsFor(h)
  PROVE  Filed(h)' /\ RunsFor(h)'
<1> DEFINE onFile == {s.membership : s \in sub}
<1>0. PICK r \in Run : r = [pc |-> AfterRead(e, onFile), onFile |-> onFile] /\ run' = [run EXCEPT ![e] = {r}]
  BY ReadFields DEF Inv
<1>1. /\ TypeOK /\ Made /\ run[e] # {} /\ run' = [run EXCEPT ![e] = {r}]
      /\ UNCHANGED <<bought, active, events, sub, plan, spared>>
  BY <1>0, RunFields DEF Inv, ReadOnFile
<1>2. Pending(e) /\ 1 \in DOMAIN events /\ events[1] = e
  BY <1>1, FirstIs
<1>3. onFile = IF h = 0 THEN {} ELSE {h}
  BY DEF Filed
<1>4. e.of \in DOMAIN bought /\ e.of \in Ids /\ e.of \in Nat /\ e.of # 0 /\ e.type \in {"activated", "deactivated"}
  BY <1>1, <1>2, EventFields DEF Made, Event
<1>5. 0 \notin active
  BY <1>1, Bought, MembershipsAssumption DEF TypeOK, Ids
<1>6. e.type = "deactivated" => e.of <= h
  <2> SUFFICES ASSUME e.type = "deactivated", e.of > h PROVE FALSE
    BY <1>4
  <2>1. Pending(A(e.of))
    BY <1>4 DEF Filed
  <2>2. A(e.of) # e
    BY EventFields, <1>4
  <2> QED BY <1>1, <1>2, <1>4, <2>1, <2>2, NoneBefore
<1>7. r.pc = AfterRead(e, onFile) /\ r.onFile = onFile
  BY <1>0
<1> HIDE DEF onFile
<1>8. Fits(e, r, h)
  <2>1. CASE e.type = "activated"
    BY <1>2, <1>3, <1>4, <1>5, <1>7, <2>1 DEF Fits, AfterRead
  <2>2. CASE e.type = "deactivated"
    BY <1>2, <1>3, <1>4, <1>6, <1>7, <2>2 DEF Fits, AfterRead
  <2> QED BY <1>4, <2>1, <2>2
<1>9. Filed(h)' /\ Fits(e, r, h)'
  BY <1>1, <1>8, FiledStays
<1> QED BY <1>1, <1>9, RunGoesOn

LEMMA CancelFiled ==
  ASSUME Inv, orderly, NEW e \in Event, Cancel(e), NEW h \in Nat, Filed(h), RunsFor(h)
  PROVE  Filed(h)' /\ RunsFor(h)'
<1>1. TypeOK /\ Made /\ run[e] # {} /\ UNCHANGED <<bought, sub, plan>>
  BY RunFields DEF Inv, Cancel
<1>2. PICK m \in Ids : /\ OnFile(e) = {m}
                      /\ \/ Deactivate(m) /\ UNCHANGED spared
                         \/ spared' = spared \cup ({m} \cap active) /\ UNCHANGED <<active, events>>
  BY <1>1, CancelFields
<1>3. PICK r \in Run : run[e] = {r} /\ r.pc = "cancel" /\ OnFile(e) = r.onFile
  BY <1>1, RunFields DEF Cancel
<1>4. e = events[1] /\ e.type = "activated" /\ e.of # h /\ m = h /\ events # <<>>
  <2>1. Fits(e, r, h) /\ events # <<>>
    BY <1>1, <1>3, FirstIs DEF RunsFor
  <2>2. {m} = {h}
    BY <1>2, <1>3, <2>1 DEF Fits
  <2>3. m = h
    BY <2>2
  <2> QED BY <1>3, <2>1, <2>3 DEF Fits
<1>5. PICK q \in Run : q = [pc |-> "subscription", onFile |-> OnFile(e)] /\ run' = [run EXCEPT ![e] = {q}]
  BY <1>1, GoesOn DEF Cancel
<1>6. CASE Deactivate(m) /\ UNCHANGED spared
  <2>1. Filed(h)' /\ active' = active \ {m} /\ events'[1] = events[1]
    BY <1>1, <1>4, <1>6, DeactivatedFiled, Deactivated
  <2>2. Fits(e, q, h)'
    BY <1>4, <1>5, <2>1 DEF Fits
  <2> QED BY <1>1, <1>5, <2>1, <2>2, RunGoesOn DEF Inv
<1>7. CASE spared' = spared \cup ({m} \cap active) /\ UNCHANGED <<active, events>>
  <2>1. \A d \in Event : Pending(d)' <=> Pending(d)
    BY <1>7 DEF Pending
  <2>2. e = A(e.of) /\ e.of \in DOMAIN bought /\ Pending(e)
    BY <1>1, <1>4, FirstIs, EventFields DEF Made
  <2>3. /\ DOMAIN bought = 1 .. Len(bought) /\ Len(bought) \in Nat
        /\ \A n \in DOMAIN bought : n \in Nat /\ A(n) \in Event /\ D(n) \in Event
    BY <1>1, Bought, EventFields, MembershipsAssumption
  <2>4. h < e.of
    BY <1>4, <2>2, <2>3 DEF Filed
  <2>5. h # Len(bought)
    <3>1. e.of \in 1 .. Len(bought)
      BY <2>2, <2>3
    <3>2. \A l \in Nat : \A n \in 1 .. l : h < n => h # l
      OBVIOUS
    <3> QED BY <2>3, <2>4, <3>1, <3>2
  <2>6. Filed(h)'
    <3>1. \A n \in DOMAIN bought :
            /\ n < h => n \notin active' \ spared' /\ ~Pending(A(n))'
            /\ n > h => Pending(A(n))'
            /\ Pending(A(n))' /\ n \notin active' => Pending(D(n))'
      BY <1>7, <2>1, <2>3 DEF Filed
    <3>2. Len(bought) \notin spared'
      BY <1>4, <1>7, <2>5 DEF Filed
    <3>3. h # 0 /\ ~Pending(A(h))' /\ ~Pending(D(h))' => IF h \in active THEN Has(h)' ELSE plan = "free"
      BY <1>1, <1>7, <2>1, <2>3 DEF Filed, Has
    <3> QED BY <1>1, <1>7, <3>1, <3>2, <3>3 DEF Filed
  <2>7. Fits(e, q, h)'
    BY <1>4, <1>5, <1>7 DEF Fits
  <2> QED BY <1>1, <1>5, <2>6, <2>7, RunGoesOn DEF Inv
<1> QED BY <1>2, <1>6, <1>7

LEMMA WritePlanFiled ==
  ASSUME Inv, orderly, NEW e \in Event, WritePlan(e), NEW h \in Nat, Filed(h), RunsFor(h)
  PROVE  Filed(h)' /\ RunsFor(h)'
<1>1. /\ TypeOK /\ Made /\ run[e] # {} /\ UNCHANGED <<bought, active, events, sub, spared>>
      /\ plan' = IF e.type = "activated" THEN bought[e.of] ELSE "free"
  BY RunFields DEF Inv, WritePlan
<1>2. Pending(e) /\ events[1] = e
  BY <1>1, FirstIs
<1>3. sub = {[membership |-> e.of, active |-> e.type = "activated"]}
  BY <1>1, RunFields DEF WritePlan, RunsFor, Fits
<1>4. h = e.of /\ h # 0
  BY <1>3 DEF Filed
<1>5. Pending(A(h)) \/ Pending(D(h))
  BY <1>2, <1>4, EventFields DEF Event
<1>6. \A d : Pending(d)' <=> Pending(d)
  BY <1>1 DEF Pending
<1>7. Filed(h)'
  BY <1>1, <1>4, <1>5, <1>6 DEF Filed
<1>8. PICK q \in Run : q = [pc |-> "answer", onFile |-> OnFile(e)] /\ run' = [run EXCEPT ![e] = {q}]
  BY <1>1, GoesOn DEF WritePlan
<1>9. Fits(e, q, h)'
  <2>1. CASE e.type = "activated"
    <3>1. sub' = {[membership |-> e.of, active |-> TRUE]}
      BY <1>1, <1>3, <2>1
    <3>2. Has(e.of)'
      BY <1>1, <2>1, <3>1 DEF Has
    <3> QED BY <1>1, <1>2, <1>8, <2>1, <3>2 DEF Fits
  <2>2. CASE e.type # "activated"
    BY <1>1, <1>2, <1>8, <2>2 DEF Fits
  <2> QED BY <2>1, <2>2
<1> QED BY <1>1, <1>7, <1>8, <1>9, RunGoesOn

LEMMA WriteSubFiled ==
  ASSUME Inv, orderly, NEW e \in Event, WriteSub(e), NEW h \in Nat, Filed(h), RunsFor(h)
  PROVE  Filed(e.of)' /\ RunsFor(e.of)'
<1> DEFINE n == e.of
<1>1. /\ TypeOK /\ Made /\ run[e] # {} /\ UNCHANGED <<bought, active, events, plan, spared>>
      /\ sub' = {[membership |-> n, active |-> e.type = "activated"]}
  BY RunFields DEF Inv, WriteSub
<1>2. Pending(e) /\ 1 \in DOMAIN events /\ events[1] = e
  BY <1>1, FirstIs
<1>3. /\ n \in DOMAIN bought /\ n \in Ids /\ n \in Nat /\ n # 0 /\ e.type \in {"activated", "deactivated"}
      /\ DOMAIN bought \subseteq Nat /\ DOMAIN bought \subseteq Ids
  <2>1. DOMAIN bought \subseteq Nat /\ DOMAIN bought \subseteq Ids
    BY <1>1, Bought, MembershipsAssumption DEF Ids
  <2>2. n \in DOMAIN bought /\ n \in Ids /\ n # 0 /\ e.type \in {"activated", "deactivated"}
    BY <1>1, <1>2, EventFields DEF Made, Event
  <2> QED BY <2>1, <2>2
<1>4. IF e.type = "activated" THEN n = h \/ h \notin active \ spared ELSE n = h
  BY <1>1, RunFields DEF WriteSub, RunsFor, Fits
<1>5. \A d : Pending(d)' <=> Pending(d)
  BY <1>1 DEF Pending
<1>6. Pending(A(n)) \/ Pending(D(n))
  BY <1>2, <1>3, EventFields
<1>7. \A m \in DOMAIN bought :
        /\ m < n => m \notin active \ spared /\ ~Pending(A(m))
        /\ m > n => Pending(A(m))
  <2>1. CASE n = h
    BY <2>1 DEF Filed
  <2>2. CASE n # h
    <3>1. e.type = "activated" /\ h \notin active \ spared /\ e = A(n)
      BY <1>4, <2>2, EventFields
    <3>2. n > h
      BY <1>2, <1>3, <2>2, <3>1 DEF Filed
    <3>3. ASSUME NEW m \in DOMAIN bought, m < n PROVE ~Pending(A(m))
      <4>1. A(m) # e
        BY <1>3, <3>1, <3>3, EventFields
      <4> QED BY <1>1, <1>2, <1>3, <3>3, <4>1, NoneBefore
    <3>4. ASSUME NEW m \in DOMAIN bought, m < n PROVE m \notin active \ spared
      <4>1. m <= h
        BY <1>3, <3>3, <3>4 DEF Filed
      <4> QED BY <1>3, <3>1, <4>1 DEF Filed
    <3>5. ASSUME NEW m \in DOMAIN bought, m > n PROVE Pending(A(m))
      <4>1. m > h
        BY <1>3, <3>2, <3>5
      <4> QED BY <4>1 DEF Filed
    <3> QED BY <3>3, <3>4, <3>5
  <2> QED BY <2>1, <2>2
<1>8. \A s \in sub' : s.membership = n
  BY <1>1
<1>9. sub' # {}
  BY <1>1
<1> HIDE DEF n
<1>10. Filed(n)'
  BY <1>1, <1>3, <1>5, <1>6, <1>7, <1>8, <1>9 DEF Filed
<1>11. PICK q \in Run : q = [pc |-> "plan", onFile |-> OnFile(e)] /\ run' = [run EXCEPT ![e] = {q}]
  BY <1>1, GoesOn DEF WriteSub
<1>12. Fits(e, q, n)'
  BY <1>1, <1>2, <1>11 DEF Fits, n
<1> QED BY <1>1, <1>10, <1>11, <1>12, RunGoesOn DEF n

LEMMA AnswerFiled ==
  ASSUME Inv, orderly, NEW e \in Event, Answer(e), NEW h \in Nat, Filed(h), RunsFor(h)
  PROVE  Filed(h)' /\ RunsFor(h)'
<1>1. /\ TypeOK /\ Made /\ run[e] # {} /\ run' = [run EXCEPT ![e] = {}]
      /\ UNCHANGED <<bought, active, sub, plan, spared>>
  BY RunFields DEF Inv, Answer
<1>2. Pending(e) /\ 1 \in DOMAIN events /\ events[1] = e
  BY <1>1, FirstIs
<1>3. \A d \in Event : Pending(d)' <=> Pending(d) /\ d # e
  BY <1>1, AnswerFields
<1>4. IF e.type = "activated" THEN Has(e.of) ELSE e.of = h => plan = "free"
  BY <1>1, RunFields DEF Answer, RunsFor, Fits
<1>5. /\ \A m \in DOMAIN bought : m \in Ids /\ m \in Nat /\ m # 0 /\ A(m) \in Event /\ D(m) \in Event /\ A(m) # D(m)
      /\ e.of \in DOMAIN bought /\ e.of \in Nat
      /\ e \in {A(e.of), D(e.of)}
      /\ e.type = "activated" <=> e = A(e.of)
  BY <1>1, <1>2, Bought, EventFields, MembershipsAssumption DEF Made, Event, Ids, A, D
<1>6. \A m \in DOMAIN bought : A(m) = e => m = h /\ Has(h)
  <2> SUFFICES ASSUME NEW m \in DOMAIN bought, A(m) = e PROVE m = h /\ Has(h)
    OBVIOUS
  <2>1. m = e.of /\ e.type = "activated"
    BY DEF A
  <2>2. Has(m)
    BY <1>4, <2>1
  <2>3. m = h
    BY <2>2 DEF Has, Filed
  <2> QED BY <2>2, <2>3
<1>7. \A m \in DOMAIN bought : Pending(A(m))' /\ m \notin active => Pending(D(m))'
  <2> SUFFICES ASSUME NEW m \in DOMAIN bought, Pending(A(m))', m \notin active PROVE Pending(D(m))'
    OBVIOUS
  <2>1. Pending(A(m)) /\ Pending(D(m)) /\ A(m) # e
    BY <1>3, <1>5 DEF Filed
  <2>2. D(m) # e
    <3> SUFFICES ASSUME D(m) = e PROVE FALSE
      OBVIOUS
    <3>1. e.of = m
      BY DEF D
    <3> QED BY <1>1, <1>2, <1>5, <2>1, <3>1, NoneBefore
  <2> QED BY <1>3, <1>5, <2>1, <2>2
<1>8. \A m \in DOMAIN bought : /\ m < h => m \notin active \ spared /\ ~Pending(A(m))'
                               /\ m > h => Pending(A(m))'
  BY <1>3, <1>5, <1>6 DEF Filed
<1>9. ASSUME h # 0, ~Pending(A(h))', ~Pending(D(h))' PROVE IF h \in active THEN Has(h) ELSE plan = "free"
  <2>1. h \in DOMAIN bought
    BY <1>9 DEF Filed
  <2>2. CASE e = A(h)
    <3>1. Pending(A(h)) /\ ~Pending(D(h))
      BY <1>2, <1>3, <1>5, <1>9, <2>1, <2>2
    <3> QED BY <1>6, <2>1, <2>2, <3>1 DEF Filed
  <2>3. CASE e = D(h)
    <3>1. e.of = h /\ e.type = "deactivated"
      BY <2>3 DEF D
    <3> QED BY <1>1, <1>2, <1>4, <3>1 DEF Made
  <2>4. CASE e \notin {A(h), D(h)}
    BY <1>3, <1>5, <1>9, <2>1, <2>4 DEF Filed
  <2> QED BY <2>2, <2>3, <2>4
<1>10. Filed(h)'
  BY <1>1, <1>7, <1>8, <1>9 DEF Filed, Has
<1>11. \A d \in Event : run'[d] = {}
  BY <1>1, FirstIs DEF TypeOK
<1> QED BY <1>10, <1>11 DEF RunsFor

LEMMA InOrderStep == ASSUME Inv, Next PROVE InOrder'
<1> SUFFICES ASSUME orderly' PROVE \E h \in Nat : Filed(h)' /\ RunsFor(h)'
  BY DEF InOrder
<1>1. orderly
  BY DEF Next, Buy, Ends, Deliver, ReadOnFile, Cancel, WriteSub, WritePlan, Answer, Fails
<1>2. PICK h \in Nat : Filed(h) /\ RunsFor(h)
  BY <1>1 DEF Inv, InOrder
<1>3. CASE \E p \in Paid : Buy(p)
  BY <1>1, <1>2, <1>3, BuyFiled
<1>4. CASE \E m \in Ids : Ends(m)
  BY <1>1, <1>2, <1>4, EndsFiled
<1>5. CASE \E i \in DOMAIN events : Deliver(i)
  BY <1>1, <1>2, <1>5, DeliverFiled
<1>6. CASE \E e \in Event : ReadOnFile(e) \/ Cancel(e) \/ WritePlan(e) \/ Answer(e) \/ Fails(e)
  BY <1>1, <1>2, <1>6, ReadFiled, CancelFiled, WritePlanFiled, AnswerFiled, FailsFiled
<1>7. CASE \E e \in Event : WriteSub(e)
  BY <1>1, <1>2, <1>7, WriteSubFiled, EventFields
<1> QED BY <1>3, <1>4, <1>5, <1>6, <1>7 DEF Next

-----------------------------------------------------------------------------
(* The theorems.                                                           *)

LEMMA InvInit == Init => Inv
<1> SUFFICES ASSUME Init PROVE Inv
  OBVIOUS
<1>1. TypeOK
  <2>1. bought \in Seq(Paid) /\ Len(bought) = 0 /\ events \in Seq(Event) /\ DOMAIN events = {}
    BY DEF Init
  <2>2. 0 <= Memberships /\ 0 \in 0 .. MaxFailures
    BY MembershipsAssumption, MaxFailuresAssumption
  <2> QED BY <2>1, <2>2, Singletons DEF Init, TypeOK
<1>2. DOMAIN events = {} /\ DOMAIN bought = {} /\ \A e : ~Pending(e)
  BY DEF Init, Pending
<1>3. Made
  BY <1>2 DEF Made
<1>4. Filed(0) /\ RunsFor(0)
  BY <1>2 DEF Filed, RunsFor, Init
<1> QED BY <1>1, <1>3, <1>4 DEF Inv, InOrder

LEMMA InvStep == Inv /\ [Next]_vars => Inv'
<1> SUFFICES ASSUME Inv, [Next]_vars PROVE Inv'
  OBVIOUS
<1>1. CASE Next
  BY <1>1, TypeStep, InOrderStep DEF Inv
<1>2. CASE UNCHANGED vars
  <2>1. TypeOK' /\ Made'
    BY <1>2, EventsStay DEF vars, Inv, TypeOK
  <2>2. InOrder'
    BY <1>2, FiledStays DEF vars, Inv, InOrder, RunsFor
  <2> QED BY <2>1, <2>2 DEF Inv
<1> QED BY <1>1, <1>2

THEOREM Invariance == Spec => []Inv
BY InvInit, InvStep, PTL DEF Spec

(* The memberships, the events, the runs for them and the row on file keep *)
(* to their types, and no event is to be delivered twice at a time.        *)
THEOREM TypeCorrect == Spec => []TypeOK
<1>1. Inv => TypeOK
  BY DEF Inv
<1> QED BY <1>1, Invariance, PTL

(* When every event has had its answer, one at a time and in order, with   *)
(* any number of failures and deliveries again, the one membership charged *)
(* for, besides those that Whop would not cancel, is on file and the       *)
(* workspace has its plan.                                                 *)
THEOREM PlansArePaidFor == Spec => []PlanIsPaidFor
<1>1. Inv => PlanIsPaidFor
  <2> SUFFICES ASSUME Inv, orderly, events = <<>> PROVE PlanIsPaidFor
    BY DEF PlanIsPaidFor
  <2>1. PICK h \in Nat : Filed(h)
    BY DEF Inv, InOrder
  <2>2. \A e : ~Pending(e)
    BY DEF Pending
  <2>3. /\ active \subseteq DOMAIN bought /\ DOMAIN bought = 1 .. Len(bought) /\ Len(bought) \in Nat
    BY Bought, MembershipsAssumption DEF Inv, TypeOK
  <2>4. \A m \in DOMAIN bought : m <= h /\ (m < h => m \notin active \ spared)
    BY <2>1, <2>2, <2>3 DEF Filed
  <2>5. active \ spared \subseteq {h}
    BY <2>3, <2>4
  <2>6. CASE h = 0
    <3>1. active \ spared = {}
      BY <2>3, <2>5, <2>6
    <3> QED BY <2>1, <2>6, <3>1 DEF Filed, PlanIsPaidFor
  <2>7. CASE h # 0
    <3>1. IF h \in active THEN Has(h) ELSE plan = "free"
      BY <2>1, <2>2, <2>7 DEF Filed
    <3>2. h = Len(bought)
      <4>1. h \in 1 .. Len(bought)
        BY <2>1, <2>3, <2>7 DEF Filed
      <4>2. Len(bought) \in DOMAIN bought
        BY <2>3, <4>1
      <4>3. \A l \in Nat : l <= h /\ h \in 1 .. l => h = l
        OBVIOUS
      <4>4. Len(bought) <= h
        BY <2>4, <4>2
      <4> QED BY <2>3, <4>1, <4>3, <4>4
    <3>3. h \notin spared
      BY <2>1, <3>2 DEF Filed
    <3> QED BY <2>5, <3>1, <3>3 DEF Has, PlanIsPaidFor
  <2> QED BY <2>6, <2>7
<1> QED BY <1>1, Invariance, PTL

=============================================================================
