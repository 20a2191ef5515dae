---------------------------- MODULE BrowserProofs ----------------------------
(***************************************************************************)
(* Proofs about a browser and its router (MCBrowser).                      *)
(***************************************************************************)
EXTENDS MCBrowser, FiniteSetTheorems, SequenceTheorems, WellFoundedInduction, TLAPS

-----------------------------------------------------------------------------
(***************************************************************************)
(* Quick commands (QuickCommand).                                          *)
(***************************************************************************)
(* The inductive invariant. *)

Launch == 1..MaxLaunches
Requests == [launch : Launch, here : BOOLEAN, done : BOOLEAN]
Answer == [launch : Launch, type : {"ack", "error"}]

CommandTypeOK ==
  /\ remote \in BOOLEAN /\ open \in BOOLEAN
  /\ launched \in 0..MaxLaunches /\ pending \in Launch \cup {None} /\ promise \in {"none", "sent", "lookup"}
  /\ outboundQueue \in Seq(Launch) /\ up \in Seq(Launch) /\ answers \in Seq(Answer)
  /\ late \in SUBSET Launch /\ running \in SUBSET Requests
  /\ receipts \in [Launch -> {"none", "pending", "ack", "error", "unknown"}]
  /\ executed \in [Launch -> {0, 1}] /\ told \in [Launch -> {None, "done", "rejected"}]

\* The requests that may still reach the server.
Coming == ToSet(outboundQueue) \cup ToSet(up) \cup late
Distinct(s) == \A i, j \in DOMAIN s : s[i] = s[j] => i = j

\* A launch has one request at most: on its way or in execution.
OneRequest ==
  /\ Distinct(outboundQueue) /\ Distinct(up)
  /\ ToSet(outboundQueue) \cap ToSet(up) = {} /\ (ToSet(outboundQueue) \cup ToSet(up)) \cap late = {}
  /\ \A r \in running : r.launch \notin Coming /\ \A q \in running : q.launch = r.launch => q = r
  /\ \A l \in Coming : l <= launched /\ executed[l] = 0
  /\ \A r \in running : r.launch <= launched /\ executed[r.launch] = IF r.done THEN 1 ELSE 0
  /\ \A l \in Launch : l > launched => executed[l] = 0 /\ told[l] = None

\* Nothing of the launch is left that could run.
Spent(l) == l \notin Coming /\ \A r \in running : r.launch # l

\* What a receipt or an answer says of a launch is so for good.
So(l, type) ==
  /\ type = "ack" => executed[l] = 1
  /\ type = "error" => executed[l] = 0 /\ Spent(l) /\ l <= launched

Answering ==
  /\ \A l \in Launch : So(l, receipts[l])
  /\ \A i \in DOMAIN answers : So(answers[i].launch, answers[i].type)
  /\ \A l \in Launch : /\ told[l] = "done" => executed[l] = 1
                       /\ told[l] = "rejected" => executed[l] = 0 /\ Spent(l)

\* Only the last launch may be unanswered, and it is the one that is waited for.
Remembered ==
  /\ waiters \subseteq {pending} \ {None} /\ (waiters # {} => promise = "sent")
  /\ promise # "none" => pending # None
  /\ pending \in {launched, None}
  /\ \A l \in Launch : l <= launched /\ l # pending => told[l] # None

CommandInv == CommandTypeOK /\ OneRequest /\ Answering /\ Remembered

-----------------------------------------------------------------------------
(* Sequences. *)

LEMMA AppendedTo ==
  ASSUME NEW S, NEW s \in Seq(S), NEW x \in S
  PROVE  /\ Append(s, x) \in Seq(S) /\ ToSet(Append(s, x)) = ToSet(s) \cup {x}
         /\ Distinct(s) /\ x \notin ToSet(s) => Distinct(Append(s, x))
<1>1. /\ Append(s, x) \in Seq(S) /\ Len(s) \in Nat /\ DOMAIN s = 1..Len(s)
      /\ DOMAIN Append(s, x) = 1..Len(s) + 1 /\ Append(s, x)[Len(s) + 1] = x
      /\ \A i \in 1..Len(s) : Append(s, x)[i] = s[i]
  OBVIOUS
<1>2. ToSet(Append(s, x)) = ToSet(s) \cup {x}
  BY <1>1 DEF ToSet
<1>3. ASSUME Distinct(s), x \notin ToSet(s)
      PROVE  Distinct(Append(s, x))
  BY <1>1, <1>3 DEF ToSet, Distinct
<1> QED BY <1>1, <1>2, <1>3

LEMMA TakenFrom ==
  ASSUME NEW S, NEW s \in Seq(S), s # <<>>
  PROVE  /\ Tail(s) \in Seq(S) /\ Head(s) \in S /\ ToSet(s) = {Head(s)} \cup ToSet(Tail(s))
         /\ Distinct(s) => Distinct(Tail(s)) /\ Head(s) \notin ToSet(Tail(s))
<1>1. /\ Tail(s) \in Seq(S) /\ Head(s) = s[1] /\ Len(s) \in Nat \ {0} /\ DOMAIN s = 1..Len(s)
      /\ Head(s) \in S /\ DOMAIN Tail(s) = 1..Len(s) - 1
      /\ \A i \in 1..Len(s) - 1 : Tail(s)[i] = s[i + 1]
  OBVIOUS
<1>2. ASSUME NEW i \in DOMAIN s, i # 1
      PROVE  i - 1 \in DOMAIN Tail(s) /\ Tail(s)[i - 1] = s[i]
  BY <1>1, <1>2
<1>3. ToSet(s) = {Head(s)} \cup ToSet(Tail(s))
  <2>1. ToSet(Tail(s)) \subseteq ToSet(s)
    BY <1>1 DEF ToSet
  <2>2. Head(s) \in ToSet(s)
    BY <1>1 DEF ToSet
  <2>3. ToSet(s) \subseteq {Head(s)} \cup ToSet(Tail(s))
    <3> SUFFICES ASSUME NEW i \in DOMAIN s
                 PROVE  s[i] \in {Head(s)} \cup ToSet(Tail(s))
      BY DEF ToSet
    <3>1. CASE i = 1
      BY <3>1, <1>1
    <3>2. CASE i # 1
      BY <3>2, <1>2 DEF ToSet
    <3> QED BY <3>1, <3>2
  <2> QED BY <2>1, <2>2, <2>3
<1>4. ASSUME Distinct(s)
      PROVE  Distinct(Tail(s)) /\ Head(s) \notin ToSet(Tail(s))
  BY <1>1, <1>4 DEF ToSet, Distinct
<1> QED BY <1>1, <1>3, <1>4

LEMMA NothingIn == /\ ToSet(<<>>) = {} /\ Distinct(<<>>) /\ \A S : <<>> \in Seq(S)
BY DEF ToSet, Distinct

LEMMA SetsAlike == \A s : Command!ToSet(s) = ToSet(s)
BY DEF Command!ToSet, ToSet

-----------------------------------------------------------------------------
(* The client. *)

LEMMA LaunchesAre ==
  ASSUME Command!QuickCommandAssumption
  PROVE  /\ MaxLaunches \in Nat /\ None \notin Launch /\ None \notin {"done", "rejected"}
         /\ Command!Launches = Launch /\ Launch \subseteq Nat
BY DEF Command!QuickCommandAssumption, Command!Launches, Launch

LEMMA CommandInit ==
  ASSUME Command!QuickCommandAssumption, Command!Init
  PROVE  CommandInv
<1>1. /\ remote \in BOOLEAN /\ open = TRUE /\ launched = 0 /\ pending = None /\ promise = "none"
      /\ waiters = {} /\ outboundQueue = <<>> /\ up = <<>> /\ answers = <<>> /\ late = {} /\ running = {}
      /\ receipts = [l \in Launch |-> "none"] /\ executed = [l \in Launch |-> 0]
      /\ told = [l \in Launch |-> None]
  BY LaunchesAre DEF Command!Init
<1>2. Coming = {}
  BY <1>1, NothingIn DEF Coming
<1>3. CommandTypeOK
  BY <1>1, NothingIn, LaunchesAre DEF CommandTypeOK
<1>4. OneRequest
  BY <1>1, <1>2, NothingIn, LaunchesAre DEF OneRequest
<1>5. Answering
  BY <1>1, LaunchesAre DEF Answering, So
<1>6. Remembered
  BY <1>1, LaunchesAre DEF Remembered
<1> QED BY <1>3, <1>4, <1>5, <1>6 DEF CommandInv

LEMMA LaunchFacts ==
  ASSUME Command!QuickCommandAssumption, CommandTypeOK
  PROVE  /\ Coming \subseteq Launch /\ launched \in Nat
         /\ \A l \in Launch : l \in Nat /\ l # None /\ executed[l] \in {0, 1}
         /\ \A r \in running : r \in Requests /\ r.launch \in Launch /\ r.done \in BOOLEAN
         /\ \A i \in DOMAIN answers : answers[i].launch \in Launch /\ answers[i].type \in {"ack", "error"}
<1>1. ToSet(outboundQueue) \subseteq Launch /\ ToSet(up) \subseteq Launch
  BY DEF CommandTypeOK, ToSet
<1>2. Coming \subseteq Launch /\ launched \in Nat
  BY <1>1, LaunchesAre DEF CommandTypeOK, Coming
<1>3. \A l \in Launch : l \in Nat /\ l # None /\ executed[l] \in {0, 1}
  BY LaunchesAre DEF CommandTypeOK
<1>4. \A r \in running : r \in Requests /\ r.launch \in Launch /\ r.done \in BOOLEAN
  BY DEF CommandTypeOK, Requests
<1>5. \A i \in DOMAIN answers : answers[i] \in Answer
  BY DEF CommandTypeOK
<1>6. \A i \in DOMAIN answers : answers[i].launch \in Launch /\ answers[i].type \in {"ack", "error"}
  BY <1>5 DEF Answer
<1> QED BY <1>2, <1>3, <1>4, <1>6

\* Nothing that was so changes while no launch but a new one gets a request.
LEMMA StaysSo ==
  ASSUME Command!QuickCommandAssumption, CommandTypeOK, UNCHANGED executed, launched' \in Nat,
         launched <= launched',
         \A l \in Launch : l <= launched /\ Spent(l) => Spent(l)'
  PROVE  \A l \in Launch : \A type : So(l, type) => So(l, type)'
BY LaunchFacts DEF So

LEMMA StartInv ==
  ASSUME Command!QuickCommandAssumption, CommandInv, Command!Start
  PROVE  CommandInv'
<1> DEFINE l == launched + 1
<1>0. CommandTypeOK /\ OneRequest /\ Answering /\ Remembered
  BY DEF CommandInv
<1>1. /\ pending = None /\ launched < MaxLaunches /\ launched' = l /\ Command!command(l)
      /\ UNCHANGED <<remote, open, answers, late, running, receipts, executed>>
  BY DEF Command!Start
<1>2. /\ l \in Launch /\ l \in Nat /\ launched \in Nat /\ l # None /\ l = launched + 1
      /\ \A k \in Launch : k \in Nat
  BY <1>0, <1>1, LaunchesAre DEF CommandTypeOK, Launch
<1>3. l \notin Coming /\ executed[l] = 0 /\ told[l] = None /\ \A r \in running : r.launch # l
  BY <1>0, <1>2 DEF OneRequest
<1>4. promise = "none" /\ waiters = {}
  BY <1>0, <1>1 DEF Remembered, CommandTypeOK
<1> HIDE DEF l
<1>5. CASE remote /\ ~open
  <2>1. /\ pending' = None /\ promise' = "none" /\ told' = [told EXCEPT ![l] = "rejected"]
        /\ UNCHANGED <<waiters, up, outboundQueue>>
    BY <1>1, <1>5 DEF Command!command, Command!Settle, Command!Tell
  <2>2. Coming' = Coming /\ \A k \in Launch : Spent(k)' = Spent(k)
    BY <1>1, <2>1 DEF Coming, Spent
  <2>3. CommandTypeOK'
    BY <1>0, <1>1, <1>2, <2>1 DEF CommandTypeOK, Launch
  <2>4. OneRequest'
    <3>a. \A k \in Launch : k > launched' => k # l /\ k > launched
      BY <1>1, <1>2
    <3>b. \A k \in Launch : told'[k] = IF k = l THEN "rejected" ELSE told[k]
      BY <1>0, <1>2, <2>1 DEF CommandTypeOK
    <3>0. \A k \in Launch : k > launched' => k > launched /\ told'[k] = told[k]
      BY <3>a, <3>b
    <3>1. \A k \in Launch : k > launched' => executed'[k] = 0 /\ told'[k] = None
      BY <1>0, <1>1, <3>0 DEF OneRequest
    <3>2. \A k \in Coming' : k <= launched' /\ executed'[k] = 0
      <4>1. \A k \in Coming : k \in Nat /\ k <= launched /\ executed[k] = 0
        BY <1>0, LaunchFacts DEF OneRequest
      <4>2. \A k \in Nat : k <= launched => k <= launched'
        BY <1>1, <1>2
      <4> QED BY <1>1, <2>2, <4>1, <4>2
    <3>3. \A r \in running' : r.launch <= launched' /\ executed'[r.launch] = IF r.done THEN 1 ELSE 0
      <4>1. \A r \in running : /\ r.launch \in Nat /\ r.launch <= launched
                              /\ executed[r.launch] = IF r.done THEN 1 ELSE 0
        BY <1>0, <1>2, LaunchFacts DEF OneRequest
      <4>2. \A k \in Nat : k <= launched => k <= launched'
        BY <1>1, <1>2
      <4> QED BY <1>1, <4>1, <4>2
    <3>4. \A r \in running' : r.launch \notin Coming' /\ \A q \in running' : q.launch = r.launch => q = r
      BY <1>0, <1>1, <2>2 DEF OneRequest
    <3> QED BY <1>0, <1>1, <2>1, <3>1, <3>2, <3>3, <3>4 DEF OneRequest
  <2>5. Answering'
    <3>1. \A k \in Launch : \A type : So(k, type) => So(k, type)'
      BY <1>0, <1>1, <1>2, <2>2, StaysSo
    <3>2. \A k \in Launch : told'[k] = IF k = l THEN "rejected" ELSE told[k]
      BY <1>0, <1>2, <2>1 DEF CommandTypeOK
    <3>3. Spent(l)
      BY <1>3 DEF Spent
    <3> QED BY <1>0, <1>1, <1>3, <2>2, <3>1, <3>2, <3>3, LaunchFacts DEF Answering
  <2>6. Remembered'
    BY <1>0, <1>1, <1>2, <1>4, <2>1, LaunchesAre DEF Remembered, CommandTypeOK
  <2> QED BY <2>3, <2>4, <2>5, <2>6 DEF CommandInv
<1>6. CASE ~(remote /\ ~open)
  <2>1. /\ pending' = l /\ promise' = "sent" /\ UNCHANGED told /\ waiters' = waiters \cup {l}
        /\ IF open THEN up' = Append(up, l) /\ UNCHANGED outboundQueue
           ELSE outboundQueue' = Append(outboundQueue, l) /\ UNCHANGED up
    BY <1>1, <1>6 DEF Command!command
  <2>2. /\ Coming' = Coming \cup {l} /\ Distinct(up)' /\ Distinct(outboundQueue)'
        /\ up' \in Seq(Launch) /\ outboundQueue' \in Seq(Launch)
        /\ (ToSet(outboundQueue) \cap ToSet(up) = {} /\ (ToSet(outboundQueue) \cup ToSet(up)) \cap late = {})'
    <3>0. /\ Distinct(up) /\ Distinct(outboundQueue) /\ up \in Seq(Launch) /\ outboundQueue \in Seq(Launch)
          /\ ToSet(outboundQueue) \cap ToSet(up) = {} /\ (ToSet(outboundQueue) \cup ToSet(up)) \cap late = {}
          /\ l \notin ToSet(up) /\ l \notin ToSet(outboundQueue) /\ l \notin late
      BY <1>0, <1>3 DEF CommandTypeOK, OneRequest, Coming
    <3>1. Append(up, l) \in Seq(Launch) /\ ToSet(Append(up, l)) = ToSet(up) \cup {l} /\ Distinct(Append(up, l))
      BY <1>2, <3>0, AppendedTo
    <3>2. /\ Append(outboundQueue, l) \in Seq(Launch) /\ Distinct(Append(outboundQueue, l))
          /\ ToSet(Append(outboundQueue, l)) = ToSet(outboundQueue) \cup {l}
      BY <1>2, <3>0, AppendedTo
    <3>3. CASE open
      BY <3>0, <3>1, <3>3, <2>1, <1>1 DEF Coming
    <3>4. CASE ~open
      BY <3>0, <3>2, <3>4, <2>1, <1>1 DEF Coming
    <3> QED BY <3>3, <3>4
  <2>3. CommandTypeOK'
    BY <1>0, <1>1, <1>2, <2>1, <2>2 DEF CommandTypeOK, Launch
  <2>4. OneRequest'
    <3>1. \A r \in running : r.launch # l /\ r.launch \in Launch
      BY <1>0, <1>3 DEF CommandTypeOK, Requests
    <3>2. Coming \subseteq Launch /\ \A k \in Launch : k \in Nat
      BY <1>0, LaunchFacts
    <3>3. \A k \in Coming' : k <= launched' /\ executed'[k] = 0
      <4>1. \A k \in Coming : k \in Nat /\ k <= launched /\ executed[k] = 0
        BY <1>0, <3>2 DEF OneRequest
      <4>2. l <= l /\ \A k \in Nat : k <= launched => k <= l
        BY <1>2
      <4> QED BY <1>1, <1>3, <2>2, <4>1, <4>2
    <3>4. \A r \in running' : r.launch <= launched' /\ executed'[r.launch] = IF r.done THEN 1 ELSE 0
      <4>1. \A k \in Nat : k <= launched => k <= l
        BY <1>2
      <4> QED BY <1>0, <1>1, <3>1, <3>2, <4>1 DEF OneRequest
    <3>5. \A r \in running' : r.launch \notin Coming' /\ \A q \in running' : q.launch = r.launch => q = r
      BY <1>0, <1>1, <2>2, <3>1 DEF OneRequest
    <3>6. \A k \in Launch : k > launched' => executed'[k] = 0 /\ told'[k] = None
      BY <1>0, <1>1, <1>2, <2>1 DEF OneRequest
    <3> QED BY <2>2, <3>3, <3>4, <3>5, <3>6 DEF OneRequest
  <2>5. Answering'
    <3>1. \A k \in Launch : k # l /\ Spent(k) => Spent(k)'
      BY <1>1, <2>2 DEF Spent
    <3>2. \A k \in Launch : \A type : So(k, type) => So(k, type)'
      BY <1>0, <1>1, <1>2, <3>1, StaysSo
    <3> QED BY <1>0, <1>1, <1>3, <2>1, <3>1, <3>2, LaunchesAre, LaunchFacts DEF Answering
  <2>6. Remembered'
    BY <1>0, <1>1, <1>2, <1>4, <2>1, LaunchesAre DEF Remembered, CommandTypeOK
  <2> QED BY <2>3, <2>4, <2>5, <2>6 DEF CommandInv
<1> QED BY <1>5, <1>6


\* Only the promise changes.
LEMMA PromiseInv ==
  ASSUME Command!QuickCommandAssumption, CommandInv, promise # "none" \/ pending # None, waiters = {},
         promise' \in {"none", "lookup"},
         UNCHANGED <<remote, open, pending, waiters, outboundQueue, launched, up, answers, late, running, receipts,
                     executed, told>>
  PROVE  CommandInv'
<1>0. CommandTypeOK /\ OneRequest /\ Answering /\ Remembered
  BY DEF CommandInv
<1>1. Coming' = Coming /\ \A l \in Launch : Spent(l)' = Spent(l)
  BY DEF Coming, Spent
<1>2. CommandTypeOK'
  BY <1>0 DEF CommandTypeOK
<1>3. OneRequest'
  BY <1>0, <1>1 DEF OneRequest
<1>4. Answering'
  BY <1>0, <1>1 DEF Answering, So, Spent, Coming
<1>5. Remembered'
  BY <1>0 DEF Remembered
<1> QED BY <1>2, <1>3, <1>4, <1>5 DEF CommandInv

\* The launch that is remembered ended as the user is told.
LEMMA SettleInv ==
  ASSUME Command!QuickCommandAssumption, CommandInv, pending # None,
         NEW what \in {"done", "rejected"}, Command!Settle(pending, what),
         waiters' = {}, answers' = answers \/ (answers # <<>> /\ answers' = Tail(answers)),
         So(pending, IF what = "done" THEN "ack" ELSE "error"),
         UNCHANGED <<remote, open, outboundQueue, launched, up, late, running, receipts, executed>>
  PROVE  CommandInv'
<1>0. CommandTypeOK /\ OneRequest /\ Answering /\ Remembered
  BY DEF CommandInv
<1>1. /\ pending' = None /\ promise' = "none" /\ told' = [told EXCEPT ![pending] = what]
  BY DEF Command!Settle, Command!Tell
<1>2. pending = launched /\ pending \in Launch /\ launched \in Launch
  BY <1>0 DEF CommandTypeOK, Remembered
<1>3. \A k \in Launch : told'[k] = IF k = pending THEN what ELSE told[k]
  BY <1>0, <1>1, <1>2 DEF CommandTypeOK
<1>4. Coming' = Coming /\ \A k \in Launch : Spent(k)' = Spent(k)
  BY DEF Coming, Spent
<1>5. /\ answers' \in Seq(Answer)
         /\ \A i \in DOMAIN answers' : \E j \in DOMAIN answers : answers'[i] = answers[j]
  <2>1. CASE answers' = answers
    BY <2>1, <1>0 DEF CommandTypeOK
  <2>2. CASE answers # <<>> /\ answers' = Tail(answers)
    <3>1. answers \in Seq(Answer)
      BY <1>0 DEF CommandTypeOK
    <3>2. Tail(answers) \in Seq(Answer) /\ ToSet(Tail(answers)) \subseteq ToSet(answers)
      BY <2>2, <3>1, TakenFrom
    <3> QED BY <2>2, <3>2 DEF ToSet
  <2> QED BY <2>1, <2>2
<1>6. CommandTypeOK'
  BY <1>0, <1>1, <1>2, <1>5, LaunchesAre DEF CommandTypeOK
<1>7. OneRequest'
  <2>1. \A k \in Launch : k > launched' => executed'[k] = 0 /\ told'[k] = None
    BY <1>0, <1>2, <1>3, LaunchFacts DEF OneRequest
  <2> QED BY <1>0, <1>4, <2>1 DEF OneRequest
<1>8. Answering'
  <2>1. \A k \in Launch : \A type : So(k, type) => So(k, type)'
    BY <1>4 DEF So
  <2>2. /\ what = "done" => executed[pending] = 1
        /\ what = "rejected" => executed[pending] = 0 /\ Spent(pending)
    BY DEF So
  <2>3. \A k \in Launch : So(k, receipts[k])'
    BY <1>0, <2>1 DEF Answering, So
  <2>4. (\A i \in DOMAIN answers : So(answers[i].launch, answers[i].type))'
    BY <1>0, <1>5, <2>1, LaunchFacts DEF Answering
  <2>5. \A k \in Launch : /\ told'[k] = "done" => executed'[k] = 1
                          /\ told'[k] = "rejected" => executed'[k] = 0 /\ Spent(k)'
    BY <1>0, <1>3, <1>4, <2>2 DEF Answering
  <2> QED BY <2>3, <2>4, <2>5 DEF Answering
<1>9. Remembered'
  BY <1>0, <1>1, <1>2, <1>3, LaunchesAre DEF Remembered
<1> QED BY <1>6, <1>7, <1>8, <1>9 DEF CommandInv

LEMMA RecoverInv ==
  ASSUME Command!QuickCommandAssumption, CommandInv, Command!recover
  PROVE  CommandInv'
<1>0. CommandTypeOK /\ OneRequest /\ Answering /\ Remembered
  BY DEF CommandInv
<1>1. /\ promise = "lookup"
      /\ UNCHANGED <<remote, open, waiters, outboundQueue, launched, up, answers, late, running, receipts, executed>>
      /\ \/ receipts[pending] = "ack" /\ Command!Settle(pending, "done")
         \/ receipts[pending] = "error" /\ Command!Settle(pending, "rejected")
         \/ promise' = "none" /\ UNCHANGED <<pending, told>>
  BY DEF Command!recover
<1>2. pending # None /\ waiters = {} /\ pending \in Launch
  BY <1>0, <1>1 DEF Remembered, CommandTypeOK
<1>3. So(pending, receipts[pending])
  BY <1>0, <1>2 DEF Answering
<1>4. CASE receipts[pending] = "ack" /\ Command!Settle(pending, "done")
  BY <1>1, <1>2, <1>3, <1>4, SettleInv
<1>5. CASE receipts[pending] = "error" /\ Command!Settle(pending, "rejected")
  BY <1>1, <1>2, <1>3, <1>5, SettleInv
<1>6. CASE promise' = "none" /\ UNCHANGED <<pending, told>>
  BY <1>1, <1>2, <1>6, PromiseInv
<1> QED BY <1>1, <1>4, <1>5, <1>6

LEMMA LookupInv ==
  ASSUME Command!QuickCommandAssumption, CommandInv, Command!StartAgain \/ Command!LookupFails
  PROVE  CommandInv'
<1>1. waiters = {}
  BY DEF Command!StartAgain, Command!LookupFails, CommandInv, Remembered
<1> QED BY <1>1, PromiseInv DEF Command!StartAgain, Command!LookupFails

LEMMA AnsweredInv ==
  ASSUME Command!QuickCommandAssumption, CommandInv, Command!Answered
  PROVE  CommandInv'
<1> DEFINE a == Head(answers)
<1>0. CommandTypeOK /\ OneRequest /\ Answering /\ Remembered
  BY DEF CommandInv
<1>1. /\ answers # <<>> /\ answers' = Tail(answers) /\ waiters' = waiters \ {a.launch}
      /\ IF a.launch \notin waiters THEN UNCHANGED <<pending, promise, told>>
         ELSE Command!Settle(a.launch, IF a.type = "ack" THEN "done" ELSE "rejected")
      /\ UNCHANGED <<remote, open, outboundQueue, launched, up, late, running, receipts, executed>>
  BY DEF Command!Answered
<1>2. answers \in Seq(Answer)
  BY <1>0 DEF CommandTypeOK
<1>3. /\ Tail(answers) \in Seq(Answer) /\ a \in Answer
      /\ ToSet(answers) = {a} \cup ToSet(Tail(answers))
  BY <1>1, <1>2, TakenFrom
<1>4. So(a.launch, a.type) /\ a.launch \in Launch /\ a.type \in {"ack", "error"} /\ a = a
  <2>1. \E i \in DOMAIN answers : answers[i] = a
    BY <1>3 DEF ToSet
  <2> QED BY <1>0, <1>3, <2>1 DEF Answering, Answer
<1>5. \A i \in DOMAIN answers' : \E j \in DOMAIN answers : answers'[i] = answers[j]
  BY <1>1, <1>3 DEF ToSet
<1> HIDE DEF a
<1>6. CASE a.launch \in waiters
  <2>1. a.launch = pending /\ pending # None /\ waiters' = {}
    BY <1>0, <1>1, <1>6 DEF Remembered
  <2>2. CASE a.type = "ack"
    BY <1>1, <1>4, <1>6, <2>1, <2>2, SettleInv
  <2>3. CASE a.type = "error"
    BY <1>1, <1>4, <1>6, <2>1, <2>3, SettleInv
  <2> QED BY <1>4, <2>2, <2>3
<1>7. CASE a.launch \notin waiters
  <2>1. UNCHANGED <<pending, promise, told, waiters>>
    BY <1>1, <1>7
  <2>2. Coming' = Coming /\ \A l \in Launch : Spent(l)' = Spent(l)
    BY <1>1 DEF Coming, Spent
  <2>3. CommandTypeOK'
    BY <1>0, <1>1, <1>3, <2>1 DEF CommandTypeOK
  <2>4. OneRequest'
    BY <1>0, <1>1, <2>1, <2>2 DEF OneRequest
  <2>5. Answering'
    <3>1. \A k \in Launch : \A type : So(k, type) => So(k, type)'
      BY <1>1, <2>2 DEF So
    <3>2. \A k \in Launch : So(k, receipts[k])'
      BY <1>0, <1>1, <3>1 DEF Answering, So
    <3>3. (\A i \in DOMAIN answers : So(answers[i].launch, answers[i].type))'
      BY <1>0, <1>5, <3>1, LaunchFacts DEF Answering, So
    <3> QED BY <1>0, <1>1, <2>1, <2>2, <3>2, <3>3 DEF Answering
  <2>6. Remembered'
    BY <1>0, <1>1, <2>1 DEF Remembered
  <2> QED BY <2>3, <2>4, <2>5, <2>6 DEF CommandInv
<1> QED BY <1>6, <1>7


-----------------------------------------------------------------------------
(* The connection. *)

\* Requests move or are lost, none is made: what was said stays so.
LEMMA MovedInv ==
  ASSUME Command!QuickCommandAssumption, CommandInv, CommandTypeOK',
         (Distinct(outboundQueue) /\ Distinct(up) /\ ToSet(outboundQueue) \cap ToSet(up) = {}
            /\ (ToSet(outboundQueue) \cup ToSet(up)) \cap late = {})',
         Coming' \subseteq Coming,
         \A r \in running' : \E q \in running : r.launch = q.launch /\ r.done = q.done,
         \A r, q \in running' : r.launch = q.launch => r = q,
         \A l \in Launch : receipts'[l] \in {"ack", "error"} => receipts'[l] = receipts[l],
         answers' = answers \/ answers' = <<>>,
         \/ UNCHANGED <<waiters, promise>>
         \/ waiters' = {} /\ promise' = IF promise = "sent" THEN "lookup" ELSE promise,
         UNCHANGED <<launched, pending, told, executed>>
  PROVE  CommandInv'
<1>0. CommandTypeOK /\ OneRequest /\ Answering /\ Remembered
  BY DEF CommandInv
<1>1. \A l \in Launch : Spent(l) => Spent(l)'
  BY DEF Spent
<1>2. \A l \in Launch : \A type : So(l, type) => So(l, type)'
  BY <1>1 DEF So
<1>3. OneRequest'
  <2>1. \A l \in Coming' : l <= launched' /\ executed'[l] = 0
    BY <1>0 DEF OneRequest
  <2>2. \A r \in running' : r.launch <= launched' /\ executed'[r.launch] = IF r.done THEN 1 ELSE 0
    BY <1>0 DEF OneRequest
  <2>3. \A r \in running' : r.launch \notin Coming' /\ \A q \in running' : q.launch = r.launch => q = r
    BY <1>0 DEF OneRequest
  <2>4. \A l \in Launch : l > launched' => executed'[l] = 0 /\ told'[l] = None
    BY <1>0 DEF OneRequest
  <2> QED BY <2>1, <2>2, <2>3, <2>4 DEF OneRequest
<1>4. Answering'
  <2>1. (\A l \in Launch : So(l, receipts[l]))'
    BY <1>0, <1>2 DEF Answering, So
  <2>2. (\A i \in DOMAIN answers : So(answers[i].launch, answers[i].type))'
    BY <1>0, <1>2, LaunchFacts DEF Answering
  <2>3. \A l \in Launch : /\ told'[l] = "done" => executed'[l] = 1
                          /\ told'[l] = "rejected" => executed'[l] = 0 /\ Spent(l)'
    BY <1>0, <1>1 DEF Answering
  <2> QED BY <2>1, <2>2, <2>3 DEF Answering
<1>5. Remembered'
  BY <1>0 DEF Remembered
<1> QED BY <1>3, <1>4, <1>5 DEF CommandInv

LEMMA DisconnectInv ==
  ASSUME Command!QuickCommandAssumption, CommandInv, Command!Disconnect
  PROVE  CommandInv'
<1>0. CommandTypeOK /\ OneRequest
  BY DEF CommandInv
<1>1. /\ open' = FALSE /\ late' = late \cup ToSet(up) /\ up' = <<>> /\ answers' = <<>>
      /\ running' = {[r EXCEPT !.here = FALSE] : r \in running}
      /\ outboundQueue' = IF remote THEN <<>> ELSE outboundQueue
      /\ waiters' = {} /\ promise' = IF promise = "sent" THEN "lookup" ELSE promise
      /\ UNCHANGED <<launched, pending, told, executed, remote, receipts>>
  BY SetsAlike DEF Command!Disconnect, Command!WaitersRejected
<1>2. \A r \in running : /\ [r EXCEPT !.here = FALSE] \in Requests
                         /\ [r EXCEPT !.here = FALSE].launch = r.launch
                         /\ [r EXCEPT !.here = FALSE].done = r.done
                         /\ [r EXCEPT !.here = FALSE].here = FALSE
  BY <1>0 DEF CommandTypeOK, Requests
<1>3. \A r \in running' : /\ \E q \in running : r.launch = q.launch /\ r.done = q.done
                          /\ r \in Requests /\ r.here = FALSE
  BY <1>1, <1>2
<1>4. \A r, q \in running' : r.launch = q.launch => r = q
  <2>1. \A r, q \in running : r.launch = q.launch => r = q
    BY <1>0 DEF OneRequest
  <2> SUFFICES ASSUME NEW r \in running', NEW q \in running', r.launch = q.launch
               PROVE  r = q
    OBVIOUS
  <2>2. PICK r1 \in running : r = [r1 EXCEPT !.here = FALSE]
    BY <1>1
  <2>3. PICK q1 \in running : q = [q1 EXCEPT !.here = FALSE]
    BY <1>1
  <2>4. r1.launch = r.launch /\ q1.launch = q.launch
    BY <1>2, <2>2, <2>3
  <2>5. r1 = q1
    BY <2>1, <2>4
  <2> QED BY <2>2, <2>3, <2>5
<1>5. /\ ToSet(up) \subseteq Launch /\ up' \in Seq(Launch) /\ outboundQueue' \in Seq(Launch)
      /\ answers' \in Seq(Answer)
      /\ ToSet(outboundQueue') \subseteq ToSet(outboundQueue) /\ ToSet(up') = {}
      /\ Distinct(outboundQueue') /\ Distinct(up')
  <2>1. \A i \in DOMAIN up : up[i] \in Launch
    BY <1>0 DEF CommandTypeOK
  <2>2. ToSet(up) \subseteq Launch
    BY <2>1 DEF ToSet
  <2>3. up' \in Seq(Launch) /\ answers' \in Seq(Answer) /\ ToSet(up') = {} /\ Distinct(up')
    BY <1>1, NothingIn
  <2>4. outboundQueue' = outboundQueue \/ outboundQueue' = <<>>
    BY <1>1
  <2>5. outboundQueue \in Seq(Launch) /\ Distinct(outboundQueue)
    BY <1>0 DEF CommandTypeOK, OneRequest
  <2>6. outboundQueue' \in Seq(Launch) /\ Distinct(outboundQueue')
    BY <2>4, <2>5, NothingIn
  <2>7. ToSet(outboundQueue') \subseteq ToSet(outboundQueue)
    BY <2>4, NothingIn
  <2> QED BY <2>2, <2>3, <2>6, <2>7
<1>6. Coming' \subseteq Coming /\ ToSet(outboundQueue') \cap late' = {}
  BY <1>0, <1>1, <1>5 DEF Coming, OneRequest
<1>7. CommandTypeOK'
  <2>1. running' \in SUBSET Requests /\ late' \in SUBSET Launch
    BY <1>0, <1>1, <1>3, <1>5 DEF CommandTypeOK
  <2> QED BY <1>0, <1>1, <1>5, <2>1 DEF CommandTypeOK
<1>8. (Distinct(outboundQueue) /\ Distinct(up) /\ ToSet(outboundQueue) \cap ToSet(up) = {}
         /\ (ToSet(outboundQueue) \cup ToSet(up)) \cap late = {})'
  BY <1>5, <1>6
<1>9. /\ \A r \in running' : \E q \in running : r.launch = q.launch /\ r.done = q.done
      /\ \A l \in Launch : receipts'[l] \in {"ack", "error"} => receipts'[l] = receipts[l]
  BY <1>1, <1>3
<1> QED BY <1>1, <1>4, <1>6, <1>7, <1>8, <1>9, MovedInv

\* A step that touches neither the requests in execution nor the receipts.
LEMMA ConnectInv ==
  ASSUME Command!QuickCommandAssumption, CommandInv, Command!ConnectFails \/ Command!Connect
  PROVE  CommandInv'
<1>0. CommandTypeOK /\ OneRequest
  BY DEF CommandInv
<1>1. /\ open' \in BOOLEAN
      /\ \/ outboundQueue' \in {outboundQueue, <<>>} /\ up' = up
         \/ up' = outboundQueue /\ outboundQueue' = <<>>
      /\ \/ UNCHANGED <<waiters, promise>>
         \/ waiters' = {} /\ promise' = IF promise = "sent" THEN "lookup" ELSE promise
      /\ UNCHANGED <<launched, pending, told, executed, remote, receipts, answers, late, running>>
  BY <1>0 DEF Command!ConnectFails, Command!Connect, Command!WaitersRejected, CommandTypeOK
<1>2. /\ (Distinct(outboundQueue) /\ Distinct(up) /\ ToSet(outboundQueue) \cap ToSet(up) = {}
            /\ (ToSet(outboundQueue) \cup ToSet(up)) \cap late = {})'
      /\ Coming' \subseteq Coming /\ outboundQueue' \in Seq(Launch) /\ up' \in Seq(Launch)
  <2>1. /\ Distinct(outboundQueue) /\ Distinct(up) /\ ToSet(outboundQueue) \cap ToSet(up) = {}
        /\ (ToSet(outboundQueue) \cup ToSet(up)) \cap late = {}
        /\ outboundQueue \in Seq(Launch) /\ up \in Seq(Launch) /\ <<>> \in Seq(Launch)
        /\ ToSet(<<>>) = {} /\ Distinct(<<>>) /\ late' = late
    BY <1>0, <1>1, NothingIn DEF CommandTypeOK, OneRequest
  <2>2. CASE outboundQueue' = outboundQueue /\ up' = up
    BY <2>1, <2>2 DEF Coming
  <2>3. CASE outboundQueue' = <<>> /\ up' = up
    BY <2>1, <2>3 DEF Coming
  <2>4. CASE up' = outboundQueue /\ outboundQueue' = <<>>
    BY <2>1, <2>4 DEF Coming
  <2> QED BY <1>1, <2>2, <2>3, <2>4
<1>3. CommandTypeOK'
  BY <1>0, <1>1, <1>2 DEF CommandTypeOK
<1>4. /\ \A r \in running' : \E q \in running : r.launch = q.launch /\ r.done = q.done
      /\ \A r, q \in running' : r.launch = q.launch => r = q
      /\ \A l \in Launch : receipts'[l] \in {"ack", "error"} => receipts'[l] = receipts[l]
  BY <1>0, <1>1 DEF OneRequest
<1> QED BY <1>1, <1>2, <1>3, <1>4, MovedInv

LEMMA RestartInv ==
  ASSUME Command!QuickCommandAssumption, CommandInv, Command!Restart
  PROVE  CommandInv'
<1>0. CommandTypeOK /\ OneRequest
  BY DEF CommandInv
<1>1. /\ open' = FALSE /\ late' = {} /\ up' = <<>> /\ answers' = <<>> /\ running' = {}
      /\ outboundQueue' \in {outboundQueue, <<>>}
      /\ \/ UNCHANGED <<waiters, promise>>
         \/ waiters' = {} /\ promise' = IF promise = "sent" THEN "lookup" ELSE promise
      /\ receipts' = [l \in Launch |-> Command!Unfinished(receipts[l])]
      /\ UNCHANGED <<launched, pending, told, executed, remote>>
  BY LaunchesAre DEF Command!Restart, Command!WaitersRejected, Command!client
<1>2. \A l \in Launch : /\ receipts'[l] \in {"none", "ack", "error", "unknown"}
                        /\ receipts'[l] \in {"ack", "error"} => receipts'[l] = receipts[l]
  BY <1>0, <1>1 DEF CommandTypeOK, Command!Unfinished
<1>3. /\ (Distinct(outboundQueue) /\ Distinct(up) /\ ToSet(outboundQueue) \cap ToSet(up) = {}
            /\ (ToSet(outboundQueue) \cup ToSet(up)) \cap late = {})'
      /\ Coming' \subseteq Coming /\ outboundQueue' \in Seq(Launch) /\ up' \in Seq(Launch)
         /\ answers' \in Seq(Answer)
  BY <1>0, <1>1, NothingIn DEF CommandTypeOK, OneRequest, Coming
<1>4. CommandTypeOK'
  <2>1. receipts' \in [Launch -> {"none", "pending", "ack", "error", "unknown"}]
    BY <1>1, <1>2
  <2> QED BY <1>0, <1>1, <1>3, <2>1 DEF CommandTypeOK
<1>5. /\ \A r \in running' : \E q \in running : r.launch = q.launch /\ r.done = q.done
      /\ \A r, q \in running' : r.launch = q.launch => r = q
  BY <1>1
<1> QED BY <1>1, <1>2, <1>3, <1>4, <1>5, MovedInv

LEMMA ExpireInv ==
  ASSUME Command!QuickCommandAssumption, CommandInv, NEW l \in Launch, Command!Expire(l)
  PROVE  CommandInv'
<1>0. CommandTypeOK /\ OneRequest
  BY DEF CommandInv
<1>1. /\ receipts' = [receipts EXCEPT ![l] = "none"]
      /\ UNCHANGED <<remote, open, pending, promise, waiters, outboundQueue, launched, up, answers, late, running,
                     executed, told>>
  BY DEF Command!Expire, Command!client
<1>2. \A k \in Launch : receipts'[k] \in {"ack", "error"} => receipts'[k] = receipts[k]
  BY <1>0, <1>1 DEF CommandTypeOK
<1>3. CommandTypeOK' /\ Coming' = Coming
  BY <1>0, <1>1 DEF CommandTypeOK, Coming
<1>4. /\ (Distinct(outboundQueue) /\ Distinct(up) /\ ToSet(outboundQueue) \cap ToSet(up) = {}
            /\ (ToSet(outboundQueue) \cup ToSet(up)) \cap late = {})'
      /\ \A r \in running' : \E q \in running : r.launch = q.launch /\ r.done = q.done
      /\ \A r, q \in running' : r.launch = q.launch => r = q
  BY <1>0, <1>1 DEF OneRequest
<1> QED BY <1>1, <1>2, <1>3, <1>4, MovedInv


-----------------------------------------------------------------------------
(* The server. *)

LEMMA BeginInv ==
  ASSUME Command!QuickCommandAssumption, CommandInv, NEW l \in Coming, NEW here \in BOOLEAN,
         Command!Begin(l, here) \/ UNCHANGED <<running, receipts>>,
         up' \in Seq(Launch), late' \in SUBSET Launch, Distinct(up)', Coming' \subseteq Coming \ {l},
         (ToSet(outboundQueue) \cap ToSet(up) = {} /\ (ToSet(outboundQueue) \cup ToSet(up)) \cap late = {})',
         UNCHANGED <<remote, open, pending, promise, waiters, outboundQueue, launched, answers, executed, told>>
  PROVE  CommandInv'
<1> DEFINE new == [launch |-> l, here |-> here, done |-> FALSE]
<1>0. CommandTypeOK /\ OneRequest /\ Answering /\ Remembered
  BY DEF CommandInv
<1>1. /\ l \in Launch /\ l <= launched /\ executed[l] = 0 /\ new \in Requests /\ new.launch = l
         /\ new.done = FALSE
      /\ \A r \in running : r.launch # l
  BY <1>0, LaunchFacts DEF OneRequest, Requests
<1>2. /\ running' \in {running, running \cup {new}}
      /\ \/ receipts' = receipts
         \/ receipts' = [receipts EXCEPT ![l] = "pending"]
  BY DEF Command!Begin
<1> HIDE DEF new
<1>3. /\ \A k \in Launch : receipts'[k] \in {"ack", "error"} => receipts'[k] = receipts[k]
      /\ receipts' \in [Launch -> {"none", "pending", "ack", "error", "unknown"}]
  BY <1>0, <1>1, <1>2 DEF CommandTypeOK
<1>4. \A r \in running' : r \in running \/ r = new
  BY <1>2
<1>5. \A k \in Launch : Spent(k) => Spent(k)'
  BY <1>1, <1>4 DEF Spent
<1>6. \A k \in Launch : \A type : So(k, type) => So(k, type)'
  BY <1>5 DEF So
<1>7. CommandTypeOK'
  <2>1. running' \in SUBSET Requests
    BY <1>0, <1>1, <1>4 DEF CommandTypeOK
  <2> QED BY <1>0, <1>3, <2>1 DEF CommandTypeOK
<1>8. OneRequest'
  <2>1. \A k \in Coming' : k <= launched' /\ executed'[k] = 0
    BY <1>0 DEF OneRequest
  <2>2. \A r \in running' : r.launch <= launched' /\ executed'[r.launch] = IF r.done THEN 1 ELSE 0
    BY <1>0, <1>1, <1>4 DEF OneRequest
  <2>3. \A r \in running' : r.launch \notin Coming' /\ \A q \in running' : q.launch = r.launch => q = r
    BY <1>0, <1>1, <1>4 DEF OneRequest
  <2>4. \A k \in Launch : k > launched' => executed'[k] = 0 /\ told'[k] = None
    BY <1>0 DEF OneRequest
  <2>5. Distinct(outboundQueue)'
    BY <1>0 DEF OneRequest
  <2> QED BY <2>1, <2>2, <2>3, <2>4, <2>5 DEF OneRequest
<1>9. Answering'
  <2>1. (\A k \in Launch : So(k, receipts[k]))'
    BY <1>0, <1>3, <1>6 DEF Answering, So
  <2>2. (\A i \in DOMAIN answers : So(answers[i].launch, answers[i].type))'
    BY <1>0, <1>6, LaunchFacts DEF Answering, So
  <2>3. \A k \in Launch : /\ told'[k] = "done" => executed'[k] = 1
                          /\ told'[k] = "rejected" => executed'[k] = 0 /\ Spent(k)'
    BY <1>0, <1>5 DEF Answering
  <2> QED BY <2>1, <2>2, <2>3 DEF Answering
<1>10. Remembered'
  BY <1>0 DEF Remembered
<1> QED BY <1>7, <1>8, <1>9, <1>10 DEF CommandInv

LEMMA HandleInv ==
  ASSUME Command!QuickCommandAssumption, CommandInv, Command!Handle
  PROVE  CommandInv'
<1> DEFINE l == Head(up)
<1>0. CommandTypeOK /\ OneRequest
  BY DEF CommandInv
<1>1. /\ up # <<>> /\ up' = Tail(up) /\ Command!Begin(l, TRUE)
      /\ UNCHANGED <<remote, open, pending, promise, waiters, outboundQueue, launched, answers, late, executed, told>>
  BY DEF Command!Handle, Command!client
<1>2. up \in Seq(Launch) /\ Distinct(up)
  BY <1>0 DEF CommandTypeOK, OneRequest
<1>3. /\ up' \in Seq(Launch) /\ ToSet(up) = {l} \cup ToSet(up') /\ Distinct(up') /\ l \notin ToSet(up')
  BY <1>1, <1>2, TakenFrom
<1> HIDE DEF l
<1>4. l \in Coming /\ Coming' \subseteq Coming \ {l}
  BY <1>0, <1>1, <1>3 DEF Coming, OneRequest
<1>5. /\ (ToSet(outboundQueue) \cap ToSet(up) = {} /\ (ToSet(outboundQueue) \cup ToSet(up)) \cap late = {})'
      /\ late' \in SUBSET Launch
  BY <1>0, <1>1, <1>3 DEF OneRequest, CommandTypeOK
<1> QED BY <1>1, <1>3, <1>4, <1>5, BeginInv

LEMMA HandleLateInv ==
  ASSUME Command!QuickCommandAssumption, CommandInv, NEW l, Command!HandleLate(l)
  PROVE  CommandInv'
<1>0. CommandTypeOK /\ OneRequest
  BY DEF CommandInv
<1>1. /\ l \in late /\ late' = late \ {l} /\ (Command!Begin(l, FALSE) \/ UNCHANGED <<running, receipts>>)
      /\ UNCHANGED <<remote, open, pending, promise, waiters, outboundQueue, launched, up, answers, executed, told>>
  BY DEF Command!HandleLate, Command!client
<1>2. l \in Coming /\ Coming' \subseteq Coming \ {l}
  BY <1>0, <1>1 DEF Coming, OneRequest
<1>3. /\ (ToSet(outboundQueue) \cap ToSet(up) = {} /\ (ToSet(outboundQueue) \cup ToSet(up)) \cap late = {})'
      /\ late' \in SUBSET Launch /\ up' \in Seq(Launch) /\ Distinct(up)'
  BY <1>0, <1>1 DEF OneRequest, CommandTypeOK
<1> QED BY <1>1, <1>2, <1>3, BeginInv

LEMMA RunInv ==
  ASSUME Command!QuickCommandAssumption, CommandInv, NEW r \in running, Command!Run(r)
  PROVE  CommandInv'
<1> DEFINE ran == [r EXCEPT !.done = TRUE]
           l == r.launch
<1>0. CommandTypeOK /\ OneRequest /\ Answering /\ Remembered
  BY DEF CommandInv
<1>1. /\ ~r.done /\ running' = (running \ {r}) \cup {ran} /\ executed' = [executed EXCEPT ![l] = @ + 1]
      /\ UNCHANGED <<remote, open, pending, promise, waiters, outboundQueue, launched, up, answers, late, receipts, told>>
  BY DEF Command!Run, Command!client
<1>2. r \in Requests
  BY <1>0 DEF CommandTypeOK
<1>3. ran \in Requests /\ ran.launch = l /\ ran.done = TRUE /\ l \in Launch /\ r.launch = l
  BY <1>2 DEF Requests
<1> HIDE DEF ran, l
<1>4. /\ executed[l] = 0 /\ l <= launched /\ l \notin Coming /\ ~Spent(l)
      /\ \A q \in running : q.launch = l => q = r
  BY <1>0, <1>1, <1>3 DEF OneRequest, Spent
<1>5. \A k \in Launch : executed'[k] = IF k = l THEN 1 ELSE executed[k]
  BY <1>0, <1>1, <1>3, <1>4 DEF CommandTypeOK
<1>6. Coming' = Coming
  BY <1>1 DEF Coming
<1>7. \A q \in running' : q = ran \/ (q \in running /\ q.launch # l)
  BY <1>1, <1>4
<1>8. \A k \in Launch : Spent(k) => Spent(k)' /\ k # l
  BY <1>3, <1>4, <1>6, <1>7 DEF Spent
<1>9. \A k \in Launch : \A type : So(k, type) => So(k, type)'
  BY <1>1, <1>5, <1>8 DEF So
<1>10. CommandTypeOK'
  <2>1. running' \in SUBSET Requests
    BY <1>0, <1>1, <1>3 DEF CommandTypeOK
  <2>2. executed' \in [Launch -> {0, 1}]
    BY <1>0, <1>1, <1>5 DEF CommandTypeOK
  <2> QED BY <1>0, <1>1, <2>1, <2>2 DEF CommandTypeOK
<1>11. OneRequest'
  <2>0. Coming \subseteq Launch /\ \A q \in running : q.launch \in Launch
    BY <1>0, LaunchFacts
  <2>1. \A k \in Coming' : k <= launched' /\ executed'[k] = 0
    BY <1>0, <1>1, <1>4, <1>5, <1>6, <2>0 DEF OneRequest
  <2>2. \A q \in running' : q.launch <= launched' /\ executed'[q.launch] = IF q.done THEN 1 ELSE 0
    BY <1>0, <1>1, <1>3, <1>4, <1>5, <1>7, <2>0 DEF OneRequest
  <2>3. \A q \in running' : q.launch \notin Coming' /\ \A p \in running' : p.launch = q.launch => p = q
    BY <1>0, <1>3, <1>4, <1>6, <1>7 DEF OneRequest
  <2>4. \A k \in Launch : k > launched' => executed'[k] = 0 /\ told'[k] = None
    <3>1. \A k \in Launch : k > launched' => k # l
      BY <1>0, <1>1, <1>3, <1>4, LaunchFacts
    <3> QED BY <1>0, <1>1, <1>5, <3>1 DEF OneRequest
  <2> QED BY <1>0, <1>1, <2>1, <2>2, <2>3, <2>4 DEF OneRequest
<1>12. Answering'
  <2>1. \A k \in Launch : So(k, receipts[k])'
    BY <1>0, <1>1, <1>9 DEF Answering, So
  <2>2. (\A i \in DOMAIN answers : So(answers[i].launch, answers[i].type))'
    BY <1>0, <1>1, <1>9, LaunchFacts DEF Answering, So
  <2>3. \A k \in Launch : /\ told'[k] = "done" => executed'[k] = 1
                          /\ told'[k] = "rejected" => executed'[k] = 0 /\ Spent(k)'
    BY <1>0, <1>1, <1>5, <1>8 DEF Answering
  <2> QED BY <2>1, <2>2, <2>3 DEF Answering
<1>13. Remembered'
  BY <1>0, <1>1 DEF Remembered
<1> QED BY <1>10, <1>11, <1>12, <1>13 DEF CommandInv

\* The receipt and the answer of a request that left say how it ended.
LEMMA FinishInv ==
  ASSUME Command!QuickCommandAssumption, CommandInv, NEW r \in running, Command!Complete(r) \/ Command!Refuse(r)
  PROVE  CommandInv'
<1> DEFINE l == r.launch
           type == IF r.done THEN "ack" ELSE "error"
           a == [launch |-> l, type |-> type]
<1>0. CommandTypeOK /\ OneRequest /\ Answering /\ Remembered
  BY DEF CommandInv
<1>1. /\ running' = running \ {r}
         /\ (receipts' = receipts \/ receipts' = [receipts EXCEPT ![l] = IF @ = "pending" THEN type ELSE @])
      /\ answers' = answers \/ answers' = Append(answers, a)
      /\ UNCHANGED <<remote, open, pending, promise, waiters, outboundQueue, launched, up, late, executed, told>>
  BY DEF Command!Complete, Command!Refuse, Command!Finish, Command!Reply, Command!client
<1>2. r \in Requests
  BY <1>0 DEF CommandTypeOK
<1>3. /\ l \in Launch /\ r.launch = l /\ type \in {"ack", "error"} /\ (type = "ack") = r.done
      /\ a \in Answer /\ a.launch = l /\ a.type = type
  BY <1>2 DEF Requests, Answer
<1> HIDE DEF l, type, a
<1>4. /\ executed[l] = (IF r.done THEN 1 ELSE 0) /\ l <= launched /\ l \notin Coming
      /\ \A q \in running : q.launch = l => q = r
  BY <1>0, <1>3 DEF OneRequest
<1>5. Coming' = Coming /\ running' \subseteq running
  BY <1>1 DEF Coming
<1>6. \A k \in Launch : Spent(k) => Spent(k)'
  BY <1>5 DEF Spent
<1>7. \A k \in Launch : \A t : So(k, t) => So(k, t)'
  BY <1>1, <1>6 DEF So
<1>8. So(l, type)'
  <2>1. Spent(l)'
    BY <1>1, <1>4, <1>5 DEF Spent
  <2> QED BY <1>1, <1>3, <1>4, <2>1 DEF So
<1>9. \A k \in Launch : receipts'[k] = receipts[k] \/ (k = l /\ receipts'[k] = type)
  BY <1>0, <1>1, <1>3 DEF CommandTypeOK
<1>10. answers' \in Seq(Answer) /\ \A i \in DOMAIN answers' : answers'[i] \in ToSet(answers) \cup {a}
  <2>1. answers \in Seq(Answer)
    BY <1>0 DEF CommandTypeOK
  <2>2. Append(answers, a) \in Seq(Answer) /\ ToSet(Append(answers, a)) = ToSet(answers) \cup {a}
    BY <1>3, <2>1, AppendedTo
  <2>3. CASE answers' = answers
    BY <2>1, <2>3 DEF ToSet
  <2>4. CASE answers' = Append(answers, a)
    BY <2>2, <2>4 DEF ToSet
  <2> QED BY <1>1, <2>3, <2>4
<1>11. CommandTypeOK'
  <2>1. receipts' \in [Launch -> {"none", "pending", "ack", "error", "unknown"}]
    BY <1>0, <1>1, <1>3 DEF CommandTypeOK
  <2>2. running' \in SUBSET Requests
    BY <1>0, <1>5 DEF CommandTypeOK
  <2> QED BY <1>0, <1>1, <1>10, <2>1, <2>2 DEF CommandTypeOK
<1>12. OneRequest'
  BY <1>0, <1>1, <1>5 DEF OneRequest
<1>13. Answering'
  <2>1. \A k \in Launch : So(k, receipts[k])'
    BY <1>0, <1>7, <1>8, <1>9 DEF Answering, So
  <2>2. \A x \in ToSet(answers) : x.launch \in Launch /\ So(x.launch, x.type)
    BY <1>0, LaunchFacts DEF Answering, ToSet
  <2>3. \A i \in DOMAIN answers' : So(answers[i].launch, answers[i].type)'
    <3> SUFFICES ASSUME NEW i \in DOMAIN answers'
                 PROVE  So(answers[i].launch, answers[i].type)'
      OBVIOUS
    <3>1. CASE answers'[i] = a
      BY <3>1, <1>3, <1>8 DEF So
    <3>2. CASE answers'[i] \in ToSet(answers)
      BY <3>2, <1>7, <2>2 DEF So
    <3> QED BY <1>10, <3>1, <3>2
  <2>4. \A k \in Launch : /\ told'[k] = "done" => executed'[k] = 1
                          /\ told'[k] = "rejected" => executed'[k] = 0 /\ Spent(k)'
    BY <1>0, <1>1, <1>6 DEF Answering
  <2> QED BY <2>1, <2>2, <2>3, <2>4 DEF Answering
<1>14. Remembered'
  BY <1>0, <1>1 DEF Remembered
<1> QED BY <1>11, <1>12, <1>13, <1>14 DEF CommandInv

-----------------------------------------------------------------------------
(* The theorems. *)

LEMMA CommandStep ==
  ASSUME Command!QuickCommandAssumption, CommandInv, Command!Next
  PROVE  CommandInv'
<1>1. CASE Command!Start
  BY <1>1, StartInv
<1>2. CASE Command!StartAgain \/ Command!LookupFails
  BY <1>2, LookupInv
<1>3. CASE Command!recover
  BY <1>3, RecoverInv
<1>4. CASE Command!Answered
  BY <1>4, AnsweredInv
<1>5. CASE Command!Disconnect
  BY <1>5, DisconnectInv
<1>6. CASE Command!ConnectFails \/ Command!Connect
  BY <1>6, ConnectInv
<1>7. CASE Command!Handle
  BY <1>7, HandleInv
<1>8. CASE Command!Restart
  BY <1>8, RestartInv
<1>9. ASSUME NEW l \in Launch, Command!HandleLate(l) \/ Command!Expire(l)
      PROVE  CommandInv'
  BY <1>9, HandleLateInv, ExpireInv
<1>10. ASSUME NEW r \in running, Command!Run(r) \/ Command!Complete(r) \/ Command!Refuse(r)
       PROVE  CommandInv'
  BY <1>10, RunInv, FinishInv
<1> QED BY <1>1, <1>2, <1>3, <1>4, <1>5, <1>6, <1>7, <1>8, <1>9, <1>10, LaunchesAre DEF Command!Next

LEMMA CommandStutter == CommandInv /\ UNCHANGED command => CommandInv'
BY DEF command, CommandInv, CommandTypeOK, OneRequest, Answering, Remembered, Coming, Spent, So

LEMMA CommandSafe ==
  ASSUME Command!QuickCommandAssumption, CommandInv
  PROVE  LaunchedOnce
<1>0. CommandTypeOK /\ Answering /\ Remembered
  BY DEF CommandInv
<1>1. \A l \in Launch : executed[l] <= 1
  BY <1>0, LaunchFacts
<1>2. ASSUME NEW i \in Launch, NEW j \in Launch, i < j, executed[i] = 1, executed[j] = 1
      PROVE  told[i] = "done"
  <2>1. j <= launched
    BY <1>2, LaunchFacts, LaunchesAre DEF CommandInv, OneRequest, CommandTypeOK
  <2>2. i <= launched /\ i # launched
    BY <1>0, <1>2, <2>1, LaunchFacts
  <2>3. told[i] # None /\ told[i] # "rejected"
    BY <1>0, <1>2, <2>2, LaunchFacts DEF Remembered, Answering
  <2> QED BY <1>0, <2>3 DEF CommandTypeOK
<1>3. \A l \in Launch : (told[l] = "done" => executed[l] = 1) /\ (told[l] = "rejected" => executed[l] = 0)
  BY <1>0 DEF Answering
<1> QED BY <1>1, <1>2, <1>3, LaunchesAre
    DEF LaunchedOnce, Command!LaunchedOnce, Command!NoDoubleRun, Command!ToldTheTruth

(* In every behaviour, whatever the bounds, a launch runs once at most and the   *)
(* command runs again only after the user was told that the launch before it was *)
(* done; what the user is told of a launch is so and stays so                    *)
(* (quickCommandDelivery.ts, the receipts of connect/operations.ts).             *)
THEOREM LaunchedOnceHolds ==
  ASSUME MCBrowserAssumption
  PROVE  MCSpec => []LaunchedOnce
<1>1. MCInit => CommandInv
  BY CommandInit, MCBrowserAssumption DEF MCInit
<1>2. CommandInv /\ [MCNext]_<<topic, vars, command>> => CommandInv'
  BY CommandStep, CommandStutter, MCBrowserAssumption DEF MCNext
<1>3. CommandInv => LaunchedOnce
  BY CommandSafe, MCBrowserAssumption
<1> QED BY <1>1, <1>2, <1>3, PTL DEF MCSpec

-----------------------------------------------------------------------------
(***************************************************************************)
(* The chat on its way to the screens (Subscriptions).                     *)
(***************************************************************************)
(* What a snapshot shows.  Induction over data is by a least counterexample. *)

Increasing(order) == \A i, j \in DOMAIN order : i < j => order[i] < order[j]
HasOrder(ids) == IsFiniteSet(ids) /\ \E order \in [1..Cardinality(ids) -> ids] : Increasing(order)

\* The numbers of a subset of 1..n have an order.
LEMMA Enumerated == \A n \in Nat : \A ids \in SUBSET (1..n) : HasOrder(ids)
<1> DEFINE Bad == {n \in Nat : ~ \A ids \in SUBSET (1..n) : HasOrder(ids)}
<1> SUFFICES ASSUME Bad # {}
             PROVE  FALSE
  OBVIOUS
<1>1. PICK n \in Bad : \A m \in Bad : ~(m < n)
  <2>1. IsWellFoundedOn(OpToRel(<, Nat), Nat) /\ Bad \subseteq Nat
    BY NatLessThanWellFounded, Zenon
  <2>2. \E n \in Bad : \A m \in Bad : <<m, n>> \notin OpToRel(<, Nat)
    <3> HIDE DEF Bad
    <3> QED BY <2>1, WFMin, Zenon
  <2> QED BY <2>1, <2>2 DEF OpToRel
<1>2. PICK ids \in SUBSET (1..n) : ~HasOrder(ids)
  OBVIOUS
<1>3. n \in Nat /\ IsFiniteSet(ids)
  <2>1. n \in Nat /\ IsFiniteSet(1..n)
    BY FS_Interval
  <2> QED BY <2>1, FS_Subset
<1>4. CASE n \notin ids
  <2>1. CASE n = 0
    <3>1. ids = {}
      BY <2>1
    <3>1a. Cardinality(ids) = 0
      BY <3>1, FS_EmptySet
    <3>2. [i \in 1..0 |-> i] \in [1..Cardinality(ids) -> ids] /\ Increasing([i \in 1..0 |-> i])
      BY <3>1, <3>1a DEF Increasing
    <3> QED BY <1>2, <1>3, <3>2 DEF HasOrder
  <2>2. CASE n # 0
    <3>1. n - 1 \in Nat /\ n - 1 \notin Bad /\ ids \in SUBSET (1..n - 1)
      BY <1>1, <1>3, <1>4, <2>2
    <3> QED BY <1>2, <3>1
  <2> QED BY <2>1, <2>2
<1>5. CASE n \in ids
  <2> DEFINE below == ids \ {n}
             size == Cardinality(ids)
  <2>1. n - 1 \in Nat /\ n - 1 \notin Bad /\ below \in SUBSET (1..n - 1)
    BY <1>1, <1>3, <1>5
  <2>2. HasOrder(below)
    BY <2>1
  <2>3. size \in Nat \ {0} /\ Cardinality(below) = size - 1
    <3>1. size \in Nat /\ Cardinality(below) = size - 1 /\ Cardinality(below) \in Nat
      BY <1>3, <1>5, <2>2, FS_RemoveElement, FS_CardinalityType DEF HasOrder
    <3> QED BY <3>1
  <2>4. PICK order \in [1..size - 1 -> below] : Increasing(order)
    BY <2>2, <2>3 DEF HasOrder
  <2> DEFINE more == [i \in 1..size |-> IF i = size THEN n ELSE order[i]]
  <2> HIDE DEF size
  <2>5. more \in [1..size -> ids]
    BY <1>5, <2>3, <2>4
  <2>6. ASSUME NEW i \in 1..size, NEW j \in 1..size, i < j
        PROVE  more[i] < more[j]
    <3>1. i # size /\ i \in 1..size - 1 /\ more[i] = order[i] /\ order[i] \in below
      BY <2>3, <2>4, <2>6
    <3>2. order[i] \in 1..n - 1
      BY <2>1, <3>1
    <3>3. CASE j = size
      BY <1>3, <2>3, <3>1, <3>2, <3>3
    <3>4. CASE j # size
      BY <2>3, <2>4, <2>6, <3>1, <3>4 DEF Increasing
    <3> QED BY <3>3, <3>4
  <2>7. Increasing(more)
    BY <2>5, <2>6 DEF Increasing
  <2> QED BY <1>2, <1>3, <2>5, <2>7 DEF HasOrder, size
<1> QED BY <1>4, <1>5

\* Ordered lists each of them once, and it is the only increasing list.
LEMMA OrderedIs ==
  ASSUME NEW n \in Nat, NEW ids \in SUBSET (1..n)
  PROVE  /\ Cardinality(ids) \in Nat /\ Ordered(ids) \in [1..Cardinality(ids) -> ids]
         /\ Increasing(Ordered(ids))
         /\ \A x \in ids : \E i \in 1..Cardinality(ids) : Ordered(ids)[i] = x
<1> DEFINE order == Ordered(ids)
           size == Cardinality(ids)
<1>1. IsFiniteSet(ids) /\ \E f \in [1..Cardinality(ids) -> ids] : \A i, j \in DOMAIN f : i < j => f[i] < f[j]
  BY Enumerated DEF HasOrder, Increasing
<1>2. order \in [1..size -> ids] /\ \A i, j \in DOMAIN order : i < j => order[i] < order[j]
  BY <1>1 DEF Ordered
<1>3. size \in Nat
  BY <1>1, FS_CardinalityType
<1> HIDE DEF order, size
<1>4. \A i, j \in 1..size : order[i] = order[j] => i = j
  <2> SUFFICES ASSUME NEW i \in 1..size, NEW j \in 1..size, order[i] = order[j]
               PROVE  i = j
    OBVIOUS
  <2>1. order[i] \in 1..n /\ order[j] \in 1..n
    BY <1>2
  <2>2. ~(i < j) /\ ~(j < i)
    BY <1>2, <2>1
  <2> QED BY <1>3, <2>2
<1>5. order \in Injection(1..size, ids)
  BY <1>2, <1>4 DEF Injection, IsInjective
<1>6. Cardinality(1..size) = size
  BY <1>3, FS_Interval
<1>7. order \in Surjection(1..size, ids)
  BY <1>1, <1>5, <1>6, FS_Injection DEF size
<1> QED BY <1>2, <1>3, <1>7 DEF Surjection, Increasing, order, size

Chatted == log \in Seq({"call", "result"}) /\ meta \in Nat /\ gone \in BOOLEAN

Snap(n, m) == [messages |-> Entries(n), older |-> History(n).older, meta |-> m]
Past == {Snap(n, m) : n \in 0..Len(log), m \in 0..meta} \cup {v \in {Gone} : gone}
Top(n) == LastId(Snap(n, 0))

\* The newest call among the first n records.
Newest(n, id) == id \in Shown(n) \cup {0} /\ \A i \in Shown(n) : i <= id

\* A bounded set of numbers that is not empty has a greatest one.
LEMMA Greatest ==
  ASSUME NEW n \in Nat, NEW S \in SUBSET (1..n), S # {}
  PROVE  \E x \in S : \A y \in S : y <= x
<1> DEFINE back == {n - x : x \in S}
<1>1. back \subseteq Nat /\ back # {}
  <2>1. \A x \in S : n - x \in Nat
    OBVIOUS
  <2>2. PICK x \in S : TRUE
    OBVIOUS
  <2>3. n - x \in back
    OBVIOUS
  <2> QED BY <2>1, <2>3
<1>2. IsWellFoundedOn(OpToRel(<, Nat), Nat)
  BY NatLessThanWellFounded, Zenon
<1>3. \E x \in back : \A y \in back : <<y, x>> \notin OpToRel(<, Nat)
  <2> HIDE DEF back
  <2> QED BY <1>1, <1>2, WFMin, Zenon
<1>4. PICK x \in back : \A y \in back : ~(y < x)
  BY <1>1, <1>3 DEF OpToRel
<1>5. PICK z \in S : x = n - z
  BY <1>4
<1>6. \A y \in S : ~(n - y < n - z)
  BY <1>4, <1>5
<1>7. \A y \in S : y \in Nat
  OBVIOUS
<1> QED BY <1>6, <1>7

\* The recent window of the first n records is made of calls among them.
LEMMA RecentIs ==
  ASSUME SubscriptionsAssumption, Chatted, NEW n \in 0..Len(log)
  PROVE  /\ Recent(n) \in SUBSET (1..n) /\ Recent(n) \subseteq Shown(n) /\ \A i \in Shown(n) : log[i] = "call"
         /\ \A i \in Shown(n) : (\A j \in Shown(n) : j <= i) => i \in Recent(n)
<1>1. Shown(n) \subseteq 1..n /\ \A i \in Shown(n) : log[i] = "call"
  BY DEF Chatted, Shown
<1>2. ASSUME NEW i \in Shown(n), \A j \in Shown(n) : j <= i
      PROVE  i \in Recent(n)
  <2>1. {j \in Shown(n) : j > i} = {}
    BY <1>1, <1>2
  <2>2. Cardinality({j \in Shown(n) : j > i}) = 0
    BY <2>1, FS_EmptySet
  <2>3. 0 < Window
    BY DEF SubscriptionsAssumption
  <2> QED BY <2>2, <2>3 DEF Recent
<1> QED BY <1>1, <1>2 DEF Recent

\* A snapshot of the first n records has the type of one, and its last id is the newest call.
LEMMA SnapIs ==
  ASSUME SubscriptionsAssumption, Chatted, NEW n \in 0..Len(log), NEW m \in Nat
  PROVE  Snap(n, m) \in Snapshots /\ Newest(n, LastId(Snap(n, m)))
<1> DEFINE ids == Recent(n)
           size == Cardinality(ids)
           recent == Ordered(ids)
<1>1. /\ ids \in SUBSET (1..n) /\ ids \subseteq Shown(n) /\ \A i \in Shown(n) : log[i] = "call" /\ i \in 1..n
      /\ \A i \in Shown(n) : (\A j \in Shown(n) : j <= i) => i \in ids
  BY RecentIs DEF Shown
<1>2. n \in Nat
  BY DEF Chatted
<1>3. /\ size \in Nat /\ recent \in [1..size -> ids] /\ Increasing(recent)
      /\ \A x \in ids : \E i \in 1..size : recent[i] = x
  BY <1>1, <1>2, OrderedIs
<1> HIDE DEF ids, size, recent
<1>4. Entries(n) = [k \in 1..size |->
        [id |-> recent[k], body |-> IF \E j \in recent[k] + 1..n : log[j] = "result" THEN "summary" ELSE log[recent[k]]]]
  BY <1>3 DEF Entries, ids, recent
<1>5. ASSUME NEW k \in 1..size
      PROVE  Entries(n)[k] \in Entry /\ Entries(n)[k].id = recent[k] /\ recent[k] \in 1..n
  BY <1>1, <1>3, <1>4, <1>5 DEF Entry
<1>6. Entries(n) \in [1..size -> Entry]
  BY <1>4, <1>5
<1>7. Entries(n) \in Seq(Entry) /\ Len(Entries(n)) = size /\ DOMAIN Entries(n) = 1..size
  BY <1>3, <1>6
<1>8. \A i, j \in 1..size : Entries(n)[i].id = Entries(n)[j].id => i = j
  <2> SUFFICES ASSUME NEW i \in 1..size, NEW j \in 1..size, recent[i] = recent[j]
               PROVE  i = j
    BY <1>5
  <2>1. recent[i] \in 1..n /\ recent[j] \in 1..n
    BY <1>5
  <2>2. ~(i < j) /\ ~(j < i)
    BY <1>3, <2>1 DEF Increasing
  <2> QED BY <1>3, <2>2
<1>9. Entries(n) \in Messages
  BY <1>7, <1>8 DEF Messages
<1>10. History(n).older \in BOOLEAN
  BY DEF History
<1>11. Snap(n, m) \in Snapshots
  BY <1>9, <1>10 DEF Snap, Snapshots
<1>12. LastId(Snap(n, m)) = IF Entries(n) = <<>> THEN 0 ELSE Entries(n)[Len(Entries(n))].id
  BY DEF LastId, Snap, Last
<1>13. CASE size = 0
  <2>1. Entries(n) = <<>>
    BY <1>7, <1>13
  <2>2. ids = {}
    BY <1>3, <1>13
  <2>3. Shown(n) = {}
    <3>1. Shown(n) \in SUBSET (1..n)
      BY <1>1
    <3>2. Shown(n) # {} => \E x \in Shown(n) : \A y \in Shown(n) : y <= x
      BY <1>2, <3>1, Greatest
    <3> QED BY <1>1, <2>2, <3>2
  <2> QED BY <1>11, <1>12, <2>1, <2>3 DEF Newest
<1>14. CASE size # 0
  <2>1. size \in 1..size /\ LastId(Snap(n, m)) = recent[size]
    <3>1. size \in 1..size /\ Entries(n) # <<>>
      BY <1>3, <1>7, <1>14
    <3> QED BY <1>5, <1>7, <1>12, <3>1
  <2>2. recent[size] \in Shown(n) /\ recent[size] \in 1..n
    BY <1>1, <1>3, <2>1
  <2>3. \A x \in ids : x <= recent[size]
    <3> SUFFICES ASSUME NEW x \in ids
                 PROVE  x <= recent[size]
      OBVIOUS
    <3>1. PICK i \in 1..size : recent[i] = x
      BY <1>3
    <3>2. CASE i = size
      BY <2>2, <3>1, <3>2
    <3>3. CASE i # size
      <4>1. i < size
        BY <1>3, <3>3
      <4>2. recent[i] \in 1..n /\ DOMAIN recent = 1..size
        BY <1>3, <1>5
      <4>3. i \in DOMAIN recent /\ size \in DOMAIN recent
        BY <2>1, <4>2
      <4>4. recent[i] < recent[size]
        BY <1>3, <4>1, <4>3, Zenon DEF Increasing
      <4>5. recent[i] \in Nat
        BY <4>2
      <4> QED BY <2>2, <3>1, <4>4, <4>5
    <3> QED BY <3>2, <3>3
  <2>4. \A i \in Shown(n) : i <= recent[size]
    <3>1. Shown(n) \in SUBSET (1..n) /\ Shown(n) # {}
      BY <1>1, <2>2
    <3>2. PICK x \in Shown(n) : \A y \in Shown(n) : y <= x
      BY <1>2, <3>1, Greatest
    <3>3. x <= recent[size] /\ x \in 1..n
      BY <1>1, <2>3, <3>2
    <3> QED BY <1>1, <2>2, <3>2, <3>3
  <2> QED BY <1>11, <2>1, <2>2, <2>4 DEF Newest
<1> QED BY <1>11, <1>13, <1>14

\* The newest call never gets older while records follow.
LEMMA LaterIds ==
  ASSUME SubscriptionsAssumption, Chatted, NEW n \in 0..Len(log), NEW k \in n..Len(log), NEW m \in Nat,
         NEW p \in Nat
  PROVE  LastId(Snap(n, m)) <= LastId(Snap(k, p)) /\ LastId(Snap(n, m)) \in Nat
<1>1. k \in 0..Len(log) /\ n \in Nat /\ k \in Nat
  BY DEF Chatted
<1>2. Newest(n, LastId(Snap(n, m))) /\ Newest(k, LastId(Snap(k, p)))
  BY <1>1, SnapIs
<1>3. Shown(n) \subseteq Shown(k) /\ Shown(k) \subseteq Nat
  BY <1>1 DEF Shown
<1> HIDE DEF Snap
<1> QED BY <1>2, <1>3 DEF Newest

\* What was recorded is shown as before while records follow.
LEMMA SnapStays ==
  ASSUME Chatted, NEW n \in 0..Len(log), NEW m,
         log' = log \/ \E record \in {"call", "result"} : log' = Append(log, record)
  PROVE  Snap(n, m)' = Snap(n, m)
<1>1. \A i \in 1..n : log'[i] = log[i] /\ i \in 1..Len(log)
  BY DEF Chatted
<1>2. Shown(n)' = Shown(n)
  BY <1>1 DEF Shown
<1>3. Recent(n)' = Recent(n)
  BY <1>2 DEF Recent
<1> DEFINE recent == Ordered(Recent(n))
           completed(i) == \E j \in i + 1..n : log[j] = "result"
<1>4. n \in Nat /\ Recent(n) \in SUBSET (1..n)
  BY DEF Chatted, Recent, Shown
<1>5. recent \in [1..Cardinality(Recent(n)) -> Recent(n)]
  BY <1>4, OrderedIs
<1>6. \A k \in DOMAIN recent : recent[k] \in 1..n
  BY <1>4, <1>5
<1>7. \A k \in DOMAIN recent : log'[recent[k]] = log[recent[k]]
      /\ (completed(recent[k]))' = completed(recent[k])
  BY <1>1, <1>3, <1>4, <1>6
<1>8. Entries(n)' = Entries(n)
  BY <1>3, <1>6, <1>7 DEF Entries
<1>9. History(n)'.older = History(n).older
  BY <1>2 DEF History
<1> QED BY <1>8, <1>9 DEF Snap

\* In a list of entries that repeats no id, an id names one entry.
LEMMA MessagesAre ==
  ASSUME NEW v \in Snapshots
  PROVE  /\ v.messages \in Seq(Entry) /\ Len(v.messages) \in Nat /\ DOMAIN v.messages = 1..Len(v.messages)
         /\ \A i \in 1..Len(v.messages) : v.messages[i] \in Entry
         /\ \A i, j \in 1..Len(v.messages) : v.messages[i].id = v.messages[j].id => i = j
         /\ Ids(v.messages) \in Seq(Nat) /\ DOMAIN Ids(v.messages) = 1..Len(v.messages)
         /\ Len(Ids(v.messages)) = Len(v.messages)
         /\ \A i \in 1..Len(v.messages) : Ids(v.messages)[i] = v.messages[i].id
<1>1. v.messages \in Messages
  BY DEF Snapshots
<1>2. /\ v.messages \in Seq(Entry)
      /\ \A i, j \in DOMAIN v.messages : v.messages[i].id = v.messages[j].id => i = j
  BY <1>1 DEF Messages
<1>3. /\ Len(v.messages) \in Nat /\ DOMAIN v.messages = 1..Len(v.messages)
      /\ \A i \in 1..Len(v.messages) : v.messages[i] \in Entry
  BY <1>2
<1>4. \A i \in 1..Len(v.messages) : v.messages[i].id \in Nat
  BY <1>3 DEF Entry
<1>5. Ids(v.messages) \in [1..Len(v.messages) -> Nat]
  BY <1>4 DEF Ids
<1> QED BY <1>2, <1>3, <1>5 DEF Ids

\* What the encoder takes out, the decoder's merge puts in.
LEMMA RoundTrip ==
  ASSUME NEW v \in Snapshots, NEW w \in Snapshots
  PROVE  Applies(v, Delta(v, w)) /\ applyChatDelta(v, Delta(v, w)) = w
<1> DEFINE d == Delta(v, w)
           upsert == {w.messages[i] : i \in 1..Len(w.messages)} \ {v.messages[i] : i \in 1..Len(v.messages)}
           newest(id) == IF \E entry \in upsert : entry.id = id
                         THEN CHOOSE entry \in upsert : entry.id = id
                         ELSE CHOOSE entry \in ToSet(v.messages) : entry.id = id
           order == IF "order" \in d.set THEN d.order ELSE Ids(v.messages)
<1>1. /\ v.messages \in Seq(Entry) /\ Len(v.messages) \in Nat /\ DOMAIN v.messages = 1..Len(v.messages)
      /\ \A i, j \in 1..Len(v.messages) : v.messages[i].id = v.messages[j].id => i = j
      /\ DOMAIN Ids(v.messages) = 1..Len(v.messages)
      /\ \A i \in 1..Len(v.messages) : Ids(v.messages)[i] = v.messages[i].id
  BY MessagesAre
<1>2. /\ w.messages \in Seq(Entry) /\ Len(w.messages) \in Nat /\ DOMAIN w.messages = 1..Len(w.messages)
      /\ \A i, j \in 1..Len(w.messages) : w.messages[i].id = w.messages[j].id => i = j
      /\ DOMAIN Ids(w.messages) = 1..Len(w.messages) /\ Len(Ids(w.messages)) = Len(w.messages)
      /\ \A i \in 1..Len(w.messages) : Ids(w.messages)[i] = w.messages[i].id
  BY MessagesAre
<1>3. ToSet(v.messages) = {v.messages[i] : i \in 1..Len(v.messages)}
  BY <1>1 DEF ToSet
<1>4. ToSet(w.messages) = {w.messages[i] : i \in 1..Len(w.messages)}
  BY <1>2 DEF ToSet
<1>5. /\ d.upsert = upsert /\ d.order = Ids(w.messages) /\ d.older = w.older /\ d.meta = w.meta
      /\ d.set \subseteq {"older", "meta", "order"}
      /\ "older" \in d.set <=> v.older # w.older
      /\ "meta" \in d.set <=> v.meta # w.meta
      /\ "order" \in d.set <=> Ids(v.messages) # Ids(w.messages)
  BY <1>3, <1>4 DEF Delta, orderChanged
<1>6. order = Ids(w.messages)
  BY <1>5
<1>7. /\ \A e \in upsert : e \in ToSet(w.messages) /\ e \notin ToSet(v.messages)
      /\ \A e \in ToSet(w.messages) : e \in upsert \/ e \in ToSet(v.messages)
  BY <1>3, <1>4
<1>8. \A e, f \in ToSet(w.messages) : e.id = f.id => e = f
  BY <1>2, <1>4
<1>9. \A e, f \in ToSet(v.messages) : e.id = f.id => e = f
  BY <1>1, <1>3
<1> HIDE DEF upsert, d
<1>10. ASSUME NEW i \in 1..Len(w.messages)
       PROVE  newest(w.messages[i].id) = w.messages[i]
  <2> DEFINE e == w.messages[i]
  <2>1. e \in ToSet(w.messages)
    BY <1>4
  <2>2. CASE e \in upsert
    BY <1>7, <1>8, <2>1, <2>2
  <2>3. CASE e \notin upsert
    <3>1. e \in ToSet(v.messages)
      BY <1>7, <2>1, <2>3
    <3>2. ~ \E entry \in upsert : entry.id = e.id
      BY <1>7, <1>8, <2>1, <2>3
    <3> QED BY <1>9, <3>1, <3>2
  <2> QED BY <2>2, <2>3
<1> HIDE DEF newest
<1>11. [k \in 1..Len(order) |-> newest(order[k])] = w.messages
  BY <1>2, <1>6, <1>10
<1>12. applyChatDelta(v, d) = [messages |-> [k \in 1..Len(order) |-> newest(order[k])],
                               older |-> IF "older" \in d.set THEN d.older ELSE v.older,
                               meta  |-> IF "meta" \in d.set THEN d.meta ELSE v.meta]
  BY <1>5 DEF applyChatDelta, newest
<1>13. applyChatDelta(v, d) = [messages |-> w.messages, older |-> w.older, meta |-> w.meta]
  BY <1>5, <1>11, <1>12
<1>14. applyChatDelta(v, d) = w
  BY <1>13 DEF Snapshots
<1>15. Applies(v, d)
  <2> DEFINE known == ToSet(Ids(v.messages))
             sent == {entry.id : entry \in upsert}
  <2>1. ToSet(Ids(w.messages)) = {w.messages[i].id : i \in 1..Len(w.messages)}
    BY <1>2 DEF ToSet
  <2>2. known = {v.messages[i].id : i \in 1..Len(v.messages)}
    BY <1>1 DEF ToSet
  <2>3. \A e, f \in upsert : e.id = f.id => e = f
    BY <1>7, <1>8
  <2>4. sent \subseteq ToSet(Ids(w.messages))
    BY <1>4, <1>7, <2>1
  <2>5. ToSet(Ids(w.messages)) \subseteq known \union sent
    BY <1>3, <1>4, <1>7, <2>1, <2>2
  <2>6. \A i, j \in DOMAIN Ids(w.messages) : Ids(w.messages)[i] = Ids(w.messages)[j] => i = j
    BY <1>2
  <2>7. Ids(v.messages) = Ids(w.messages) => sent \subseteq known
    BY <2>4
  <2> HIDE DEF known, sent
  <2> QED BY <1>5, <2>3, <2>4, <2>5, <2>6, <2>7 DEF Applies, known, sent
<1> QED BY <1>14, <1>15 DEF d

-----------------------------------------------------------------------------
(* The invariant. *)

Stamps == [stream : Nat, revision : Nat]
Frames == {[type |-> "plain", data |-> v] : v \in Values}
          \cup {[type |-> "snapshot", data |-> v, stamp |-> t] : v \in Values, t \in Stamps}
          \cup {[type |-> "delta", delta |-> Delta(v, w), stamp |-> t, base |-> n] :
                  v \in Snapshots, w \in Snapshots, t \in Stamps, n \in Nat}
Mail == [sub : Subs, frame : Frames]
Tabs == [generation : Nat \ {0}, closed : SUBSET Subs, decoders : [Subs -> Decoders \cup {None}],
         view : [Subs -> Values \cup {None}]]
Holders == Clients \cup Caches

TypeOK ==
  /\ Chatted /\ timer \in BOOLEAN /\ owed \subseteq Clients
  /\ reads \in [Holders -> [done : BOOLEAN, upTo : 0..Len(log)]]
  /\ prepared \in [Caches -> Past \cup {None}]
  /\ conn \in [Clients -> Connections \cup {None}]
  /\ tab \in [Clients -> Tabs]
  /\ down \in [Clients -> Seq(Mail)]

\* A cache lives as long as a push that uses it; a push that reads for itself has topics.
Held ==
  /\ \A k \in Holders : Unused(conn, k) => reads[k] = NoRead
  /\ \A k \in Caches : Unused(conn, k) => prepared[k] = None

PushOK(c) ==
  /\ ~Connected(c) => down[c] = <<>>
  /\ Connected(c) /\ conn[c].push = None => ~conn[c].refresh
  /\ Connected(c) /\ conn[c].push # None =>
       /\ conn[c].push.slot \in Caches \cup {c}
       /\ conn[c].push.slot = c => conn[c].push.todo # {}
       /\ \A t \in conn[c].push.todo : t[2] # 0

\* A subscription has one stream on a connection, and no id is used again.
SubOK(c, s) ==
  LET decoder == tab[c].decoders[s] IN
  /\ tab[c].view[s] \in Past \cup {None}
  /\ decoder # None =>
       /\ s \notin tab[c].closed /\ ~decoder.waiting /\ decoder.stream = tab[c].generation
       /\ Connected(c) => conn[c].subs[s] = tab[c].generation
  /\ decoder = None =>
       /\ tab[c].view[s] = None
       /\ Connected(c) => conn[c].subs[s] = 0 /\ conn[c].encoders[s] = None /\ conn[c].signatures[s] = None
       /\ s \notin tab[c].closed => \A i \in DOMAIN down[c] : down[c][i].sub # s

Before(v, w) ==
  \/ v = None \/ w = Gone
  \/ v \in Snapshots /\ w \in Snapshots /\ LastId(v) <= LastId(w) /\ v.meta <= w.meta

\* For each subscription the messages on their way lead, one after the other, from where
\* the client is to where the server takes it to be.  How one takes the client from one
\* stage to the next:
Stage == [revision : Nat, snapshot : Values \cup {None}, view : Values \cup {None}]

Moves(a, message, b, s, stream) ==
  \/ message.sub # s /\ b = a
  \/ /\ message.sub = s /\ b.view # None /\ Before(a.view, b.view)
     /\ \/ message.frame = [type |-> "plain", data |-> b.view] /\ b.revision = a.revision
           /\ b.snapshot = a.snapshot
        \/ /\ b.revision = a.revision + 1 /\ b.snapshot = b.view
           /\ LET stamp == [stream |-> stream, revision |-> b.revision] IN
              \/ message.frame = [type |-> "snapshot", data |-> b.view, stamp |-> stamp]
              \/ /\ a.snapshot \in Snapshots /\ b.view \in Snapshots
                 /\ message.frame = [type |-> "delta", delta |-> Delta(a.snapshot, b.view), stamp |-> stamp,
                                     base |-> a.revision]

\* Where the server takes the client to be.
Sender(c, s, z) ==
  LET encoder == conn[c].encoders[s] IN
  /\ encoder = None => z.revision = 0 /\ z.snapshot = None
                       /\ (conn[c].signatures[s] # None => z.view = conn[c].signatures[s])
  /\ encoder # None => z.view = z.snapshot /\ encoder = [previous |-> z.snapshot, revision |-> z.revision]

\* What a cache will make of a topic is not older than a view.
AheadOf(k, v) ==
  /\ reads[k].done /\ v \in Snapshots => LastId(v) <= Top(reads[k].upTo)
  /\ k \in Caches /\ prepared[k] # None => Before(v, prepared[k])

Awaits(c, s) == <<s, conn[c].subs[s]>> \in Pending(c)

Follows(c, s, st) ==
  LET n == Len(down[c]) IN
  /\ st[0].revision = tab[c].decoders[s].revision /\ st[0].snapshot = tab[c].decoders[s].snapshot
  /\ st[0].view = tab[c].view[s]
  /\ \A i \in 0..n : st[i].view \in Past \cup {None}
  /\ \A i \in 1..n : Moves(st[i - 1], down[c][i], st[i], s, conn[c].subs[s])
  /\ Sender(c, s, st[n])
  /\ Awaits(c, s) => AheadOf(conn[c].push.slot, st[n].view)

Chain(c, s) ==
  Connected(c) /\ tab[c].decoders[s] # None => \E st \in [0..Len(down[c]) -> Stage] : Follows(c, s, st)

\* While nothing has changed since the last broadcast, a push without a refresh behind it
\* shows the chat as it is, and what it left behind it is as it is.
Fresh(k) ==
  /\ reads[k].done => reads[k].upTo = Len(log)
  /\ k \in Caches /\ prepared[k] # None => prepared[k] = Now

Tip(c, s) == IF conn[c].encoders[s] # None THEN conn[c].encoders[s].previous ELSE conn[c].signatures[s]

Shows(c) ==
  Connected(c) /\ ~timer /\ ~gone /\ ~conn[c].refresh =>
    /\ conn[c].push # None => Fresh(conn[c].push.slot)
    /\ c \notin owed => \A s \in Wanted(c) : ~Awaits(c, s) => Tip(c, s) = Now

\* The inductive invariant.
SubscriptionsInv ==
  /\ TypeOK /\ Held
  /\ \A c \in Clients : PushOK(c) /\ Shows(c) /\ \A s \in Subs : SubOK(c, s) /\ Chain(c, s)

-----------------------------------------------------------------------------
(* Connections. *)

Kept(k, p) == p \in Connections /\ p.subs = k.subs /\ p.encoders = k.encoders /\ p.signatures = k.signatures

\* The parts of a connection, and what each operation on it leaves of them.
LEMMA ConnectionIs ==
  ASSUME NEW k \in Connections
  PROVE  /\ k = [subs |-> k.subs, encoders |-> k.encoders, signatures |-> k.signatures, push |-> k.push,
                 refresh |-> k.refresh]
         /\ k.subs \in [Subs -> Nat] /\ k.encoders \in [Subs -> Encoders \cup {None}]
         /\ k.signatures \in [Subs -> Values \cup {None}] /\ k.push \in Pushes \cup {None}
            /\ k.refresh \in BOOLEAN
BY DEF Connections

LEMMA PushAndRefresh ==
  ASSUME NEW k \in Connections, NEW push, NEW refresh
  PROVE  [k EXCEPT !.push = push, !.refresh = refresh]
         = [subs |-> k.subs, encoders |-> k.encoders, signatures |-> k.signatures, push |-> push, refresh |-> refresh]
<1> DEFINE p == [k EXCEPT !.push = push]
<1>1. [k EXCEPT !.push = push, !.refresh = refresh] = [p EXCEPT !.refresh = refresh]
  BY Zenon
<1>2. p = [subs |-> k.subs, encoders |-> k.encoders, signatures |-> k.signatures, push |-> push, refresh |-> k.refresh]
  BY DEF Connections
<1> HIDE DEF p
<1>3. [p EXCEPT !.refresh = refresh]
      = [subs |-> k.subs, encoders |-> k.encoders, signatures |-> k.signatures, push |-> push, refresh |-> refresh]
  BY <1>2
<1> QED BY <1>1, <1>3

LEMMA JustRefresh ==
  ASSUME NEW k \in Connections, NEW refresh
  PROVE  [k EXCEPT !.refresh = refresh]
         = [subs |-> k.subs, encoders |-> k.encoders, signatures |-> k.signatures, push |-> k.push, refresh |-> refresh]
BY DEF Connections

LEMMA NoneIsNo ==
  ASSUME SubscriptionsAssumption
  PROVE  /\ None \notin Values /\ None \notin Encoders /\ None \notin Decoders /\ None \notin Pushes
         /\ None \notin Connections /\ None # Gone /\ Gone \notin Snapshots /\ None \notin Snapshots
         /\ Clients \cap Caches = {} /\ IsFiniteSet(Clients)
BY DEF SubscriptionsAssumption, Values

LEMMA PushIs ==
  ASSUME NEW p \in Pushes
  PROVE  p = [todo |-> p.todo, slot |-> p.slot] /\ p.todo \in SUBSET (Subs \X Nat) /\ p.slot \in Holders
BY DEF Pushes, Holders

\* The topics of a connection are its subscriptions with their streams.
LEMMA TopicsAre ==
  ASSUME NEW k \in Connections
  PROVE  /\ Topics(k) \in SUBSET (Subs \X Nat)
         /\ \A t \in Topics(k) : t[2] # 0 /\ t[2] = k.subs[t[1]]
         /\ \A s \in Subs : k.subs[s] # 0 => <<s, k.subs[s]>> \in Topics(k)
<1>1. k.subs \in [Subs -> Nat]
  BY ConnectionIs
<1> QED BY <1>1 DEF Topics

LEMMA IdleIs ==
  ASSUME NEW k \in Connections
  PROVE  Kept(k, Idle(k)) /\ Idle(k).push = None /\ Idle(k).refresh = FALSE
<1>1. Idle(k) = [subs |-> k.subs, encoders |-> k.encoders, signatures |-> k.signatures, push |-> None,
                 refresh |-> FALSE]
  BY PushAndRefresh DEF Idle
<1>2. Idle(k) \in Connections
  BY <1>1, ConnectionIs DEF Connections
<1> QED BY <1>1, <1>2 DEF Kept

LEMMA PushingIs ==
  ASSUME NEW k \in Connections, NEW todo \in SUBSET (Subs \X Nat), NEW slot \in Holders
  PROVE  /\ Kept(k, Pushing(k, todo, slot)) /\ Pushing(k, todo, slot).refresh = FALSE
         /\ Pushing(k, todo, slot).push = [todo |-> todo, slot |-> slot]
            /\ Pushing(k, todo, slot).push \in Pushes
<1> DEFINE p == [todo |-> todo, slot |-> slot]
<1>1. Pushing(k, todo, slot) = [subs |-> k.subs, encoders |-> k.encoders, signatures |-> k.signatures, push |-> p,
                                refresh |-> FALSE]
  BY PushAndRefresh DEF Pushing
<1>2. p \in Pushes
  BY DEF Pushes, Holders
<1> HIDE DEF p
<1>3. Pushing(k, todo, slot) \in Connections
  BY <1>1, <1>2, ConnectionIs DEF Connections
<1> QED BY <1>1, <1>2, <1>3 DEF Kept, p

LEMMA RefreshIs ==
  ASSUME NEW k \in Connections
  PROVE  /\ Kept(k, [k EXCEPT !.refresh = TRUE]) /\ [k EXCEPT !.refresh = TRUE].push = k.push
         /\ [k EXCEPT !.refresh = TRUE].refresh = TRUE
<1>1. [k EXCEPT !.refresh = TRUE] = [subs |-> k.subs, encoders |-> k.encoders, signatures |-> k.signatures,
                                     push |-> k.push, refresh |-> TRUE]
  BY JustRefresh
<1>2. [k EXCEPT !.refresh = TRUE] \in Connections
  BY <1>1, ConnectionIs DEF Connections
<1> QED BY <1>1, <1>2 DEF Kept

LEMMA LeftIs ==
  ASSUME NEW k \in Connections, k.push \in Pushes, NEW todo \in SUBSET (Subs \X Nat)
  PROVE  LET p == [k EXCEPT !.push.todo = todo] IN
         Kept(k, p) /\ p.push = [todo |-> todo, slot |-> k.push.slot] /\ p.push \in Pushes
         /\ p.refresh = k.refresh
<1> DEFINE q == [todo |-> todo, slot |-> k.push.slot]
<1>1. [k.push EXCEPT !.todo = todo] = q
  BY DEF Pushes
<1>2. q \in Pushes
  BY DEF Pushes
<1> HIDE DEF q
<1>3. [k EXCEPT !.push.todo = todo] = [subs |-> k.subs, encoders |-> k.encoders, signatures |-> k.signatures,
                                       push |-> q, refresh |-> k.refresh]
  BY <1>1 DEF Connections
<1>4. [k EXCEPT !.push.todo = todo] \in Connections
  BY <1>2, <1>3, ConnectionIs DEF Connections
<1> QED BY <1>2, <1>3, <1>4 DEF Kept, q

\* What a push, and what is left of one, makes of a connection.
LEMMA PushedIs ==
  ASSUME SubscriptionsAssumption, NEW k \in Connections, NEW chat, NEW slot \in Holders
  PROVE  LET p == pushSnapshots(k, chat, slot) IN
         /\ Kept(k, p)
         /\ k.push # None => p.push = k.push /\ p.refresh = TRUE
         /\ k.push = None /\ ~chat => p.push = [todo |-> {}, slot |-> slot] /\ p.refresh = FALSE
         /\ k.push = None /\ chat /\ Topics(k) = {} => p = k
         /\ k.push = None /\ chat /\ Topics(k) # {} =>
              p.push = [todo |-> Topics(k), slot |-> slot] /\ p.refresh = FALSE
<1>1. CASE k.push # None
  BY <1>1, RefreshIs DEF pushSnapshots
<1>2. CASE k.push = None /\ ~chat
  <2>1. pushSnapshots(k, chat, slot) = Pushing(k, {}, slot)
    BY <1>2 DEF pushSnapshots
  <2>2. /\ Kept(k, Pushing(k, {}, slot)) /\ Pushing(k, {}, slot).refresh = FALSE
        /\ Pushing(k, {}, slot).push = [todo |-> {}, slot |-> slot]
    <3> DEFINE none == {}
    <3>1. none \in SUBSET (Subs \X Nat)
      OBVIOUS
    <3> HIDE DEF none
    <3>2. Kept(k, Pushing(k, none, slot)) /\ Pushing(k, none, slot).refresh = FALSE
      BY <3>1, PushingIs, Zenon
    <3>3. Pushing(k, none, slot).push = [todo |-> none, slot |-> slot]
      BY <3>1, PushingIs, Zenon
    <3> QED BY <3>2, <3>3 DEF none
  <2> QED BY <1>2, <2>1, <2>2
<1>3. CASE k.push = None /\ chat /\ Topics(k) = {}
  <2>1. pushSnapshots(k, chat, slot) = k
    BY <1>3 DEF pushSnapshots
  <2> QED BY <1>3, <2>1 DEF Kept
<1>4. CASE k.push = None /\ chat /\ Topics(k) # {}
  <2>1. pushSnapshots(k, chat, slot) = Pushing(k, Topics(k), slot)
    BY <1>4 DEF pushSnapshots
  <2>2. Topics(k) \in SUBSET (Subs \X Nat)
    BY TopicsAre
  <2>3. Kept(k, Pushing(k, Topics(k), slot)) /\ Pushing(k, Topics(k), slot).refresh = FALSE
    BY <2>2, PushingIs, Zenon
  <2>4. Pushing(k, Topics(k), slot).push = [todo |-> Topics(k), slot |-> slot]
    BY <2>2, PushingIs, Zenon
  <2> QED BY <1>4, <2>1, <2>3, <2>4
<1> QED BY <1>1, <1>2, <1>3, <1>4

\* What is left of a push after a topic.
LEMMA AdvancedIs ==
  ASSUME SubscriptionsAssumption, NEW c \in Clients, NEW k \in Connections, k.push # None,
         NEW todo \in SUBSET (Subs \X Nat)
  PROVE  LET p == Advance(k, c, todo)
             left == Current(k, todo) IN
         /\ Kept(k, p) /\ left \subseteq todo
         /\ \A t \in todo : t \in left <=> k.subs[t[1]] = t[2]
         /\ left # {} => p.push = [todo |-> left, slot |-> k.push.slot] /\ p.refresh = k.refresh
         /\ left = {} /\ k.refresh /\ Topics(k) # {} => p.push = [todo |-> Topics(k), slot |-> c]
            /\ p.refresh = FALSE
         /\ left = {} /\ (~k.refresh \/ Topics(k) = {}) => p.push = None /\ p.refresh = FALSE
<1> DEFINE left == Current(k, todo)
<1>1. left \in SUBSET (Subs \X Nat) /\ left \subseteq todo /\ \A t \in todo : t \in left <=> k.subs[t[1]] = t[2]
  BY DEF Current
<1>2. k.push \in Pushes /\ c \in Holders /\ k.refresh \in BOOLEAN
  BY ConnectionIs DEF Holders
<1>3. CASE left # {}
  <2>1. Advance(k, c, todo) = [k EXCEPT !.push.todo = left]
    BY <1>3 DEF Advance
  <2> HIDE DEF left
  <2>2. Kept(k, Advance(k, c, todo)) /\ Advance(k, c, todo).push = [todo |-> left, slot |-> k.push.slot]
        /\ Advance(k, c, todo).refresh = k.refresh
    BY <1>1, <1>2, <2>1, LeftIs
  <2> QED BY <1>1, <1>3, <2>2 DEF left
<1>4. CASE left = {} /\ k.refresh /\ Topics(k) # {}
  <2>1. Advance(k, c, todo) = Pushing(k, Topics(k), c)
    BY <1>4 DEF Advance
  <2>0. Topics(k) \in SUBSET (Subs \X Nat)
    BY TopicsAre
  <2>2. Kept(k, Advance(k, c, todo)) /\ Advance(k, c, todo).push = [todo |-> Topics(k), slot |-> c]
        /\ Advance(k, c, todo).refresh = FALSE
    <3> DEFINE topics == Topics(k)
    <3>1. c \in Holders /\ topics \in SUBSET (Subs \X Nat)
      BY <1>2, <2>0
    <3> HIDE DEF topics
    <3>2. /\ Kept(k, Pushing(k, topics, c)) /\ Pushing(k, topics, c).refresh = FALSE
          /\ Pushing(k, topics, c).push = [todo |-> topics, slot |-> c]
      BY <3>1, PushingIs
    <3> QED BY <2>1, <3>2 DEF topics
  <2> QED BY <1>1, <1>4, <2>2
<1>5. CASE left = {} /\ (~k.refresh \/ Topics(k) = {})
  <2>1. Advance(k, c, todo) = Idle(k)
    BY <1>5 DEF Advance
  <2>2. Kept(k, Advance(k, c, todo)) /\ Advance(k, c, todo).push = None /\ Advance(k, c, todo).refresh = FALSE
    BY <2>1, IdleIs
  <2> QED BY <1>1, <1>5, <2>2
<1> QED BY <1>3, <1>4, <1>5

LEMMA RestartedIs ==
  ASSUME SubscriptionsAssumption, NEW k \in Connections, NEW s \in Subs, NEW stream \in Nat
  PROVE  LET p == Restarted(k, s, stream) IN
         /\ p \in Connections /\ p.push = k.push /\ p.refresh = k.refresh
         /\ p.subs[s] = stream /\ p.encoders[s] = None /\ p.signatures[s] = None
         /\ \A t \in Subs \ {s} : /\ p.subs[t] = k.subs[t] /\ p.encoders[t] = k.encoders[t]
                                 /\ p.signatures[t] = k.signatures[t]
<1> DEFINE subs == [k.subs EXCEPT ![s] = stream]
           encoders == [k.encoders EXCEPT ![s] = None]
           signatures == [k.signatures EXCEPT ![s] = None]
<1>1. Restarted(k, s, stream) = [subs |-> subs, encoders |-> encoders, signatures |-> signatures, push |-> k.push,
                                 refresh |-> k.refresh]
  <2> DEFINE p == [k EXCEPT !.subs[s] = stream]
             q == [p EXCEPT !.encoders[s] = None]
  <2>1. Restarted(k, s, stream) = [q EXCEPT !.signatures[s] = None]
    BY Zenon DEF Restarted
  <2>2. p = [subs |-> subs, encoders |-> k.encoders, signatures |-> k.signatures, push |-> k.push,
             refresh |-> k.refresh]
    BY DEF Connections
  <2> HIDE DEF p
  <2>3. q = [subs |-> subs, encoders |-> encoders, signatures |-> k.signatures, push |-> k.push,
             refresh |-> k.refresh]
    BY <2>2
  <2> HIDE DEF q
  <2>4. [q EXCEPT !.signatures[s] = None]
        = [subs |-> subs, encoders |-> encoders, signatures |-> signatures, push |-> k.push, refresh |-> k.refresh]
    BY <2>3
  <2> QED BY <2>1, <2>4
<1>2. subs \in [Subs -> Nat] /\ subs[s] = stream /\ \A t \in Subs \ {s} : subs[t] = k.subs[t]
  BY ConnectionIs
<1>3. /\ encoders \in [Subs -> Encoders \cup {None}] /\ encoders[s] = None
      /\ \A t \in Subs \ {s} : encoders[t] = k.encoders[t]
  BY ConnectionIs
<1>4. /\ signatures \in [Subs -> Values \cup {None}] /\ signatures[s] = None
      /\ \A t \in Subs \ {s} : signatures[t] = k.signatures[t]
  BY ConnectionIs
<1> HIDE DEF subs, encoders, signatures
<1>5. Restarted(k, s, stream) \in Connections
  BY <1>1, <1>2, <1>3, <1>4, ConnectionIs DEF Connections
<1> QED BY <1>1, <1>2, <1>3, <1>4, <1>5

LEMMA EncodedIs ==
  ASSUME SubscriptionsAssumption, NEW k \in Connections, NEW s \in Subs, NEW e \in Encoders
  PROVE  LET p == [k EXCEPT !.encoders[s] = e] IN
         /\ p \in Connections /\ p.subs = k.subs /\ p.signatures = k.signatures /\ p.push = k.push
         /\ p.refresh = k.refresh /\ p.encoders[s] = e /\ \A t \in Subs \ {s} : p.encoders[t] = k.encoders[t]
<1> DEFINE encoders == [k.encoders EXCEPT ![s] = e]
<1>1. [k EXCEPT !.encoders[s] = e] = [subs |-> k.subs, encoders |-> encoders, signatures |-> k.signatures,
                                      push |-> k.push, refresh |-> k.refresh]
  BY DEF Connections
<1>2. /\ encoders \in [Subs -> Encoders \cup {None}] /\ encoders[s] = e
      /\ \A t \in Subs \ {s} : encoders[t] = k.encoders[t]
  BY ConnectionIs
<1> HIDE DEF encoders
<1>3. [k EXCEPT !.encoders[s] = e] \in Connections
  BY <1>1, <1>2, ConnectionIs DEF Connections
<1> QED BY <1>1, <1>2, <1>3

LEMMA SignedIs ==
  ASSUME SubscriptionsAssumption, NEW k \in Connections, NEW s \in Subs, NEW v \in Values
  PROVE  LET p == [k EXCEPT !.signatures[s] = v] IN
         /\ p \in Connections /\ p.subs = k.subs /\ p.encoders = k.encoders /\ p.push = k.push
         /\ p.refresh = k.refresh /\ p.signatures[s] = v
            /\ \A t \in Subs \ {s} : p.signatures[t] = k.signatures[t]
<1> DEFINE signatures == [k.signatures EXCEPT ![s] = v]
<1>1. [k EXCEPT !.signatures[s] = v] = [subs |-> k.subs, encoders |-> k.encoders, signatures |-> signatures,
                                        push |-> k.push, refresh |-> k.refresh]
  BY DEF Connections
<1>2. /\ signatures \in [Subs -> Values \cup {None}] /\ signatures[s] = v
      /\ \A t \in Subs \ {s} : signatures[t] = k.signatures[t]
  BY ConnectionIs
<1> HIDE DEF signatures
<1>3. [k EXCEPT !.signatures[s] = v] \in Connections
  BY <1>1, <1>2, ConnectionIs DEF Connections
<1> QED BY <1>1, <1>2, <1>3

-----------------------------------------------------------------------------
(* The chat, and what a step that leaves a client alone keeps of it. *)

Grows ==
  /\ log' = log \/ \E record \in {"call", "result"} : log' = Append(log, record)
  /\ meta' \in Nat /\ meta <= meta' /\ gone' \in BOOLEAN /\ (gone => gone')

LEMMA TopIs == \A n, m : LastId(Snap(n, m)) = Top(n) /\ Snap(n, m).meta = m
BY DEF LastId, Snap, Top

\* What the chat has shown: snapshots of its past, or that it is gone.
LEMMA PastIs ==
  ASSUME SubscriptionsAssumption, Chatted
  PROVE  /\ Past \subseteq Values /\ None \notin Past /\ (Gone \in Past <=> gone)
         /\ \A n \in 0..Len(log), m \in 0..meta : Snap(n, m) \in Past /\ Snap(n, m) \in Snapshots
         /\ \A n \in 0..Len(log) : Top(n) \in Nat /\ Top(n) <= Top(Len(log))
         /\ \A v \in Past : v # Gone => /\ v \in Snapshots /\ LastId(v) \in Nat /\ LastId(v) <= Top(Len(log))
                                        /\ v.meta \in Nat /\ v.meta <= meta
                                        /\ \E n \in 0..Len(log) : v.messages = Entries(n)
                                           /\ v.older = History(n).older
         /\ \A n \in 0..Len(log) : deriveChatSnapshot(History(n)) = Snap(n, meta)
         /\ Now \in Past /\ (~gone => Now = Snap(Len(log), meta))
<1>1. /\ 0 \in 0..meta /\ meta \in 0..meta /\ Len(log) \in 0..Len(log) /\ meta \in Nat /\ gone \in BOOLEAN
      /\ \A n \in 0..Len(log) : Len(log) \in n..Len(log)
  BY DEF Chatted
<1>2. \A n \in 0..Len(log), m \in 0..meta : Snap(n, m) \in Snapshots
  BY SnapIs
<1>3. \A n \in 0..Len(log) : Top(n) \in Nat /\ Top(n) <= Top(Len(log))
  BY <1>1, LaterIds DEF Top
<1>4. ASSUME NEW v \in Past, v # Gone
      PROVE  /\ v \in Snapshots /\ LastId(v) \in Nat /\ LastId(v) <= Top(Len(log))
             /\ v.meta \in Nat /\ v.meta <= meta
             /\ \E n \in 0..Len(log) : v.messages = Entries(n) /\ v.older = History(n).older
  <2>1. PICK n \in 0..Len(log), m \in 0..meta : v = Snap(n, m)
    BY <1>4 DEF Past
  <2>2. LastId(v) = Top(n) /\ v.meta = m
    BY <2>1, TopIs
  <2>3. v.messages = Entries(n) /\ v.older = History(n).older
    BY <2>1 DEF Snap
  <2> QED BY <1>1, <1>2, <1>3, <2>1, <2>2, <2>3
<1>5. \A n \in 0..Len(log) : deriveChatSnapshot(History(n)) = Snap(n, meta)
  BY DEF deriveChatSnapshot, History, Snap
<1>6. Past \subseteq Values /\ None \notin Past /\ (Gone \in Past <=> gone)
  BY <1>1, <1>2, NoneIsNo DEF Past, Values
<1>7. \A n \in 0..Len(log), m \in 0..meta : Snap(n, m) \in Past
  BY DEF Past
<1>8. Now \in Past /\ (~gone => Now = Snap(Len(log), meta))
  BY <1>1, <1>5, <1>6, <1>7 DEF Now
<1> QED BY <1>2, <1>3, <1>4, <1>5, <1>6, <1>7, <1>8

\* The past of a chat that grows stays its past.
LEMMA GrownIs ==
  ASSUME SubscriptionsAssumption, Chatted, Grows
  PROVE  /\ Chatted' /\ Past \subseteq Past' /\ Len(log) \in 0..Len(log')
         /\ \A n \in 0..Len(log) : Top(n)' = Top(n) /\ n \in 0..Len(log')
<1>0. log \in Seq({"call", "result"}) /\ Len(log) \in Nat /\ meta \in Nat /\ meta' \in Nat /\ gone' \in BOOLEAN
  BY DEF Chatted, Grows
<1>1. Chatted' /\ Len(log) \in 0..Len(log') /\ Len(log) \in Nat
  <2>1. CASE log' = log
    BY <1>0, <2>1 DEF Chatted
  <2>2. CASE log' # log
    <3>1. PICK record \in {"call", "result"} : log' = Append(log, record)
      BY <2>2 DEF Grows
    <3>2. log' \in Seq({"call", "result"}) /\ Len(log') = Len(log) + 1
      BY <1>0, <3>1
    <3> QED BY <1>0, <3>2 DEF Chatted
  <2> QED BY <2>1, <2>2
<1>2. \A n \in 0..Len(log) : n \in 0..Len(log')
  BY <1>1
<1>3. ASSUME NEW n \in 0..Len(log), NEW m
      PROVE  Snap(n, m)' = Snap(n, m)
  BY SnapStays DEF Grows
<1>4. \A m \in 0..meta : m \in 0..meta'
  BY DEF Chatted, Grows
<1>5. Past \subseteq Past'
  <2> SUFFICES ASSUME NEW v \in Past
               PROVE  v \in Past'
    OBVIOUS
  <2>1. CASE gone /\ v = Gone
    BY <2>1 DEF Past, Grows
  <2>2. CASE ~(gone /\ v = Gone)
    <3>1. PICK n \in 0..Len(log), m \in 0..meta : v = Snap(n, m)
      BY <2>2 DEF Past
    <3>2. v = Snap(n, m)' /\ n \in 0..Len(log') /\ m \in 0..meta'
      BY <1>2, <1>3, <1>4, <3>1
    <3> QED BY <3>2 DEF Past
  <2> QED BY <2>1, <2>2
<1>6. ASSUME NEW n \in 0..Len(log)
      PROVE  Top(n)' = Top(n)
  BY <1>3 DEF Top, LastId
<1> QED BY <1>1, <1>2, <1>5, <1>6

\* A push has a slot that is in use.
LEMMA HolderIs ==
  ASSUME TypeOK, NEW c \in Clients, Connected(c), conn[c].push # None
  PROVE  /\ ~Unused(conn, conn[c].push.slot) /\ conn[c] \in Connections /\ conn[c].push \in Pushes
         /\ conn[c].push.slot \in Holders /\ conn[c].push.todo \in SUBSET (Subs \X Nat)
<1>1. conn[c] \in Connections
  BY DEF TypeOK, Connected
<1>2. conn[c].push \in Pushes
  BY <1>1, ConnectionIs
<1> QED BY <1>1, <1>2, PushIs DEF Unused, UsersOf, Connected

\* What a slot that nobody uses holds.
LEMMA UnusedIs ==
  ASSUME SubscriptionsAssumption, TypeOK, Held, NEW k \in Holders, Unused(conn, k)
  PROVE  /\ reads[k] = NoRead /\ ~reads[k].done /\ (k \in Caches => prepared[k] = None)
         /\ Fresh(k) /\ \A v : AheadOf(k, v)
BY DEF Held, NoRead, Fresh, AheadOf

\* The way of a subscription goes on when the chat grows.
LEMMA ChainKept ==
  ASSUME SubscriptionsAssumption, Chatted, Grows, NEW c \in Clients, NEW s \in Subs, Chain(c, s),
         down[c] \in Seq(Mail),
         Connected(c)' => /\ Connected(c) /\ conn'[c].subs[s] = conn[c].subs[s]
                          /\ conn'[c].encoders[s] = conn[c].encoders[s]
                          /\ conn'[c].signatures[s] = conn[c].signatures[s],
         down'[c] = down[c], tab'[c].decoders[s] = tab[c].decoders[s], tab'[c].view[s] = tab[c].view[s],
         Awaits(c, s)' => \A v \in Past \cup {None} : (Awaits(c, s) => AheadOf(conn[c].push.slot, v))
                                                      => AheadOf(conn[c].push.slot, v)'
  PROVE  Chain(c, s)'
<1> SUFFICES ASSUME Connected(c)', tab'[c].decoders[s] # None
             PROVE  \E st \in [0..Len(down[c]) -> Stage] : Follows(c, s, st)'
  BY DEF Chain
<1>1. PICK st \in [0..Len(down[c]) -> Stage] : Follows(c, s, st)
  BY DEF Chain
<1>2. Past \subseteq Past'
  BY GrownIs
<1>3. /\ st[0].revision = tab'[c].decoders[s].revision /\ st[0].snapshot = tab'[c].decoders[s].snapshot
      /\ st[0].view = tab'[c].view[s]
  BY <1>1 DEF Follows
<1>4. \A i \in 0..Len(down'[c]) : st[i].view \in Past' \cup {None}
  BY <1>1, <1>2 DEF Follows
<1>5. \A i \in 1..Len(down'[c]) : Moves(st[i - 1], down'[c][i], st[i], s, conn'[c].subs[s])
  BY <1>1 DEF Follows
<1>6. PICK n \in Nat : n = Len(down[c]) /\ n \in 0..n
  OBVIOUS
<1>7. Sender(c, s, st[n])'
  <2>1. Sender(c, s, st[n])
    BY <1>1, <1>6 DEF Follows
  <2> QED BY <2>1 DEF Sender
<1>8. PICK v \in Past \cup {None} : v = st[n].view
  BY <1>1, <1>6 DEF Follows
<1>9. Awaits(c, s)' => AheadOf(conn[c].push.slot, v)'
  BY <1>1, <1>6, <1>8 DEF Follows
<1> QED BY <1>1, <1>3, <1>4, <1>5, <1>6, <1>7, <1>8, <1>9 DEF Follows

\* The chat as it is stays a chat that grows.
LEMMA AheadKept ==
  ASSUME SubscriptionsAssumption, TypeOK, Grows, NEW k \in Holders, NEW v,
         reads'[k] = reads[k], k \in Caches => prepared'[k] = prepared[k], AheadOf(k, v)
  PROVE  AheadOf(k, v)'
<1>1. reads[k].upTo \in 0..Len(log)
  BY DEF TypeOK
<1>2. PICK n \in 0..Len(log) : n = reads[k].upTo
  BY <1>1
<1>3. Top(n)' = Top(n)
  BY GrownIs DEF TypeOK
<1>4. reads'[k].done /\ v \in Snapshots => LastId(v) <= Top(n)'
  BY <1>2, <1>3 DEF AheadOf
<1> QED BY <1>2, <1>4 DEF AheadOf

LEMMA SubKept ==
  ASSUME SubscriptionsAssumption, Chatted, Grows, NEW c \in Clients, NEW s \in Subs, SubOK(c, s),
         down'[c] = down[c], tab'[c].decoders[s] = tab[c].decoders[s], tab'[c].view[s] = tab[c].view[s],
         tab'[c].generation = tab[c].generation, s \in tab'[c].closed <=> s \in tab[c].closed,
         Connected(c)' => /\ Connected(c) /\ conn'[c].subs[s] = conn[c].subs[s]
                          /\ conn'[c].encoders[s] = conn[c].encoders[s]
                          /\ conn'[c].signatures[s] = conn[c].signatures[s]
  PROVE  SubOK(c, s)'
<1>1. Past \subseteq Past'
  BY GrownIs
<1> QED BY <1>1 DEF SubOK

\* A client of whom nothing changes, nor of the push it waits for.
ClientOK(c) == PushOK(c) /\ Shows(c) /\ \A s \in Subs : SubOK(c, s) /\ Chain(c, s)

\* The invariant, client by client.
LEMMA InvIs == SubscriptionsInv <=> TypeOK /\ Held /\ \A c \in Clients : ClientOK(c)
BY DEF SubscriptionsInv, ClientOK

LEMMA Watched ==
  ASSUME SubscriptionsAssumption, TypeOK, NEW c \in Clients, ClientOK(c), Grows,
         tab'[c] = tab[c], down'[c] = down[c], conn'[c] = conn[c],
         Connected(c) /\ conn[c].push # None =>
           \A v \in Past \cup {None} : AheadOf(conn[c].push.slot, v) => AheadOf(conn[c].push.slot, v)'
  PROVE  PushOK(c)' /\ \A s \in Subs : SubOK(c, s)' /\ Chain(c, s)'
<1>1. PushOK(c)'
  BY DEF PushOK, ClientOK, Connected
<1>2. Chatted /\ Connected(c)' = Connected(c) /\ down[c] \in Seq(Mail)
  BY DEF TypeOK, Connected
<1>3. ASSUME NEW s \in Subs
      PROVE  SubOK(c, s)'
  BY <1>2, SubKept DEF ClientOK
<1>4. ASSUME NEW s \in Subs
      PROVE  Chain(c, s)'
  <2>1. Awaits(c, s)' => Awaits(c, s) /\ Connected(c) /\ conn[c].push # None
    BY DEF Awaits, Pending, Connected
  <2>2. Awaits(c, s)' => \A v \in Past \cup {None} : (Awaits(c, s) => AheadOf(conn[c].push.slot, v))
                                                      => AheadOf(conn[c].push.slot, v)'
    BY <2>1
  <2>3. Chain(c, s)
    BY DEF ClientOK
  <2> QED BY <1>2, <2>2, <2>3, ChainKept
<1> QED BY <1>1, <1>3, <1>4

LEMMA Untouched ==
  ASSUME SubscriptionsAssumption, TypeOK, NEW c \in Clients, ClientOK(c),
         tab'[c] = tab[c], down'[c] = down[c], conn'[c] = conn[c], log' = log, meta' = meta, gone' = gone,
         timer' = timer, c \in owed => c \in owed',
         Connected(c) /\ conn[c].push # None =>
           /\ reads'[conn[c].push.slot] = reads[conn[c].push.slot]
           /\ conn[c].push.slot \in Caches => prepared'[conn[c].push.slot] = prepared[conn[c].push.slot]
  PROVE  ClientOK(c)'
<1>1. Grows
  BY DEF Grows, TypeOK, Chatted
<1>2. Connected(c) /\ conn[c].push # None =>
        \A v \in Past \cup {None} : AheadOf(conn[c].push.slot, v) => AheadOf(conn[c].push.slot, v)'
  <2> SUFFICES ASSUME Connected(c), conn[c].push # None, NEW v, AheadOf(conn[c].push.slot, v)
               PROVE  AheadOf(conn[c].push.slot, v)'
    OBVIOUS
  <2>1. PICK k \in Holders : k = conn[c].push.slot
    BY HolderIs
  <2>2. AheadOf(k, v)'
    BY <1>1, <2>1, AheadKept
  <2>3. conn'[c].push.slot = k
    BY <2>1
  <2> QED BY <2>2, <2>3 DEF AheadOf
<1>3. PushOK(c)' /\ \A s \in Subs : SubOK(c, s)' /\ Chain(c, s)'
  BY <1>1, <1>2, Watched
<1>4. Shows(c)'
  <2>1. Shows(c)
    BY DEF ClientOK
  <2>2. Now' = Now
    BY DEF Now, History, deriveChatSnapshot, Entries, Recent, Shown, Ordered
  <2>3. /\ Wanted(c)' = Wanted(c) /\ Connected(c)' = Connected(c)
        /\ \A s : Awaits(c, s)' = Awaits(c, s) /\ Tip(c, s)' = Tip(c, s)
    BY DEF Wanted, Connected, Awaits, Pending, Tip
  <2>4. Connected(c) /\ conn[c].push # None /\ Fresh(conn[c].push.slot) => Fresh(conn[c].push.slot)'
    BY <2>2 DEF Fresh
  <2> QED BY <2>1, <2>2, <2>3, <2>4 DEF Shows
<1> QED BY <1>3, <1>4 DEF ClientOK

\* Caches are numbered, and there is one more than the connections can use.
LEMMA CacheFree ==
  ASSUME SubscriptionsAssumption, TypeOK
  PROVE  /\ (CHOOSE k \in Caches : UsersOf(conn, k) = {}) \in Caches
         /\ Unused(conn, CHOOSE k \in Caches : UsersOf(conn, k) = {})
<1> SUFFICES ASSUME \A k \in Caches : UsersOf(conn, k) # {}
             PROVE  FALSE
  BY DEF Unused
<1> DEFINE user == [k \in Caches |-> CHOOSE c \in Clients : c \in UsersOf(conn, k)]
<1>1. \A k \in Caches : user[k] \in Clients /\ user[k] \in UsersOf(conn, k)
  <2> SUFFICES ASSUME NEW k \in Caches
               PROVE  user[k] \in Clients /\ user[k] \in UsersOf(conn, k)
    OBVIOUS
  <2>1. \E c \in Clients : c \in UsersOf(conn, k)
    BY DEF UsersOf
  <2> QED BY <2>1
<1>2. IsFiniteSet(Clients) /\ Cardinality(Clients) \in Nat
  BY FS_CardinalityType DEF SubscriptionsAssumption
<1>3. IsFiniteSet(Caches) /\ Cardinality(Caches) = Cardinality(Clients) + 1
  <2>1. Cardinality(Clients) + 1 \in Nat
    BY <1>2
  <2>2. IsFiniteSet(1..Cardinality(Clients) + 1)
    BY <2>1, FS_Interval
  <2>3. Cardinality(1..Cardinality(Clients) + 1) = Cardinality(Clients) + 1
    <3> DEFINE n == Cardinality(Clients) + 1
    <3>1. n \in Nat
      BY <2>1
    <3> HIDE DEF n
    <3>2. Cardinality(1..n) = IF 1 > n THEN 0 ELSE n - 1 + 1
      BY <3>1, FS_Interval
    <3>3. Cardinality(1..n) = n
      BY <3>1, <3>2
    <3> QED BY <3>3 DEF n
  <2> QED BY <2>2, <2>3 DEF Caches
<1>4. user \in [Caches -> Clients]
  BY <1>1
<1>5. Cardinality(Caches) > Cardinality(Clients)
  BY <1>2, <1>3
<1> HIDE DEF user
<1>6. \E k, m \in Caches : k # m /\ user[k] = user[m]
  BY <1>2, <1>3, <1>4, <1>5, FS_PigeonHole
<1> QED BY <1>1, <1>6 DEF UsersOf

\* The broadcasts.
LEMMA InitOK == ASSUME SubscriptionsAssumption, Init PROVE SubscriptionsInv
<1>1. Chatted /\ log = <<>> /\ Len(log) = 0
  <2>1. log = <<>> /\ meta = 0 /\ gone = FALSE
    BY DEF Init
  <2>2. log \in Seq({"call", "result"}) /\ Len(log) = 0
    BY <2>1
  <2> QED BY <2>1, <2>2 DEF Chatted
<1>2. ASSUME NEW c \in Clients
      PROVE  /\ Connection(c) \in Connections /\ Connection(c) # None
             /\ Connection(c).push = None /\ Connection(c).refresh = FALSE
             /\ \A s \in Subs : Connection(c).subs[s] = 0 /\ Connection(c).encoders[s] = None
                                /\ Connection(c).signatures[s] = None
  <2> DEFINE zeros == [s \in Subs |-> 0]
             nones == [s \in Subs |-> None]
  <2>1. Connection(c) = [subs |-> zeros, encoders |-> nones, signatures |-> nones, push |-> None, refresh |-> FALSE]
    BY DEF Connection
  <2>2. zeros \in [Subs -> Nat] /\ \A s \in Subs : zeros[s] = 0
    OBVIOUS
  <2>3. nones \in [Subs -> Encoders \cup {None}] /\ nones \in [Subs -> Values \cup {None}]
        /\ \A s \in Subs : nones[s] = None
    OBVIOUS
  <2> HIDE DEF zeros, nones
  <2>4. Connection(c) \in Connections
    BY <2>1, <2>2, <2>3 DEF Connections
  <2>5. Connection(c).subs = zeros /\ Connection(c).encoders = nones /\ Connection(c).signatures = nones
        /\ Connection(c).push = None /\ Connection(c).refresh = FALSE
    BY <2>1
  <2>6. Connection(c) # None
    BY <2>4, NoneIsNo
  <2> QED BY <2>2, <2>3, <2>4, <2>5, <2>6
<1>3. reads \in [Holders -> [done : BOOLEAN, upTo : 0..Len(log)]]
  <2>1. NoRead \in [done : BOOLEAN, upTo : 0..Len(log)]
    BY <1>1 DEF NoRead
  <2> QED BY <2>1 DEF Init, Holders
<1>4. prepared \in [Caches -> Past \cup {None}] /\ conn \in [Clients -> Connections \cup {None}]
      /\ down \in [Clients -> Seq(Mail)] /\ timer \in BOOLEAN /\ owed \subseteq Clients
  <2>1. <<>> \in Seq(Mail)
    OBVIOUS
  <2>2. down \in [Clients -> Seq(Mail)]
    BY <2>1 DEF Init
  <2>3. conn \in [Clients -> Connections \cup {None}]
    BY <1>2 DEF Init
  <2>4. prepared \in [Caches -> Past \cup {None}] /\ timer \in BOOLEAN /\ owed \subseteq Clients
    BY DEF Init
  <2> QED BY <2>2, <2>3, <2>4
<1>5. tab \in [Clients -> Tabs] /\ \A c \in Clients : \A s \in Subs : tab[c].decoders[s] = None
      /\ tab[c].view[s] = None
  <2> DEFINE fresh == {[generation |-> 1, closed |-> closed, decoders |-> [s \in Subs |-> None],
                        view |-> [s \in Subs |-> None]] : closed \in SUBSET Subs}
  <2>1. tab \in [Clients -> fresh]
    BY DEF Init
  <2>2. \A t \in fresh : t \in Tabs /\ \A s \in Subs : t.decoders[s] = None /\ t.view[s] = None
    BY DEF Tabs
  <2> HIDE DEF fresh
  <2> QED BY <2>1, <2>2
<1>6. TypeOK
  BY <1>1, <1>3, <1>4, <1>5 DEF TypeOK
<1>7. Held
  BY DEF Held, Init, Holders
<1>8. ASSUME NEW c \in Clients
      PROVE  ClientOK(c)
  <2>1. conn[c] = Connection(c) /\ down[c] = <<>>
    BY DEF Init
  <2>2. PushOK(c)
    BY <1>2, <2>1 DEF PushOK
  <2>3. Wanted(c) = {}
    BY <1>5 DEF Wanted
  <2>4. Shows(c)
    BY <1>2, <2>1, <2>3 DEF Shows
  <2>5. \A s \in Subs : SubOK(c, s)
    <3>1. DOMAIN down[c] = {}
      BY <2>1
    <3> QED BY <1>2, <1>5, <2>1, <3>1 DEF SubOK
  <2>6. \A s \in Subs : Chain(c, s)
    BY <1>5 DEF Chain
  <2> QED BY <2>2, <2>4, <2>5, <2>6 DEF ClientOK
<1> QED BY <1>6, <1>7, <1>8 DEF SubscriptionsInv, ClientOK

\* A change of the chat itself touches nobody yet.
LEMMA ChangeOK ==
  ASSUME SubscriptionsAssumption, SubscriptionsInv, Grows, timer' = TRUE,
         UNCHANGED <<conn, owed, reads, prepared, tab, down>>
  PROVE  SubscriptionsInv'
<1>1. TypeOK /\ Held /\ Chatted
  BY InvIs DEF TypeOK
<1>2. /\ Chatted' /\ Past \subseteq Past' /\ Len(log) \in 0..Len(log')
      /\ \A n \in 0..Len(log) : n \in 0..Len(log')
  BY <1>1, GrownIs
<1>3. TypeOK'
  <2>1. reads' \in [Holders -> [done : BOOLEAN, upTo : 0..Len(log')]]
    <3>1. \A k \in Holders : reads[k] \in [done : BOOLEAN, upTo : 0..Len(log')]
      BY <1>1, <1>2 DEF TypeOK
    <3>2. reads' = [k \in Holders |-> reads[k]]
      BY <1>1 DEF TypeOK
    <3> QED BY <3>1, <3>2
  <2>2. prepared' \in [Caches -> Past' \cup {None}]
    BY <1>1, <1>2 DEF TypeOK
  <2>3. timer' \in BOOLEAN /\ owed' \subseteq Clients /\ conn' \in [Clients -> Connections \cup {None}]
        /\ tab' \in [Clients -> Tabs] /\ down' \in [Clients -> Seq(Mail)]
    BY <1>1 DEF TypeOK
  <2> QED BY <1>2, <2>1, <2>2, <2>3 DEF TypeOK
<1>4. Held'
  BY <1>1 DEF Held, Unused, UsersOf
<1>5. ASSUME NEW c \in Clients
      PROVE  ClientOK(c)'
  <2>1. ClientOK(c)
    BY InvIs
  <2>2. Connected(c) /\ conn[c].push # None =>
          \A v \in Past \cup {None} : AheadOf(conn[c].push.slot, v) => AheadOf(conn[c].push.slot, v)'
    <3> SUFFICES ASSUME Connected(c), conn[c].push # None, NEW v, AheadOf(conn[c].push.slot, v)
                 PROVE  AheadOf(conn[c].push.slot, v)'
      OBVIOUS
    <3>1. PICK k \in Holders : k = conn[c].push.slot
      BY <1>1, HolderIs
    <3>2. AheadOf(k, v)'
      BY <1>1, <3>1, AheadKept
    <3>3. conn'[c].push.slot = k
      BY <3>1
    <3> QED BY <3>2, <3>3 DEF AheadOf
  <2>3. PushOK(c)' /\ \A s \in Subs : SubOK(c, s)' /\ Chain(c, s)'
    BY <1>1, <2>1, <2>2, Watched
  <2>4. Shows(c)'
    BY DEF Shows
  <2> QED BY <2>3, <2>4 DEF ClientOK
<1> QED BY <1>3, <1>4, <1>5 DEF SubscriptionsInv, ClientOK

\* Records and changes of the metadata keep the invariant, and so do the broadcasts.
LEMMA RecordOK ==
  ASSUME SubscriptionsAssumption, SubscriptionsInv, NEW record \in {"call", "result"}, Record(record)
  PROVE  SubscriptionsInv'
<1>1. Grows
  BY InvIs DEF Record, Grows, TypeOK, Chatted
<1> QED BY <1>1, ChangeOK DEF Record, scheduleChatStateBroadcast

LEMMA ChangeMetaOK ==
  ASSUME SubscriptionsAssumption, SubscriptionsInv, ChangeMeta
  PROVE  SubscriptionsInv'
<1>1. Grows
  BY InvIs DEF ChangeMeta, Grows, TypeOK, Chatted
<1> QED BY <1>1, ChangeOK DEF ChangeMeta, scheduleChatStateBroadcast

\* A broadcast gives each connection a push over a cache nobody used, or leaves the one
\* under way to refresh.
LEMMA BroadcastOK ==
  ASSUME SubscriptionsAssumption, SubscriptionsInv, Grows, log' = log, meta' = meta, NEW chat \in BOOLEAN,
         Broadcast(chat),
         UNCHANGED <<reads, prepared, tab, down>>, timer' \in BOOLEAN,
         chat \/ gone' \/ (timer' = timer /\ gone' = gone)
  PROVE  SubscriptionsInv'
<1>1. TypeOK /\ Held /\ Chatted
  BY InvIs DEF TypeOK
<1>2. /\ Chatted' /\ Past \subseteq Past'
  BY <1>1, GrownIs
<1> DEFINE free == CHOOSE k \in Caches : UsersOf(conn, k) = {}
<1>3. PICK slot \in Caches : slot = free /\ Unused(conn, slot)
  BY <1>1, CacheFree
<1>4. /\ conn' = [c \in Clients |-> IF Connected(c) THEN pushSnapshots(conn[c], chat, slot) ELSE None]
      /\ owed' = {c \in owed : chat => Connected(c) /\ conn[c].push # None}
  BY <1>3 DEF Broadcast
<1> HIDE DEF free
<1>5. slot \in Holders /\ slot \notin Clients /\ (slot \in Caches <=> TRUE)
  BY NoneIsNo DEF Holders
<1>6. ASSUME NEW c \in Clients, Connected(c)
      PROVE  /\ conn[c] \in Connections /\ conn'[c] \in Connections /\ Connected(c)'
             /\ conn'[c].subs = conn[c].subs /\ conn'[c].encoders = conn[c].encoders
             /\ conn'[c].signatures = conn[c].signatures
             /\ conn[c].push # None => conn'[c].push = conn[c].push /\ conn'[c].refresh = TRUE
             /\ conn[c].push = None /\ ~chat => conn'[c].push = [todo |-> {}, slot |-> slot]
                                                /\ conn'[c].refresh = FALSE
             /\ conn[c].push = None /\ chat /\ Topics(conn[c]) = {} => conn'[c] = conn[c]
             /\ conn[c].push = None /\ chat /\ Topics(conn[c]) # {} =>
                  conn'[c].push = [todo |-> Topics(conn[c]), slot |-> slot] /\ conn'[c].refresh = FALSE
             /\ conn[c].push = None /\ conn'[c].push # None =>
                  /\ conn'[c].push.slot = slot
                  /\ conn'[c].push.todo = IF chat THEN Topics(conn[c]) ELSE {}
                  /\ conn'[c].refresh = FALSE
  <2>1. conn[c] \in Connections
    BY <1>1, <1>6 DEF TypeOK, Connected
  <2>2. conn'[c] = pushSnapshots(conn[c], chat, slot)
    BY <1>4, <1>6
  <2>3. /\ Kept(conn[c], conn'[c])
        /\ conn[c].push # None => conn'[c].push = conn[c].push /\ conn'[c].refresh = TRUE
        /\ conn[c].push = None /\ ~chat => conn'[c].push = [todo |-> {}, slot |-> slot]
           /\ conn'[c].refresh = FALSE
        /\ conn[c].push = None /\ chat /\ Topics(conn[c]) = {} => conn'[c] = conn[c]
        /\ conn[c].push = None /\ chat /\ Topics(conn[c]) # {} =>
             conn'[c].push = [todo |-> Topics(conn[c]), slot |-> slot] /\ conn'[c].refresh = FALSE
    <3>1. PICK k \in Connections : k = conn[c]
      BY <2>1
    <3> DEFINE p == pushSnapshots(k, chat, slot)
    <3>2. /\ Kept(k, p)
          /\ k.push # None => p.push = k.push /\ p.refresh = TRUE
          /\ k.push = None /\ ~chat => p.push = [todo |-> {}, slot |-> slot] /\ p.refresh = FALSE
          /\ k.push = None /\ chat /\ Topics(k) = {} => p = k
          /\ k.push = None /\ chat /\ Topics(k) # {} =>
               p.push = [todo |-> Topics(k), slot |-> slot] /\ p.refresh = FALSE
      <4>1. slot \in Holders /\ chat \in BOOLEAN
        BY <1>5
      <4> QED BY <4>1, PushedIs, Zenon
    <3> HIDE DEF p
    <3>3. conn'[c] = p
      BY <2>2, <3>1 DEF p
    <3> QED BY <3>1, <3>2, <3>3
  <2>4. conn'[c] # None
    BY <2>3, NoneIsNo DEF Kept
  <2>5. conn[c].push = None /\ conn'[c].push # None =>
          /\ conn'[c].push.slot = slot
          /\ conn'[c].push.todo = IF chat THEN Topics(conn[c]) ELSE {}
          /\ conn'[c].refresh = FALSE
    <3> SUFFICES ASSUME conn[c].push = None, conn'[c].push # None
                 PROVE  /\ conn'[c].push.slot = slot
                        /\ conn'[c].push.todo = IF chat THEN Topics(conn[c]) ELSE {}
                        /\ conn'[c].refresh = FALSE
      OBVIOUS
    <3>1. CASE chat
      <4>1. conn'[c].push = [todo |-> Topics(conn[c]), slot |-> slot] /\ conn'[c].refresh = FALSE
        BY <2>3, <3>1
      <4> QED BY <3>1, <4>1
    <3>2. CASE ~chat
      <4>1. conn'[c].push = [todo |-> {}, slot |-> slot] /\ conn'[c].refresh = FALSE
        BY <2>3, <3>2
      <4> QED BY <3>2, <4>1
    <3> QED BY <3>1, <3>2
  <2> QED BY <2>1, <2>3, <2>4, <2>5 DEF Kept, Connected
<1>7. ASSUME NEW c \in Clients, ~Connected(c)
      PROVE  conn'[c] = None /\ conn[c] = None /\ ~Connected(c)'
  BY <1>4, <1>7 DEF Connected
<1>8. TypeOK'
  <2>1. conn' \in [Clients -> Connections \cup {None}]
    <3>1. \A c \in Clients : conn'[c] \in Connections \cup {None}
      BY <1>6, <1>7
    <3> QED BY <1>4, <3>1
  <2>2. prepared' \in [Caches -> Past' \cup {None}]
    BY <1>1, <1>2 DEF TypeOK
  <2>3. owed' \subseteq Clients
    BY <1>1, <1>4 DEF TypeOK
  <2>4. reads' \in [Holders -> [done : BOOLEAN, upTo : 0..Len(log')]]
        /\ tab' \in [Clients -> Tabs] /\ down' \in [Clients -> Seq(Mail)]
    BY <1>1 DEF TypeOK
  <2> QED BY <1>2, <2>1, <2>2, <2>3, <2>4 DEF TypeOK
<1>9. \A k : Unused(conn', k) => Unused(conn, k)
  <2> SUFFICES ASSUME NEW k, NEW c \in UsersOf(conn, k)
               PROVE  c \in UsersOf(conn', k)
    BY DEF Unused
  <2>1. c \in Clients /\ Connected(c) /\ conn[c].push # None /\ conn[c].push.slot = k
    BY DEF UsersOf, Connected
  <2> QED BY <1>6, <2>1 DEF UsersOf, Connected
<1>10. Held'
  BY <1>1, <1>9 DEF Held
<1>11. ASSUME NEW c \in Clients
       PROVE  ClientOK(c)'
  <2>1. ClientOK(c)
    BY InvIs
  <2>2. PushOK(c)'
    <3>1. CASE ~Connected(c)
      BY <1>7, <2>1, <3>1 DEF PushOK, ClientOK
    <3>2. CASE Connected(c)
      <4>1. PushOK(c)
        BY <2>1 DEF ClientOK
      <4>2. CASE conn[c].push # None
        BY <1>6, <3>2, <4>1, <4>2 DEF PushOK
      <4>3. CASE conn[c].push = None /\ conn'[c].push # None
        <5>1. conn'[c].push.slot = slot /\ slot # c /\ slot \in Caches /\ Connected(c)'
          BY <1>5, <1>6, <3>2, <4>3
        <5>2. \A t \in conn'[c].push.todo : t[2] # 0
          <6>1. conn'[c].push.todo = Topics(conn[c]) \/ conn'[c].push.todo = {}
            BY <1>6, <3>2, <4>3
          <6>2. \A t \in Topics(conn[c]) : t[2] # 0
            BY <1>6, <3>2, TopicsAre
          <6> QED BY <6>1, <6>2
        <5> QED BY <4>3, <5>1, <5>2 DEF PushOK
      <4>4. CASE conn[c].push = None /\ conn'[c].push = None
        <5>1. Connected(c)' /\ (conn'[c] = conn[c] \/ conn'[c].refresh = FALSE)
          BY <1>6, <3>2, <4>4
        <5> QED BY <3>2, <4>1, <4>4, <5>1 DEF PushOK
      <4> QED BY <4>2, <4>3, <4>4
    <3> QED BY <3>1, <3>2
  <2>3. ASSUME NEW s \in Subs
        PROVE  SubOK(c, s)'
    <3>1. Connected(c)' => /\ Connected(c) /\ conn'[c].subs[s] = conn[c].subs[s]
                           /\ conn'[c].encoders[s] = conn[c].encoders[s]
                           /\ conn'[c].signatures[s] = conn[c].signatures[s]
      BY <1>6, <1>7
    <3>2. SubOK(c, s)
      BY <2>1 DEF ClientOK
    <3> QED BY <1>1, <3>1, <3>2, SubKept
  <2>4. ASSUME NEW s \in Subs
        PROVE  Chain(c, s)'
    <3>1. Connected(c)' => /\ Connected(c) /\ conn'[c].subs[s] = conn[c].subs[s]
                           /\ conn'[c].encoders[s] = conn[c].encoders[s]
                           /\ conn'[c].signatures[s] = conn[c].signatures[s]
      BY <1>6, <1>7
    <3>2. Awaits(c, s)' => \A v \in Past \cup {None} : (Awaits(c, s) => AheadOf(conn[c].push.slot, v))
                                                        => AheadOf(conn[c].push.slot, v)'
      <4> SUFFICES ASSUME Awaits(c, s)', NEW v, Awaits(c, s) => AheadOf(conn[c].push.slot, v)
                   PROVE  AheadOf(conn[c].push.slot, v)'
        OBVIOUS
      <4>1. Connected(c) /\ conn'[c].push # None /\ <<s, conn'[c].subs[s]>> \in conn'[c].push.todo
        BY <1>7 DEF Awaits, Pending
      <4>2. PICK k \in Holders : k = conn'[c].push.slot /\ (AheadOf(k, v))
        <5>1. CASE conn[c].push # None
          <6>1. Awaits(c, s)
            BY <1>6, <4>1, <5>1 DEF Awaits, Pending
          <6> QED BY <1>1, <1>6, <4>1, <5>1, <6>1, HolderIs
        <5>2. CASE conn[c].push = None
          <6>1. conn'[c].push.slot = slot
            BY <1>6, <4>1, <5>2
          <6> QED BY <1>1, <1>3, <1>5, <6>1, UnusedIs
        <5> QED BY <5>1, <5>2
      <4>3. AheadOf(k, v)'
        BY <1>1, <4>2, AheadKept
      <4> QED BY <4>2, <4>3 DEF AheadOf
    <3>3. Chain(c, s) /\ down[c] \in Seq(Mail)
      BY <1>1, <2>1 DEF ClientOK, TypeOK
    <3> QED BY <1>1, <3>1, <3>2, <3>3, ChainKept
  <2>5. Shows(c)'
    <3> SUFFICES ASSUME Connected(c)', ~timer', ~gone', ~conn'[c].refresh
                 PROVE  /\ conn'[c].push # None => Fresh(conn[c].push.slot)'
                        /\ c \notin owed' => \A s \in Wanted(c)' : ~Awaits(c, s)' => Tip(c, s)' = Now'
      BY DEF Shows
    <3>1. Connected(c) /\ conn[c].push = None
      BY <1>6, <1>7
    <3>2. conn'[c].push # None => Fresh(conn[c].push.slot)'
      <4> SUFFICES ASSUME conn'[c].push # None
                   PROVE  Fresh(conn[c].push.slot)'
        OBVIOUS
      <4>1. conn'[c].push.slot = slot
        BY <1>6, <3>1
      <4>2. ~reads'[slot].done /\ prepared'[slot] = None
        BY <1>1, <1>3, <1>5, UnusedIs
      <4> QED BY <4>1, <4>2 DEF Fresh
    <3>3. ASSUME c \notin owed', NEW s \in Wanted(c)', ~Awaits(c, s)'
          PROVE  Tip(c, s)' = Now'
      <4>1. s \in Subs /\ tab[c].decoders[s] # None /\ s \in Wanted(c)
        BY DEF Wanted
      <4>2. CASE chat
        <5>1. SubOK(c, s) /\ tab[c] \in Tabs
          BY <1>1, <2>1, <4>1 DEF ClientOK, TypeOK
        <5>2. conn[c].subs[s] = tab[c].generation /\ tab[c].generation \in Nat \ {0}
          BY <3>1, <4>1, <5>1 DEF SubOK, Tabs
        <5>3. <<s, conn[c].subs[s]>> \in Topics(conn[c])
          BY <1>6, <3>1, <4>1, <5>2, TopicsAre
        <5>4. conn'[c].push = [todo |-> Topics(conn[c]), slot |-> slot] /\ conn'[c].subs = conn[c].subs
              /\ Connected(c)' /\ conn'[c] \in Connections
          BY <1>6, <3>1, <4>2, <5>3
        <5>5. conn'[c].push # None
          <6>1. Topics(conn[c]) \in SUBSET (Subs \X Nat)
            BY <1>6, <3>1, TopicsAre
          <6>2. [todo |-> Topics(conn[c]), slot |-> slot] \in Pushes
            BY <1>5, <6>1 DEF Pushes, Holders
          <6> QED BY <5>4, <6>2, NoneIsNo
        <5>6. Awaits(c, s)'
          BY <5>3, <5>4, <5>5 DEF Awaits, Pending
        <5> QED BY <3>3, <5>6
      <4>3. CASE ~chat
        <5>1. timer' = timer /\ gone' = gone
          BY <4>3
        <5>2. ~conn[c].refresh /\ ~Awaits(c, s) /\ c \notin owed
          BY <1>1, <1>4, <2>1, <3>1, <3>3, <4>3 DEF PushOK, ClientOK, Awaits, Pending, TypeOK
        <5>3. Tip(c, s) = Now
          BY <2>1, <3>1, <4>1, <5>1, <5>2 DEF ClientOK, Shows
        <5>4. Now' = Now
          BY <5>1 DEF Now, History, deriveChatSnapshot, Entries, Recent, Shown, Ordered
        <5>5. Tip(c, s)' = Tip(c, s)
          BY <1>6, <3>1 DEF Tip
        <5> QED BY <5>3, <5>4, <5>5
      <4> QED BY <4>2, <4>3
    <3> QED BY <3>2, <3>3
  <2> QED BY <2>2, <2>3, <2>4, <2>5 DEF ClientOK
<1> QED BY <1>8, <1>10, <1>11 DEF SubscriptionsInv, ClientOK

LEMMA TimerFiresOK ==
  ASSUME SubscriptionsAssumption, SubscriptionsInv, TimerFires
  PROVE  SubscriptionsInv'
<1>1. Grows
  BY InvIs DEF TimerFires, Grows, TypeOK, Chatted
<1>2. Broadcast(TRUE) /\ timer' \in BOOLEAN /\ UNCHANGED <<reads, prepared, tab, down>> /\ log' = log
      /\ meta' = meta
  BY DEF TimerFires
<1> QED BY <1>1, <1>2, BroadcastOK

LEMMA DeleteOK ==
  ASSUME SubscriptionsAssumption, SubscriptionsInv, Delete
  PROVE  SubscriptionsInv'
<1>1. Grows
  BY InvIs DEF Delete, Grows, TypeOK, Chatted
<1>2. Broadcast(FALSE) /\ timer' \in BOOLEAN /\ gone' /\ UNCHANGED <<reads, prepared, tab, down>> /\ log' = log
      /\ meta' = meta
  BY InvIs DEF Delete, TypeOK
<1> QED BY <1>1, <1>2, BroadcastOK

LEMMA OtherChangeOK ==
  ASSUME SubscriptionsAssumption, SubscriptionsInv, OtherChange
  PROVE  SubscriptionsInv'
<1>1. Grows
  BY InvIs DEF OtherChange, Grows, TypeOK, Chatted
<1>2. Broadcast(FALSE) /\ timer' \in BOOLEAN /\ timer' = timer /\ gone' = gone
      /\ UNCHANGED <<reads, prepared, tab, down>> /\ log' = log /\ meta' = meta
  BY InvIs DEF OtherChange, TypeOK
<1> QED BY <1>1, <1>2, BroadcastOK

\* The tabs.
MaybeDecoder == Decoders \cup {None}
MaybeView == Values \cup {None}
Others(T, U, c) == U \in [Clients -> Tabs] /\ \A d \in Clients \ {c} : U[d] = T[d]

LEMMA DecoderSet ==
  ASSUME NEW T \in [Clients -> Tabs], NEW c \in Clients, NEW s \in Subs, NEW d \in MaybeDecoder
  PROVE  LET U == [T EXCEPT ![c].decoders[s] = d] IN
         /\ Others(T, U, c) /\ U[c].generation = T[c].generation /\ U[c].closed = T[c].closed
            /\ U[c].view = T[c].view
         /\ U[c].decoders[s] = d /\ \A t \in Subs \ {s} : U[c].decoders[t] = T[c].decoders[t]
<1> DEFINE ds == [T[c].decoders EXCEPT ![s] = d]
           u == [generation |-> T[c].generation, closed |-> T[c].closed, decoders |-> ds, view |-> T[c].view]
<1>1. T[c] \in Tabs /\ T[c].decoders \in [Subs -> Decoders \cup {None}]
  BY DEF Tabs
<1>2. ds \in [Subs -> Decoders \cup {None}] /\ ds[s] = d /\ \A t \in Subs \ {s} : ds[t] = T[c].decoders[t]
  BY <1>1 DEF MaybeDecoder
<1>3. [T[c] EXCEPT !.decoders[s] = d] = u
  BY <1>1 DEF Tabs
<1> HIDE DEF ds
<1>4. u \in Tabs
  BY <1>1, <1>2 DEF Tabs
<1>5. u.generation = T[c].generation /\ u.closed = T[c].closed /\ u.view = T[c].view /\ u.decoders = ds
  OBVIOUS
<1> HIDE DEF u
<1>6. [T EXCEPT ![c].decoders[s] = d] = [T EXCEPT ![c] = u]
  BY <1>3
<1> QED BY <1>2, <1>4, <1>5, <1>6 DEF Others

LEMMA ViewSet ==
  ASSUME NEW T \in [Clients -> Tabs], NEW c \in Clients, NEW s \in Subs, NEW v \in MaybeView
  PROVE  LET U == [T EXCEPT ![c].view[s] = v] IN
         /\ Others(T, U, c) /\ U[c].generation = T[c].generation /\ U[c].closed = T[c].closed
         /\ U[c].decoders = T[c].decoders
         /\ U[c].view[s] = v /\ \A t \in Subs \ {s} : U[c].view[t] = T[c].view[t]
<1> DEFINE vs == [T[c].view EXCEPT ![s] = v]
           u == [generation |-> T[c].generation, closed |-> T[c].closed, decoders |-> T[c].decoders, view |-> vs]
<1>1. T[c] \in Tabs /\ T[c].view \in [Subs -> Values \cup {None}]
  BY DEF Tabs
<1>2. vs \in [Subs -> Values \cup {None}] /\ vs[s] = v /\ \A t \in Subs \ {s} : vs[t] = T[c].view[t]
  BY <1>1 DEF MaybeView
<1>3. [T[c] EXCEPT !.view[s] = v] = u
  BY <1>1 DEF Tabs
<1> HIDE DEF vs
<1>4. u \in Tabs
  BY <1>1, <1>2 DEF Tabs
<1>5. u.generation = T[c].generation /\ u.closed = T[c].closed /\ u.view = vs /\ u.decoders = T[c].decoders
  OBVIOUS
<1> HIDE DEF u
<1>6. [T EXCEPT ![c].view[s] = v] = [T EXCEPT ![c] = u]
  BY <1>3
<1> QED BY <1>2, <1>4, <1>5, <1>6 DEF Others

LEMMA ClosedSet ==
  ASSUME NEW T \in [Clients -> Tabs], NEW c \in Clients, NEW s \in Subs
  PROVE  LET U == [T EXCEPT ![c].closed = @ \cup {s}] IN
         /\ Others(T, U, c) /\ U[c].generation = T[c].generation /\ U[c].decoders = T[c].decoders
            /\ U[c].view = T[c].view
         /\ U[c].closed = T[c].closed \cup {s}
<1> DEFINE cs == T[c].closed \cup {s}
           u == [generation |-> T[c].generation, closed |-> cs, decoders |-> T[c].decoders, view |-> T[c].view]
<1>1. T[c] \in Tabs /\ cs \in SUBSET Subs
  BY DEF Tabs
<1> HIDE DEF cs
<1>3. [T[c] EXCEPT !.closed = cs] = u
  BY <1>1 DEF Tabs
<1>4. u \in Tabs
  BY <1>1 DEF Tabs
<1>5. u.generation = T[c].generation /\ u.closed = cs /\ u.view = T[c].view /\ u.decoders = T[c].decoders
  OBVIOUS
<1> HIDE DEF u
<1>6. [T EXCEPT ![c].closed = @ \cup {s}] = [T EXCEPT ![c] = u]
  BY <1>3 DEF cs
<1> QED BY <1>4, <1>5, <1>6 DEF Others, cs

LEMMA OpenedSet ==
  ASSUME NEW T \in [Clients -> Tabs], NEW c \in Clients, NEW n \in Nat \ {0},
         NEW ds \in [Subs -> Decoders \cup {None}]
  PROVE  LET U == [T EXCEPT ![c].generation = n, ![c].decoders = ds] IN
         /\ Others(T, U, c) /\ U[c].generation = n /\ U[c].closed = T[c].closed /\ U[c].view = T[c].view
         /\ U[c].decoders = ds
<1> DEFINE u == [generation |-> n, closed |-> T[c].closed, decoders |-> T[c].decoders, view |-> T[c].view]
           w == [generation |-> n, closed |-> T[c].closed, decoders |-> ds, view |-> T[c].view]
           V == [T EXCEPT ![c] = u]
<1>1. T[c] \in Tabs /\ [T[c] EXCEPT !.generation = n] = u
  BY DEF Tabs
<1>2. u \in Tabs /\ w \in Tabs /\ [u EXCEPT !.decoders = ds] = w
  BY <1>1 DEF Tabs
<1>3. w.generation = n /\ w.closed = T[c].closed /\ w.view = T[c].view /\ w.decoders = ds
  OBVIOUS
<1>4. [T EXCEPT ![c].generation = n, ![c].decoders = ds] = [[T EXCEPT ![c].generation = n] EXCEPT ![c].decoders = ds]
  BY Zenon
<1> HIDE DEF u, w
<1>5. [T EXCEPT ![c].generation = n] = V
  BY <1>1
<1>6. V[c] = u /\ V \in [Clients -> Tabs] /\ \A d \in Clients \ {c} : V[d] = T[d]
  BY <1>2
<1> HIDE DEF V
<1>7. [V EXCEPT ![c].decoders = ds] = [V EXCEPT ![c] = w]
  BY <1>2, <1>6
<1> QED BY <1>2, <1>3, <1>4, <1>5, <1>6, <1>7 DEF Others

\* The reads nobody waits for any more.
LEMMA ForgetIs ==
  ASSUME TypeOK, Forget(conn'), log' = log, meta' = meta, gone' = gone
  PROVE  /\ Held' /\ reads' \in [Holders -> [done : BOOLEAN, upTo : 0..Len(log')]]
         /\ prepared' \in [Caches -> Past' \cup {None}]
         /\ \A k \in Holders : ~Unused(conn', k) => reads'[k] = reads[k]
            /\ (k \in Caches => prepared'[k] = prepared[k])
         /\ \A k \in Holders : reads'[k] = reads[k] \/ reads'[k] = NoRead
<1>1. reads \in [Holders -> [done : BOOLEAN, upTo : 0..Len(log)]] /\ prepared \in [Caches -> Past \cup {None}]
      /\ Len(log) \in Nat
  BY DEF TypeOK, Chatted
<1>2. reads' = [k \in Holders |-> IF Unused(conn', k) THEN NoRead ELSE reads[k]]
  BY <1>1 DEF Forget
<1>3. prepared' = [k \in Caches |-> IF Unused(conn', k) THEN None ELSE prepared[k]]
  BY DEF Forget
<1>4. NoRead \in [done : BOOLEAN, upTo : 0..Len(log)]
  BY <1>1 DEF NoRead
<1>5. Past' = Past
  BY DEF Past, Snap, History, Entries, Recent, Shown, Ordered
<1>6. reads' \in [Holders -> [done : BOOLEAN, upTo : 0..Len(log')]]
  BY <1>1, <1>2, <1>4
<1>7. prepared' \in [Caches -> Past' \cup {None}]
  BY <1>1, <1>3, <1>5
<1>8. Caches \subseteq Holders
  BY DEF Holders
<1>9. Held'
  BY <1>2, <1>3, <1>8 DEF Held
<1> QED BY <1>2, <1>3, <1>6, <1>7, <1>8, <1>9

\* What a holder of a read is of use to, a connection's own push to that connection alone.
LEMMA OwnIs ==
  ASSUME SubscriptionsAssumption, SubscriptionsInv, NEW c \in Clients, Connected(c),
         conn[c].push = None \/ conn[c].push.slot # c
  PROVE  Unused(conn, c) /\ c \in Holders /\ c \notin Caches /\ reads[c] = NoRead
<1>1. c \in Holders /\ c \notin Caches
  BY NoneIsNo DEF Holders
<1>2. Unused(conn, c)
  <2> SUFFICES ASSUME NEW d \in UsersOf(conn, c)
               PROVE  FALSE
    BY DEF Unused
  <2>1. d \in Clients /\ Connected(d) /\ conn[d].push # None /\ conn[d].push.slot = c
    BY DEF UsersOf, Connected
  <2>2. conn[d].push.slot \in Caches \cup {d}
    BY <2>1, InvIs DEF ClientOK, PushOK
  <2> QED BY <1>1, <2>1, <2>2
<1> QED BY <1>1, <1>2, InvIs DEF Held

\* A push that reads for itself, and has not read, is ahead of everything.
LEMMA UnreadAhead ==
  ASSUME SubscriptionsAssumption, NEW c \in Clients
  PROVE  /\ \A v : ~reads[c].done => AheadOf(c, v)
         /\ ~reads[c].done => Fresh(c)
BY NoneIsNo DEF AheadOf, Fresh

\* A step of one connection.
LEMMA OneOK ==
  ASSUME SubscriptionsAssumption, SubscriptionsInv, NEW c \in Clients,
         log' = log, meta' = meta, gone' = gone, timer' = timer, TypeOK', Held', ClientOK(c)',
         \A d \in Clients \ {c} :
           /\ tab'[d] = tab[d] /\ down'[d] = down[d] /\ conn'[d] = conn[d] /\ (d \in owed => d \in owed')
           /\ Connected(d) /\ conn[d].push # None =>
                /\ reads'[conn[d].push.slot] = reads[conn[d].push.slot]
                /\ conn[d].push.slot \in Caches => prepared'[conn[d].push.slot] = prepared[conn[d].push.slot]
  PROVE  SubscriptionsInv'
<1>1. TypeOK
  BY InvIs
<1>2. ASSUME NEW d \in Clients \ {c}
      PROVE  ClientOK(d)'
  BY <1>1, <1>2, InvIs, Untouched
<1> QED BY <1>2 DEF SubscriptionsInv, ClientOK

\* The others keep what they wait for when the reads of a connection are forgotten.
LEMMA OthersWait ==
  ASSUME TypeOK, Forget(conn'), log' = log, meta' = meta, gone' = gone, NEW d \in Clients, conn'[d] = conn[d],
         Connected(d), conn[d].push # None
  PROVE  /\ reads'[conn[d].push.slot] = reads[conn[d].push.slot]
         /\ conn[d].push.slot \in Caches => prepared'[conn[d].push.slot] = prepared[conn[d].push.slot]
<1>1. conn[d].push.slot \in Holders
  BY HolderIs
<1>2. ~Unused(conn', conn[d].push.slot)
  BY DEF Unused, UsersOf, Connected
<1> QED BY <1>1, <1>2, ForgetIs

\* A push of other topics keeps the invariant.
LEMMA OtherPushedOK ==
  ASSUME SubscriptionsAssumption, SubscriptionsInv, NEW c \in Clients, OtherPushed(c)
  PROVE  SubscriptionsInv'
<1>1. TypeOK /\ Held /\ Chatted /\ ClientOK(c)
  BY InvIs DEF TypeOK
<1>2. /\ Connected(c) /\ conn[c].push # None /\ conn[c].push.todo = {} /\ conn[c] \in Connections
      /\ conn' = [conn EXCEPT ![c] = Advance(conn[c], c, {})] /\ Forget(conn')
      /\ UNCHANGED <<log, meta, gone, timer, tab, down, faults>>
      /\ owed' = IF conn[c].refresh THEN owed \ {c} ELSE owed
  BY <1>1 DEF OtherPushed, TypeOK, Connected
<1>3. PICK k \in Connections : k = conn[c]
  BY <1>2
<1>4. /\ conn'[c] = Advance(k, c, {}) /\ \A d \in Clients \ {c} : conn'[d] = conn[d]
      /\ conn' = [conn EXCEPT ![c] = Advance(k, c, {})]
  BY <1>1, <1>2, <1>3 DEF TypeOK
<1>5. PICK p : /\ p = conn'[c] /\ Kept(k, p)
               /\ k.refresh /\ Topics(k) # {} => p.push = [todo |-> Topics(k), slot |-> c] /\ p.refresh = FALSE
               /\ ~k.refresh \/ Topics(k) = {} => p.push = None /\ p.refresh = FALSE
  <2> DEFINE none == {}
             p == Advance(k, c, none)
             left == Current(k, none)
  <2>1. none \in SUBSET (Subs \X Nat) /\ left = {}
    BY DEF Current
  <2>2. k.push # None
    BY <1>2, <1>3
  <2> HIDE DEF none
  <2>3. /\ Kept(k, p)
        /\ left = {} /\ k.refresh /\ Topics(k) # {} => p.push = [todo |-> Topics(k), slot |-> c]
           /\ p.refresh = FALSE
        /\ left = {} /\ (~k.refresh \/ Topics(k) = {}) => p.push = None /\ p.refresh = FALSE
    <3>1. Kept(k, p)
      BY <2>1, <2>2, AdvancedIs
    <3>2. left = {} /\ k.refresh /\ Topics(k) # {} => p.push = [todo |-> Topics(k), slot |-> c]
          /\ p.refresh = FALSE
      BY <2>1, <2>2, AdvancedIs
    <3>3. left = {} /\ (~k.refresh \/ Topics(k) = {}) => p.push = None /\ p.refresh = FALSE
      <4>1. left = {} /\ (~k.refresh \/ Topics(k) = {}) => p = Idle(k)
        BY DEF Advance
      <4> HIDE DEF p, left
      <4> QED BY <4>1, IdleIs
    <3> HIDE DEF p, left
    <3> QED BY <3>1, <3>2, <3>3
  <2>4. p = conn'[c]
    BY <1>4 DEF none
  <2> HIDE DEF p, left
  <2> QED BY <2>1, <2>3, <2>4
<1>6. p \in Connections /\ p.subs = k.subs /\ p.encoders = k.encoders /\ p.signatures = k.signatures /\ p # None
      /\ p.refresh = FALSE
      /\ (p.push # None => p.push.todo = Topics(k) /\ p.push.slot = c /\ k.refresh /\ Topics(k) # {})
      /\ (p.push = None => ~k.refresh \/ Topics(k) = {})
  <2>1. CASE k.refresh /\ Topics(k) # {}
    <3>1. p.push = [todo |-> Topics(k), slot |-> c] /\ p.refresh = FALSE
      BY <1>5, <2>1
    <3>2. [todo |-> Topics(k), slot |-> c] \in Pushes
      <4>1. Topics(k) \in SUBSET (Subs \X Nat)
        BY TopicsAre
      <4> QED BY <4>1 DEF Pushes
    <3>3. p.push # None
      BY <3>1, <3>2, NoneIsNo
    <3> QED BY <1>5, <2>1, <3>1, <3>3, NoneIsNo DEF Kept
  <2>2. CASE ~k.refresh \/ Topics(k) = {}
    BY <1>5, <2>2, NoneIsNo DEF Kept
  <2> QED BY <2>1, <2>2
<1>7. k = conn[c] /\ p = conn'[c]
  BY <1>3, <1>5
<1>8. k.push.slot # c /\ PushOK(c)
  BY <1>1, <1>2, <1>7 DEF ClientOK, PushOK
<1>9. /\ Held' /\ reads' \in [Holders -> [done : BOOLEAN, upTo : 0..Len(log')]]
      /\ prepared' \in [Caches -> Past' \cup {None}]
      /\ \A h \in Holders : reads'[h] = reads[h] \/ reads'[h] = NoRead
  BY <1>1, <1>2, ForgetIs
<1>10. Connected(c)' /\ ~reads'[c].done /\ c \in Holders /\ c \notin Caches
  BY <1>2, <1>6, <1>7, <1>8, <1>9, OwnIs DEF Connected, NoRead
<1>11. TypeOK'
  <2>1. conn' \in [Clients -> Connections \cup {None}]
    BY <1>1, <1>2, <1>4, <1>6, <1>7 DEF TypeOK
  <2>2. Chatted' /\ timer' \in BOOLEAN /\ owed' \subseteq Clients /\ tab' \in [Clients -> Tabs]
        /\ down' \in [Clients -> Seq(Mail)]
    BY <1>1, <1>2 DEF TypeOK, Chatted
  <2> QED BY <1>9, <2>1, <2>2 DEF TypeOK
<1>12. Grows
  BY <1>1, <1>2 DEF Grows, Chatted
<1>13. PushOK(c)'
  <2>1. \A t \in Topics(k) : t[2] # 0
    BY <1>2, <1>7, TopicsAre
  <2> QED BY <1>6, <1>7, <1>10, <2>1 DEF PushOK
<1>14. ASSUME NEW s \in Subs
       PROVE  SubOK(c, s)' /\ Chain(c, s)'
  <2>1. SubOK(c, s) /\ Chain(c, s) /\ down[c] \in Seq(Mail)
    BY <1>1 DEF ClientOK, TypeOK
  <2>2. /\ conn'[c].subs[s] = conn[c].subs[s] /\ conn'[c].encoders[s] = conn[c].encoders[s]
        /\ conn'[c].signatures[s] = conn[c].signatures[s]
    BY <1>6, <1>7
  <2>3. SubOK(c, s)'
    BY <1>1, <1>2, <1>12, <2>1, <2>2, SubKept
  <2>4. Awaits(c, s)' => \A v \in Past \cup {None} : (Awaits(c, s) => AheadOf(conn[c].push.slot, v))
                                                      => AheadOf(conn[c].push.slot, v)'
    <3> SUFFICES ASSUME Awaits(c, s)', NEW v
                 PROVE  AheadOf(conn[c].push.slot, v)'
      OBVIOUS
    <3>1. conn'[c].push.slot = c
      BY <1>6, <1>7 DEF Awaits, Pending
    <3> QED BY <1>10, <3>1 DEF AheadOf
  <2>5. Chain(c, s)'
    BY <1>1, <1>2, <1>12, <2>1, <2>2, <2>4, ChainKept
  <2> QED BY <2>3, <2>5
<1>15. Shows(c)'
  <2> SUFFICES ASSUME ~timer, ~gone
               PROVE  /\ conn'[c].push # None => Fresh(conn[c].push.slot)'
                      /\ c \notin owed' => \A s \in Wanted(c)' : ~Awaits(c, s)' => Tip(c, s)' = Now'
    BY <1>2 DEF Shows
  <2>1. conn'[c].push # None => Fresh(conn[c].push.slot)'
    BY <1>6, <1>7, <1>10 DEF Fresh
  <2>2. ASSUME c \notin owed', NEW s \in Wanted(c)', ~Awaits(c, s)'
        PROVE  Tip(c, s)' = Now'
    <3>1. s \in Subs /\ s \in Wanted(c)
      BY <1>2 DEF Wanted
    <3>2. <<s, conn[c].subs[s]>> \in Topics(conn[c])
      <4>1. SubOK(c, s) /\ tab[c] \in Tabs
        BY <1>1, <3>1 DEF ClientOK, TypeOK
      <4>2. conn[c].subs[s] # 0
        BY <1>2, <3>1, <4>1 DEF SubOK, Tabs, Wanted
      <4> QED BY <1>2, <1>7, <3>1, <4>2, TopicsAre
    <3>3. conn'[c].push = None
      BY <1>6, <1>7, <1>10, <2>2, <3>2 DEF Awaits, Pending
    <3>4. ~conn[c].refresh /\ c \notin owed /\ ~Awaits(c, s)
      <4>1. ~conn[c].refresh
        BY <1>6, <1>7, <3>2, <3>3
      <4> QED BY <1>2, <1>7, <2>2, <4>1 DEF Awaits, Pending
    <3>5. Tip(c, s) = Now
      BY <1>1, <1>2, <3>1, <3>4 DEF ClientOK, Shows
    <3>6. Tip(c, s)' = Tip(c, s) /\ Now' = Now
      BY <1>2, <1>6, <1>7 DEF Tip, Now, History, deriveChatSnapshot, Entries, Recent, Shown, Ordered
    <3> QED BY <3>5, <3>6
  <2> QED BY <2>1, <2>2
<1>16. ASSUME NEW d \in Clients \ {c}
       PROVE  /\ tab'[d] = tab[d] /\ down'[d] = down[d] /\ conn'[d] = conn[d] /\ (d \in owed => d \in owed')
              /\ Connected(d) /\ conn[d].push # None =>
                   /\ reads'[conn[d].push.slot] = reads[conn[d].push.slot]
                   /\ conn[d].push.slot \in Caches => prepared'[conn[d].push.slot] = prepared[conn[d].push.slot]
  BY <1>1, <1>2, <1>4, OthersWait
<1> QED BY <1>2, <1>9, <1>11, <1>13, <1>14, <1>15, <1>16, OneOK DEF ClientOK

\* What the chat shows depends on the chat alone.
LEMMA NowStays == log' = log /\ meta' = meta /\ gone' = gone => Now' = Now /\ Past' = Past
BY DEF Now, Past, Snap, History, deriveChatSnapshot, Entries, Recent, Shown, Ordered

\* The reads, whether they succeed or fail, and the loss of a connection keep the invariant.
LEMMA ReadDoneOK ==
  ASSUME SubscriptionsAssumption, SubscriptionsInv, NEW k \in Holders, ReadDone(k)
  PROVE  SubscriptionsInv'
<1>1. TypeOK /\ Held /\ Chatted
  BY InvIs DEF TypeOK
<1>2. /\ reads' = [reads EXCEPT ![k] = [done |-> TRUE, upTo |-> Len(log)]]
      /\ UNCHANGED <<log, meta, gone, timer, prepared, conn, tab, down, faults, owed>> /\ ~Unused(conn, k)
      /\ Len(log) \in Nat /\ ~reads[k].done
  BY <1>1 DEF ReadDone, Unused, Chatted
<1>3. /\ reads' \in [Holders -> [done : BOOLEAN, upTo : 0..Len(log)]]
      /\ reads'[k].done /\ reads'[k].upTo = Len(log) /\ \A h \in Holders \ {k} : reads'[h] = reads[h]
  <2> DEFINE r == [done |-> TRUE, upTo |-> Len(log)]
  <2>1. r \in [done : BOOLEAN, upTo : 0..Len(log)] /\ r.done /\ r.upTo = Len(log)
    BY <1>2
  <2> HIDE DEF r
  <2>2. reads' = [reads EXCEPT ![k] = r]
    BY <1>2 DEF r
  <2> QED BY <1>1, <2>1, <2>2 DEF TypeOK
<1>4. Past' = Past /\ Now' = Now
  BY <1>2, NowStays
<1>5. TypeOK'
  <2>1. reads' \in [Holders -> [done : BOOLEAN, upTo : 0..Len(log')]]
    BY <1>2, <1>3
  <2>2. prepared' \in [Caches -> Past' \cup {None}]
    BY <1>1, <1>2, <1>4 DEF TypeOK
  <2>3. Chatted' /\ timer' \in BOOLEAN /\ owed' \subseteq Clients
        /\ conn' \in [Clients -> Connections \cup {None}]
        /\ tab' \in [Clients -> Tabs] /\ down' \in [Clients -> Seq(Mail)]
    BY <1>1, <1>2 DEF TypeOK, Chatted
  <2> QED BY <2>1, <2>2, <2>3 DEF TypeOK
<1>6. Held'
  <2>1. \A h : Unused(conn', h) <=> Unused(conn, h)
    BY <1>2
  <2>2. \A h \in Holders : Unused(conn, h) => h # k
    BY <1>2
  <2> QED BY <1>1, <1>2, <1>3, <2>1, <2>2 DEF Held
<1>7. Grows
  BY <1>1, <1>2 DEF Grows, Chatted
<1>8. ASSUME NEW c \in Clients
      PROVE  ClientOK(c)'
  <2>1. ClientOK(c)
    BY InvIs
  <2>2. CASE Connected(c) /\ conn[c].push # None /\ conn[c].push.slot = k
    <3>1. \A v \in Past \cup {None} : AheadOf(conn[c].push.slot, v) => AheadOf(conn[c].push.slot, v)'
      <4> SUFFICES ASSUME NEW v \in Past \cup {None}, AheadOf(k, v)
                   PROVE  AheadOf(k, v)'
        BY <1>2, <2>2 DEF AheadOf
      <4>1. PICK n \in 0..Len(log) : n = Len(log)
        BY <1>2
      <4>2. v \in Snapshots => LastId(v) <= Top(n)
        BY <1>1, <4>1, PastIs, NoneIsNo
      <4>3. Top(n)' = Top(n)
        BY <1>1, <1>7, GrownIs
      <4>4. reads'[k].upTo = n
        BY <1>3, <4>1
      <4>5. reads'[k].done /\ v \in Snapshots => LastId(v) <= Top(reads[k].upTo)'
        BY <4>2, <4>3, <4>4
      <4> QED BY <1>2, <4>5 DEF AheadOf
    <3>2. PushOK(c)' /\ \A s \in Subs : SubOK(c, s)' /\ Chain(c, s)'
      BY <1>1, <1>2, <1>7, <2>1, <3>1, Watched
    <3>3. Fresh(k) => Fresh(k)'
      BY <1>2, <1>3, <1>4 DEF Fresh
    <3>4. Shows(c)'
      <4>1. Wanted(c)' = Wanted(c) /\ \A s : Awaits(c, s)' = Awaits(c, s) /\ Tip(c, s)' = Tip(c, s)
        BY <1>2 DEF Wanted, Connected, Awaits, Pending, Tip
      <4> QED BY <1>2, <1>4, <2>1, <2>2, <3>3, <4>1 DEF Shows, ClientOK, Fresh
    <3> QED BY <3>2, <3>4 DEF ClientOK
  <2>3. CASE ~(Connected(c) /\ conn[c].push # None /\ conn[c].push.slot = k)
    <3>1. Connected(c) /\ conn[c].push # None =>
            /\ reads'[conn[c].push.slot] = reads[conn[c].push.slot]
            /\ conn[c].push.slot \in Caches => prepared'[conn[c].push.slot] = prepared[conn[c].push.slot]
      BY <1>1, <1>2, <1>3, <2>3, HolderIs
    <3> QED BY <1>1, <1>2, <2>1, <3>1, Untouched
  <2> QED BY <2>2, <2>3
<1> QED BY <1>5, <1>6, <1>8 DEF SubscriptionsInv, ClientOK

LEMMA ReadFailsOK ==
  ASSUME SubscriptionsAssumption, SubscriptionsInv, NEW k \in Holders, ReadFails(k)
  PROVE  SubscriptionsInv'
<1>1. TypeOK /\ Held /\ Chatted
  BY InvIs DEF TypeOK
<1>2. /\ conn' = [c \in Clients |-> IF c \in UsersOf(conn, k) THEN Idle(conn[c]) ELSE conn[c]]
      /\ owed' = owed \cup UsersOf(conn, k) /\ Forget(conn')
      /\ UNCHANGED <<log, meta, gone, timer, tab, down>>
  BY DEF ReadFails
<1>3. /\ Held' /\ reads' \in [Holders -> [done : BOOLEAN, upTo : 0..Len(log')]]
      /\ prepared' \in [Caches -> Past' \cup {None}]
  BY <1>1, <1>2, ForgetIs
<1>4. ASSUME NEW c \in UsersOf(conn, k)
      PROVE  /\ c \in Clients /\ Connected(c) /\ conn[c].push # None /\ conn[c] \in Connections
             /\ Kept(conn[c], conn'[c]) /\ conn'[c].push = None /\ conn'[c].refresh = FALSE /\ Connected(c)'
  <2>1. c \in Clients /\ Connected(c) /\ conn[c].push # None /\ conn[c] \in Connections
    BY <1>1 DEF UsersOf, TypeOK, Connected
  <2>2. conn'[c] = Idle(conn[c])
    BY <1>2, <2>1
  <2>3. Kept(conn[c], conn'[c]) /\ conn'[c].push = None /\ conn'[c].refresh = FALSE
    BY <2>1, <2>2, IdleIs
  <2> QED BY <2>1, <2>3, NoneIsNo DEF Kept, Connected
<1>5. \A c \in Clients : c \notin UsersOf(conn, k) => conn'[c] = conn[c]
  BY <1>2
<1>6. TypeOK'
  <2>1. conn' \in [Clients -> Connections \cup {None}]
    <3>1. \A c \in Clients : conn'[c] \in Connections \cup {None}
      BY <1>1, <1>4, <1>5 DEF TypeOK, Kept
    <3> QED BY <1>2, <3>1
  <2>2. Chatted' /\ timer' \in BOOLEAN /\ owed' \subseteq Clients /\ tab' \in [Clients -> Tabs]
        /\ down' \in [Clients -> Seq(Mail)]
    BY <1>1, <1>2 DEF TypeOK, Chatted, UsersOf
  <2> QED BY <1>3, <2>1, <2>2 DEF TypeOK
<1>7. Grows
  BY <1>1, <1>2 DEF Grows, Chatted
<1>8. ASSUME NEW c \in Clients
      PROVE  ClientOK(c)'
  <2>1. ClientOK(c)
    BY InvIs
  <2>2. CASE c \in UsersOf(conn, k)
    <3>1. PushOK(c)'
      BY <1>4, <2>2 DEF PushOK
    <3>2. Shows(c)'
      BY <1>2, <1>4, <2>2 DEF Shows
    <3>3. ASSUME NEW s \in Subs
          PROVE  SubOK(c, s)' /\ Chain(c, s)'
      <4>1. SubOK(c, s) /\ Chain(c, s) /\ down[c] \in Seq(Mail)
        BY <1>1, <2>1 DEF ClientOK, TypeOK
      <4>2. /\ Connected(c) /\ conn'[c].subs[s] = conn[c].subs[s] /\ conn'[c].encoders[s] = conn[c].encoders[s]
            /\ conn'[c].signatures[s] = conn[c].signatures[s]
        BY <1>4, <2>2 DEF Kept
      <4>3. ~Awaits(c, s)'
        BY <1>4, <2>2 DEF Awaits, Pending
      <4>4. SubOK(c, s)'
        BY <1>1, <1>2, <1>7, <4>1, <4>2, SubKept
      <4>5. Chain(c, s)'
        BY <1>1, <1>2, <1>7, <4>1, <4>2, <4>3, ChainKept
      <4> QED BY <4>4, <4>5
    <3> QED BY <3>1, <3>2, <3>3 DEF ClientOK
  <2>3. CASE c \notin UsersOf(conn, k)
    <3>1. conn'[c] = conn[c]
      BY <1>5, <2>3
    <3>2. Connected(c) /\ conn[c].push # None =>
            /\ reads'[conn[c].push.slot] = reads[conn[c].push.slot]
            /\ conn[c].push.slot \in Caches => prepared'[conn[c].push.slot] = prepared[conn[c].push.slot]
      BY <1>1, <1>2, <3>1, OthersWait
    <3> QED BY <1>1, <1>2, <2>1, <3>1, <3>2, Untouched
  <2> QED BY <2>2, <2>3
<1> QED BY <1>3, <1>6, <1>8 DEF SubscriptionsInv, ClientOK

LEMMA DisconnectOK ==
  ASSUME SubscriptionsAssumption, SubscriptionsInv, NEW c \in Clients, Disconnect(c)
  PROVE  SubscriptionsInv'
<1>1. TypeOK /\ Held /\ Chatted /\ ClientOK(c)
  BY InvIs DEF TypeOK
<1>2. /\ conn' = [conn EXCEPT ![c] = None] /\ down' = [down EXCEPT ![c] = <<>>] /\ owed' = owed \ {c}
         /\ Forget(conn')
      /\ UNCHANGED <<log, meta, gone, timer, tab>>
  BY DEF Disconnect
<1>3. /\ Held' /\ reads' \in [Holders -> [done : BOOLEAN, upTo : 0..Len(log')]]
      /\ prepared' \in [Caches -> Past' \cup {None}]
  BY <1>1, <1>2, ForgetIs
<1>4. conn'[c] = None /\ ~Connected(c)' /\ down'[c] = <<>> /\ \A d \in Clients \ {c} : conn'[d] = conn[d]
      /\ down'[d] = down[d]
  BY <1>1, <1>2 DEF TypeOK, Connected
<1>5. TypeOK'
  <2>1. conn' \in [Clients -> Connections \cup {None}]
    BY <1>1, <1>2 DEF TypeOK
  <2>2. down' \in [Clients -> Seq(Mail)]
    <3>1. <<>> \in Seq(Mail)
      OBVIOUS
    <3> QED BY <1>1, <1>2, <3>1 DEF TypeOK
  <2>3. Chatted' /\ timer' \in BOOLEAN /\ owed' \subseteq Clients /\ tab' \in [Clients -> Tabs]
    BY <1>1, <1>2 DEF TypeOK, Chatted
  <2> QED BY <1>3, <2>1, <2>2, <2>3 DEF TypeOK
<1>6. ClientOK(c)'
  <2>1. PushOK(c)' /\ Shows(c)' /\ \A s \in Subs : Chain(c, s)'
    BY <1>4 DEF PushOK, Shows, Chain
  <2>2. ASSUME NEW s \in Subs
        PROVE  SubOK(c, s)'
    <3>1. SubOK(c, s) /\ Past' = Past
      BY <1>1, <1>2, NowStays DEF ClientOK
    <3>2. DOMAIN down'[c] = {}
      BY <1>4
    <3> QED BY <1>2, <1>4, <3>1, <3>2 DEF SubOK
  <2> QED BY <2>1, <2>2 DEF ClientOK
<1>7. ASSUME NEW d \in Clients \ {c}
      PROVE  /\ tab'[d] = tab[d] /\ down'[d] = down[d] /\ conn'[d] = conn[d] /\ (d \in owed => d \in owed')
             /\ Connected(d) /\ conn[d].push # None =>
                  /\ reads'[conn[d].push.slot] = reads[conn[d].push.slot]
                  /\ conn[d].push.slot \in Caches => prepared'[conn[d].push.slot] = prepared[conn[d].push.slot]
  BY <1>1, <1>2, <1>4, OthersWait
<1> QED BY <1>2, <1>3, <1>5, <1>6, <1>7, OneOK

\* An unsubscription keeps the invariant: the frames still on their way find no decoder.
LEMMA UnsubscribeOK ==
  ASSUME SubscriptionsAssumption, SubscriptionsInv, NEW c \in Clients, NEW s \in Subs, Unsubscribe(c, s)
  PROVE  SubscriptionsInv'
<1>1. TypeOK /\ Held /\ Chatted /\ ClientOK(c) /\ PushOK(c) /\ tab \in [Clients -> Tabs]
  BY InvIs DEF TypeOK, ClientOK
<1>2. /\ tab' = [tab EXCEPT ![c].decoders[s] = None, ![c].view[s] = None, ![c].closed = @ \cup {s}]
      /\ conn' = [conn EXCEPT ![c] = IF @ = None THEN None ELSE HandleUnsubscribe(@, s)]
      /\ UNCHANGED <<log, meta, gone, timer, reads, prepared, down, faults, owed>>
  BY DEF Unsubscribe
<1>3. /\ Others(tab, tab', c) /\ tab'[c].generation = tab[c].generation
      /\ tab'[c].closed = tab[c].closed \cup {s} /\ tab'[c].view[s] = None /\ tab'[c].decoders[s] = None
      /\ \A t \in Subs \ {s} : tab'[c].view[t] = tab[c].view[t] /\ tab'[c].decoders[t] = tab[c].decoders[t]
  <2>0. PICK none : none \in MaybeDecoder /\ none \in MaybeView /\ none = None
    BY DEF MaybeDecoder, MaybeView
  <2> DEFINE T == [tab EXCEPT ![c].decoders[s] = none]
             X == [T EXCEPT ![c].view[s] = none]
             V == [X EXCEPT ![c].closed = @ \cup {s}]
  <2>1. tab' = V
    BY <1>2, <2>0, Zenon
  <2>2. /\ Others(tab, T, c) /\ T[c].generation = tab[c].generation /\ T[c].closed = tab[c].closed
        /\ T[c].view = tab[c].view /\ T[c].decoders[s] = none
        /\ \A t \in Subs \ {s} : T[c].decoders[t] = tab[c].decoders[t]
    <3>1. none \in MaybeDecoder /\ tab \in [Clients -> Tabs]
      BY <1>1, <2>0
    <3>2. Others(tab, T, c)
      BY <3>1, DecoderSet
    <3>3. T[c].generation = tab[c].generation /\ T[c].closed = tab[c].closed /\ T[c].view = tab[c].view
      BY <3>1, DecoderSet
    <3>4. T[c].decoders[s] = none
      BY <3>1 DEF Tabs
    <3>5. \A t \in Subs \ {s} : T[c].decoders[t] = tab[c].decoders[t]
      BY <3>1, DecoderSet
    <3> QED BY <3>2, <3>3, <3>4, <3>5
  <2> HIDE DEF T
  <2>3. /\ Others(T, X, c) /\ X[c].generation = T[c].generation /\ X[c].closed = T[c].closed
        /\ X[c].decoders = T[c].decoders /\ X[c].view[s] = none
        /\ \A t \in Subs \ {s} : X[c].view[t] = T[c].view[t]
    BY <2>0, <2>2, ViewSet DEF Others
  <2> HIDE DEF X
  <2>4. /\ Others(X, V, c) /\ V[c].generation = X[c].generation /\ V[c].decoders = X[c].decoders
        /\ V[c].view = X[c].view /\ V[c].closed = X[c].closed \cup {s}
    BY <2>3, ClosedSet DEF Others
  <2> HIDE DEF V
  <2> QED BY <2>0, <2>1, <2>2, <2>3, <2>4 DEF Others
<1>4. (~Connected(c) => ~Connected(c)' /\ conn'[c] = None) /\ \A d \in Clients \ {c} : conn'[d] = conn[d]
  BY <1>1, <1>2 DEF TypeOK, Connected
<1>5. Connected(c) =>
        /\ conn'[c] \in Connections /\ Connected(c)' /\ conn'[c].push = conn[c].push
           /\ conn'[c].refresh = conn[c].refresh
        /\ conn'[c].subs[s] = 0 /\ conn'[c].encoders[s] = None /\ conn'[c].signatures[s] = None
        /\ \A t \in Subs \ {s} : /\ conn'[c].subs[t] = conn[c].subs[t] /\ conn'[c].encoders[t] = conn[c].encoders[t]
                                /\ conn'[c].signatures[t] = conn[c].signatures[t]
  <2> SUFFICES ASSUME Connected(c)
               PROVE  /\ conn'[c] \in Connections /\ Connected(c)' /\ conn'[c].push = conn[c].push
                      /\ conn'[c].refresh = conn[c].refresh
                      /\ conn'[c].subs[s] = 0 /\ conn'[c].encoders[s] = None /\ conn'[c].signatures[s] = None
                      /\ \A t \in Subs \ {s} : /\ conn'[c].subs[t] = conn[c].subs[t]
                                              /\ conn'[c].encoders[t] = conn[c].encoders[t]
                                              /\ conn'[c].signatures[t] = conn[c].signatures[t]
    OBVIOUS
  <2>1. PICK k \in Connections : k = conn[c]
    BY <1>1 DEF TypeOK, Connected
  <2>0. PICK zero \in Nat : zero = 0
    OBVIOUS
  <2>2. conn'[c] = Restarted(k, s, zero)
    BY <1>1, <1>2, <2>0, <2>1 DEF TypeOK, Connected, HandleUnsubscribe
  <2>3. /\ conn'[c] \in Connections /\ conn'[c].push = k.push /\ conn'[c].refresh = k.refresh
        /\ conn'[c].subs[s] = zero /\ conn'[c].encoders[s] = None /\ conn'[c].signatures[s] = None
        /\ \A t \in Subs \ {s} : /\ conn'[c].subs[t] = k.subs[t] /\ conn'[c].encoders[t] = k.encoders[t]
                                /\ conn'[c].signatures[t] = k.signatures[t]
    BY <2>2, RestartedIs
  <2> QED BY <2>0, <2>1, <2>3, NoneIsNo DEF Connected
<1>6. TypeOK'
  <2>1. conn' \in [Clients -> Connections \cup {None}]
    <3>1. conn'[c] \in Connections \cup {None}
      BY <1>4, <1>5
    <3>2. \A d \in Clients \ {c} : conn'[d] \in Connections \cup {None}
      BY <1>1, <1>4 DEF TypeOK
    <3>3. conn' = [d \in Clients |-> conn'[d]]
      BY <1>1, <1>2 DEF TypeOK
    <3> QED BY <3>1, <3>2, <3>3
  <2>2. Past' = Past
    BY <1>2, NowStays
  <2>3. Chatted' /\ timer' \in BOOLEAN /\ owed' \subseteq Clients /\ tab' \in [Clients -> Tabs]
        /\ down' \in [Clients -> Seq(Mail)]
    BY <1>1, <1>2, <1>3 DEF TypeOK, Chatted, Others
  <2>4. reads' \in [Holders -> [done : BOOLEAN, upTo : 0..Len(log')]]
        /\ prepared' \in [Caches -> Past' \cup {None}]
    BY <1>1, <1>2, <2>2 DEF TypeOK
  <2> QED BY <2>1, <2>3, <2>4 DEF TypeOK
<1>7. Held'
  <2>1. \A k : UsersOf(conn', k) = UsersOf(conn, k)
    <3>1. \A d \in Clients : /\ conn'[d] # None <=> conn[d] # None
                             /\ conn[d] # None => conn'[d].push = conn[d].push
      BY <1>4, <1>5 DEF Connected
    <3> QED BY <3>1 DEF UsersOf
  <2> QED BY <1>1, <1>2, <2>1 DEF Held, Unused
<1>8. Grows
  BY <1>1, <1>2 DEF Grows, Chatted
<1>9. PushOK(c)'
  <2>1. CASE Connected(c)
    BY <1>1, <1>2, <1>5, <2>1 DEF PushOK
  <2>2. CASE ~Connected(c)
    BY <1>1, <1>2, <1>4, <2>2 DEF PushOK
  <2> QED BY <2>1, <2>2
<1>10. ASSUME NEW t \in Subs
       PROVE  SubOK(c, t)' /\ Chain(c, t)'
  <2>1. CASE t = s
    <3>1. SubOK(c, t)'
      BY <1>3, <1>4, <1>5, <2>1, NoneIsNo DEF SubOK
    <3> QED BY <1>3, <2>1, <3>1 DEF Chain
  <2>2. CASE t # s
    <3>1. SubOK(c, t) /\ Chain(c, t) /\ down[c] \in Seq(Mail)
      BY <1>1 DEF ClientOK, TypeOK
    <3>2. Connected(c)' => /\ Connected(c) /\ conn'[c].subs[t] = conn[c].subs[t]
                           /\ conn'[c].encoders[t] = conn[c].encoders[t]
                           /\ conn'[c].signatures[t] = conn[c].signatures[t]
      BY <1>4, <1>5, <2>2
    <3>3. t \in tab'[c].closed <=> t \in tab[c].closed
      BY <1>3, <2>2
    <3>4. SubOK(c, t)'
      BY <1>1, <1>2, <1>3, <1>8, <2>2, <3>1, <3>2, <3>3, SubKept
    <3>5. Awaits(c, t)' => \A v \in Past \cup {None} : (Awaits(c, t) => AheadOf(conn[c].push.slot, v))
                                                        => AheadOf(conn[c].push.slot, v)'
      <4> SUFFICES ASSUME Awaits(c, t)', NEW v, Awaits(c, t) => AheadOf(conn[c].push.slot, v)
                   PROVE  AheadOf(conn[c].push.slot, v)'
        OBVIOUS
      <4>1. Connected(c) /\ conn'[c].push # None /\ conn[c].push # None
            /\ conn'[c].push.slot = conn[c].push.slot
            /\ Awaits(c, t)
        BY <1>4, <1>5, <2>2 DEF Awaits, Pending
      <4>2. PICK k \in Holders : k = conn[c].push.slot
        BY <1>1, <4>1, HolderIs
      <4>3. AheadOf(k, v)'
        BY <1>1, <1>2, <1>8, <4>1, <4>2, AheadKept
      <4> QED BY <4>1, <4>2, <4>3 DEF AheadOf
    <3>6. Chain(c, t)'
      BY <1>1, <1>2, <1>3, <1>8, <2>2, <3>1, <3>2, <3>5, ChainKept
    <3> QED BY <3>4, <3>6
  <2> QED BY <2>1, <2>2
<1>11. Shows(c)'
  <2> SUFFICES ASSUME Connected(c)', ~timer, ~gone, ~conn'[c].refresh
               PROVE  /\ conn'[c].push # None => Fresh(conn[c].push.slot)'
                      /\ c \notin owed' => \A t \in Wanted(c)' : ~Awaits(c, t)' => Tip(c, t)' = Now'
    BY <1>2 DEF Shows
  <2>1. Connected(c) /\ Shows(c) /\ Now' = Now /\ conn'[c].push = conn[c].push
        /\ conn'[c].refresh = conn[c].refresh
    BY <1>1, <1>2, <1>4, <1>5, NowStays DEF ClientOK
  <2>2. conn'[c].push # None => Fresh(conn[c].push.slot)'
    BY <1>2, <2>1 DEF Shows, Fresh
  <2>3. ASSUME c \notin owed', NEW t \in Wanted(c)', ~Awaits(c, t)'
        PROVE  Tip(c, t)' = Now'
    <3>1. t \in Subs \ {s} /\ t \in Wanted(c)
      BY <1>3 DEF Wanted
    <3>2. ~Awaits(c, t) /\ Tip(c, t)' = Tip(c, t)
      BY <1>5, <2>1, <2>3, <3>1 DEF Awaits, Pending, Tip
    <3> QED BY <1>2, <2>1, <2>3, <3>1, <3>2 DEF Shows
  <2> QED BY <2>2, <2>3
<1>12. ASSUME NEW d \in Clients \ {c}
       PROVE  /\ tab'[d] = tab[d] /\ down'[d] = down[d] /\ conn'[d] = conn[d] /\ (d \in owed => d \in owed')
              /\ Connected(d) /\ conn[d].push # None =>
                   /\ reads'[conn[d].push.slot] = reads[conn[d].push.slot]
                   /\ conn[d].push.slot \in Caches => prepared'[conn[d].push.slot] = prepared[conn[d].push.slot]
  BY <1>2, <1>3, <1>4 DEF Others
<1> QED BY <1>2, <1>6, <1>7, <1>9, <1>10, <1>11, <1>12, OneOK DEF ClientOK

\* A decoder that starts.
LEMMA NewDecoderIs ==
  ASSUME NEW stream \in Nat
  PROVE  /\ NewDecoder(stream) \in Decoders /\ NewDecoder(stream).stream = stream
            /\ NewDecoder(stream).revision = 0
         /\ NewDecoder(stream).snapshot = None /\ ~NewDecoder(stream).waiting
BY DEF NewDecoder, Decoders

LEMMA Redecoded ==
  ASSUME tab \in [Clients -> Tabs], NEW c \in Clients, NEW s \in Subs, NEW d \in MaybeDecoder,
         tab' = [tab EXCEPT ![c].decoders[s] = d]
  PROVE  /\ Others(tab, tab', c) /\ tab'[c].generation = tab[c].generation /\ tab'[c].closed = tab[c].closed
         /\ tab'[c].view = tab[c].view
         /\ tab'[c].decoders[s] = d /\ \A t \in Subs \ {s} : tab'[c].decoders[t] = tab[c].decoders[t]
<1>1. Others(tab, tab', c)
  BY DecoderSet
<1>2. tab'[c].generation = tab[c].generation /\ tab'[c].closed = tab[c].closed /\ tab'[c].view = tab[c].view
  BY DecoderSet
<1>3. tab'[c].decoders[s] = d
  BY DEF Tabs
<1>4. \A t \in Subs \ {s} : tab'[c].decoders[t] = tab[c].decoders[t]
  BY DEF Tabs
<1> QED BY <1>1, <1>2, <1>3, <1>4

LEMMA PushingTopics ==
  ASSUME NEW k \in Connections, NEW slot \in Holders
  PROVE  /\ Kept(k, Pushing(k, Topics(k), slot))
         /\ Pushing(k, Topics(k), slot).push = [todo |-> Topics(k), slot |-> slot]
<1>1. PICK topics \in SUBSET (Subs \X Nat) : topics = Topics(k)
  BY TopicsAre
<1>2. Kept(k, Pushing(k, topics, slot)) /\ Pushing(k, topics, slot).push = [todo |-> topics, slot |-> slot]
  BY PushingIs
<1> QED BY <1>1, <1>2

\* What becomes of a connection on which a subscription starts.
LEMMA SubscribedIs ==
  ASSUME SubscriptionsAssumption, NEW c \in Clients, NEW k \in Connections, NEW s \in Subs, NEW stream \in Nat,
         stream # 0
  PROVE  LET p == HandleSubscribe(k, c, s, stream) IN
         /\ p \in Connections /\ p.subs[s] = stream /\ p.encoders[s] = None /\ p.signatures[s] = None
         /\ \A t \in Subs \ {s} : /\ p.subs[t] = k.subs[t] /\ p.encoders[t] = k.encoders[t]
                                 /\ p.signatures[t] = k.signatures[t]
         /\ k.push # None => p.push = k.push /\ p.refresh
         /\ k.push = None => /\ p.push # None /\ p.push.slot = c /\ p.push.todo = Topics(p) /\ p.push.todo # {}
                             /\ \A t \in p.push.todo : t[2] # 0
<1>1. PICK r : /\ r = Restarted(k, s, stream) /\ r \in Connections /\ r.push = k.push /\ r.refresh = k.refresh
               /\ r.subs[s] = stream /\ r.encoders[s] = None /\ r.signatures[s] = None
               /\ \A t \in Subs \ {s} : /\ r.subs[t] = k.subs[t] /\ r.encoders[t] = k.encoders[t]
                                       /\ r.signatures[t] = k.signatures[t]
  <2>2. PICK r : r = Restarted(k, s, stream)
    OBVIOUS
  <2>3. r \in Connections /\ r.push = k.push /\ r.refresh = k.refresh
    <3>1. Restarted(k, s, stream) \in Connections
      BY RestartedIs
    <3>2. Restarted(k, s, stream).push = k.push /\ Restarted(k, s, stream).refresh = k.refresh
      BY DEF Restarted, Connections
    <3> QED BY <2>2, <3>1, <3>2
  <2>4. r.subs[s] = stream /\ r.encoders[s] = None /\ r.signatures[s] = None
    BY <2>2, RestartedIs
  <2>5. \A t \in Subs \ {s} : /\ r.subs[t] = k.subs[t] /\ r.encoders[t] = k.encoders[t]
                             /\ r.signatures[t] = k.signatures[t]
    <3>1. r.subs = [k.subs EXCEPT ![s] = stream]
      BY <2>2 DEF Connections, Restarted
    <3>2. r.encoders = [k.encoders EXCEPT ![s] = None]
      BY <2>2 DEF Connections, Restarted
    <3>3. r.signatures = [k.signatures EXCEPT ![s] = None]
      BY <2>2 DEF Connections, Restarted
    <3> QED BY <3>1, <3>2, <3>3, ConnectionIs
  <2> QED BY <2>2, <2>3, <2>4, <2>5
<1>2. PICK chat \in BOOLEAN : chat
  OBVIOUS
<1>3. c \in Holders
  BY DEF Holders
<1>4. PICK p : p = HandleSubscribe(k, c, s, stream)
  OBVIOUS
<1>5. p = pushSnapshots(r, chat, c)
  BY <1>1, <1>2, <1>4 DEF HandleSubscribe
<1>6. /\ Kept(r, p)
      /\ r.push # None => p.push = r.push /\ p.refresh = TRUE
      /\ r.push = None /\ Topics(r) # {} => p.push = [todo |-> Topics(r), slot |-> c]
  <2>1. CASE r.push # None
    BY <1>1, <1>2, <1>5, <2>1, RefreshIs DEF pushSnapshots
  <2>2. CASE r.push = None /\ Topics(r) # {}
    <3>1. p = Pushing(r, Topics(r), c)
      BY <1>2, <1>5, <2>2 DEF pushSnapshots
    <3>2. r \in Connections
      BY <1>1
    <3> QED BY <1>3, <2>2, <3>1, <3>2, PushingTopics
  <2>3. CASE r.push = None /\ Topics(r) = {}
    <3>1. p = r
      BY <1>2, <1>5, <2>3 DEF pushSnapshots
    <3> QED BY <1>1, <2>3, <3>1 DEF Kept
  <2> QED BY <2>1, <2>2, <2>3
<1>7. /\ Topics(r) # {} /\ Topics(r) \in SUBSET (Subs \X Nat) /\ \A t \in Topics(r) : t[2] # 0
  <2>1. r \in Connections /\ r.subs[s] # 0
    BY <1>1
  <2> QED BY <2>1, TopicsAre
<1>8. r.push = None => p.push = [todo |-> Topics(r), slot |-> c]
  BY <1>2, <1>6, <1>7
<1>9. Topics(p) = Topics(r)
  BY <1>6 DEF Kept, Topics
<1>10. [todo |-> Topics(r), slot |-> c] \in Pushes
  BY <1>3, <1>7 DEF Pushes, Holders
<1>11. r.push = None => /\ p.push # None /\ p.push.slot = c /\ p.push.todo = Topics(p) /\ p.push.todo # {}
                        /\ \A t \in p.push.todo : t[2] # 0
  BY <1>7, <1>8, <1>9, <1>10, NoneIsNo
<1>12. /\ p \in Connections /\ p.subs = r.subs /\ p.encoders = r.encoders /\ p.signatures = r.signatures
       /\ r.push # None => p.push = r.push /\ p.refresh
  BY <1>6 DEF Kept
<1>13. /\ p \in Connections /\ p.subs[s] = stream /\ p.encoders[s] = None /\ p.signatures[s] = None
       /\ \A t \in Subs \ {s} : /\ p.subs[t] = k.subs[t] /\ p.encoders[t] = k.encoders[t]
                               /\ p.signatures[t] = k.signatures[t]
       /\ k.push # None => p.push = k.push /\ p.refresh
       /\ k.push = None => /\ p.push # None /\ p.push.slot = c /\ p.push.todo = Topics(p) /\ p.push.todo # {}
                           /\ \A t \in p.push.todo : t[2] # 0
  BY <1>1, <1>11, <1>12
<1> QED BY <1>4, <1>13

\* A constant way: what a stream that starts finds before it is of other subscriptions.
LEMMA StartChain ==
  ASSUME SubscriptionsAssumption, NEW c \in Clients, NEW s \in Subs, down'[c] \in Seq(Mail), Connected(c)',
         tab'[c].decoders[s] # None, tab'[c].decoders[s].revision = 0, tab'[c].decoders[s].snapshot = None,
         tab'[c].view[s] \in Past' \cup {None}, Past' \subseteq Values,
         \A i \in DOMAIN down'[c] : down'[c][i].sub # s,
         conn'[c].encoders[s] = None, conn'[c].signatures[s] = None,
         Awaits(c, s)' => AheadOf(conn[c].push.slot, tab[c].view[s])'
  PROVE  Chain(c, s)'
<1>0. PICK v, n, mail : v = tab'[c].view[s] /\ n = Len(down'[c]) /\ mail = down'[c]
  OBVIOUS
<1> DEFINE z == [revision |-> 0, snapshot |-> None, view |-> v]
           st == [i \in 0..n |-> z]
<1>1. n \in Nat /\ DOMAIN mail = 1..n
  BY <1>0
<1>2. z \in Stage /\ z.revision = 0 /\ z.snapshot = None /\ z.view = v
  BY <1>0 DEF Stage
<1> HIDE DEF z
<1>3. st \in [0..n -> Stage] /\ \A i \in 0..n : st[i] = z
  BY <1>2
<1>4. st[0] = z /\ st[n] = z /\ \A i \in 1..n : st[i - 1] = z /\ st[i] = z
  BY <1>1, <1>3
<1> HIDE DEF st
<1>5. \A i \in 1..n : Moves(st[i - 1], mail[i], st[i], s, conn'[c].subs[s])
  BY <1>0, <1>1, <1>4 DEF Moves
<1>6. Sender(c, s, z)'
  BY <1>2 DEF Sender
<1>7. Follows(c, s, st)'
  BY <1>0, <1>2, <1>3, <1>4, <1>5, <1>6 DEF Follows
<1> QED BY <1>0, <1>3, <1>7 DEF Chain

\* A subscription keeps the invariant, on a connection or before there is one.
LEMMA SubscribeOK ==
  ASSUME SubscriptionsAssumption, SubscriptionsInv, NEW c \in Clients, NEW s \in Subs, Subscribe(c, s)
  PROVE  SubscriptionsInv'
<1>1. TypeOK /\ Held /\ Chatted /\ ClientOK(c) /\ PushOK(c) /\ tab \in [Clients -> Tabs] /\ SubOK(c, s)
  BY InvIs DEF TypeOK, ClientOK
<1>2. PICK stream \in Nat : stream = tab[c].generation /\ stream # 0
  BY <1>1 DEF Tabs
<1>3. /\ tab[c].decoders[s] = None /\ s \notin tab[c].closed
      /\ tab' = [tab EXCEPT ![c].decoders[s] = NewDecoder(stream)]
      /\ Connected(c) => conn' = [conn EXCEPT ![c] = HandleSubscribe(conn[c], c, s, stream)]
         /\ owed' = PaidBy(c)
      /\ ~Connected(c) => UNCHANGED <<conn, owed>>
      /\ UNCHANGED <<log, meta, gone, timer, reads, prepared, down, faults>>
  BY <1>2 DEF Subscribe
<1>4. PICK d \in Decoders : /\ d = NewDecoder(stream) /\ d.stream = stream /\ d.revision = 0 /\ d.snapshot = None
                            /\ ~d.waiting /\ d # None /\ d \in MaybeDecoder
  BY NewDecoderIs, NoneIsNo DEF MaybeDecoder
<1>5. /\ Others(tab, tab', c) /\ tab'[c].generation = tab[c].generation
      /\ tab'[c].closed = tab[c].closed /\ tab'[c].view = tab[c].view
      /\ tab'[c].decoders[s] = d /\ \A t \in Subs \ {s} : tab'[c].decoders[t] = tab[c].decoders[t]
  <2>1. tab' = [tab EXCEPT ![c].decoders[s] = d]
    BY <1>3, <1>4
  <2>2. d \in MaybeDecoder /\ tab \in [Clients -> Tabs]
    BY <1>1, <1>4
  <2> QED BY <2>1, <2>2, Redecoded, Zenon
<1>6. (~Connected(c) => ~Connected(c)' /\ conn'[c] = None) /\ \A e \in Clients \ {c} : conn'[e] = conn[e]
  BY <1>1, <1>3 DEF TypeOK, Connected
<1>7. Connected(c) =>
        /\ conn'[c] \in Connections /\ Connected(c)' /\ conn'[c].subs[s] = stream /\ conn'[c].encoders[s] = None
        /\ conn'[c].signatures[s] = None
        /\ \A t \in Subs \ {s} : /\ conn'[c].subs[t] = conn[c].subs[t] /\ conn'[c].encoders[t] = conn[c].encoders[t]
                                /\ conn'[c].signatures[t] = conn[c].signatures[t]
        /\ conn[c].push # None => conn'[c].push = conn[c].push /\ conn'[c].refresh
        /\ conn[c].push = None
           => /\ conn'[c].push # None /\ conn'[c].push.slot = c /\ conn'[c].push.todo = Topics(conn'[c])
                                  /\ conn'[c].push.todo # {} /\ \A t \in conn'[c].push.todo : t[2] # 0
  <2> SUFFICES ASSUME Connected(c)
               PROVE  /\ conn'[c] \in Connections /\ Connected(c)' /\ conn'[c].subs[s] = stream
                      /\ conn'[c].encoders[s] = None /\ conn'[c].signatures[s] = None
                      /\ \A t \in Subs \ {s} : /\ conn'[c].subs[t] = conn[c].subs[t]
                                              /\ conn'[c].encoders[t] = conn[c].encoders[t]
                                              /\ conn'[c].signatures[t] = conn[c].signatures[t]
                      /\ conn[c].push # None => conn'[c].push = conn[c].push /\ conn'[c].refresh
                      /\ conn[c].push = None => /\ conn'[c].push # None /\ conn'[c].push.slot = c
                                                /\ conn'[c].push.todo = Topics(conn'[c])
                                                   /\ conn'[c].push.todo # {}
                                                /\ \A t \in conn'[c].push.todo : t[2] # 0
    OBVIOUS
  <2>1. PICK k \in Connections : k = conn[c]
    BY <1>1 DEF TypeOK, Connected
  <2>2. PICK p : p = HandleSubscribe(k, c, s, stream)
    OBVIOUS
  <2>3. /\ p \in Connections /\ p.subs[s] = stream /\ p.encoders[s] = None /\ p.signatures[s] = None
        /\ \A t \in Subs \ {s} : /\ p.subs[t] = k.subs[t] /\ p.encoders[t] = k.encoders[t]
                                /\ p.signatures[t] = k.signatures[t]
        /\ k.push # None => p.push = k.push /\ p.refresh
        /\ k.push = None => /\ p.push # None /\ p.push.slot = c /\ p.push.todo = Topics(p) /\ p.push.todo # {}
                            /\ \A t \in p.push.todo : t[2] # 0
    BY <1>2, <2>2, SubscribedIs
  <2>4. conn'[c] = p
    BY <1>1, <1>3, <2>1, <2>2 DEF TypeOK
  <2> QED BY <2>1, <2>3, <2>4, NoneIsNo DEF Connected
<1>8. TypeOK'
  <2>1. conn' \in [Clients -> Connections \cup {None}]
    <3>1. conn'[c] \in Connections \cup {None}
      BY <1>6, <1>7
    <3>2. \A e \in Clients \ {c} : conn'[e] \in Connections \cup {None}
      BY <1>1, <1>6 DEF TypeOK
    <3>3. conn' = [e \in Clients |-> conn'[e]]
      BY <1>1, <1>3 DEF TypeOK
    <3> QED BY <3>1, <3>2, <3>3
  <2>2. Past' = Past
    BY <1>3, NowStays
  <2>3. Chatted' /\ timer' \in BOOLEAN /\ tab' \in [Clients -> Tabs] /\ down' \in [Clients -> Seq(Mail)]
    BY <1>1, <1>3, <1>5 DEF TypeOK, Chatted, Others
  <2>4. reads' \in [Holders -> [done : BOOLEAN, upTo : 0..Len(log')]]
        /\ prepared' \in [Caches -> Past' \cup {None}]
    BY <1>1, <1>3, <2>2 DEF TypeOK
  <2>5. owed' \subseteq Clients
    BY <1>1, <1>3 DEF TypeOK, PaidBy
  <2> QED BY <2>1, <2>3, <2>4, <2>5 DEF TypeOK
<1>9. Held'
  <2>1. \A k : Unused(conn', k) => Unused(conn, k)
    <3> SUFFICES ASSUME NEW k, NEW e \in UsersOf(conn, k)
                 PROVE  e \in UsersOf(conn', k)
      BY DEF Unused
    <3>1. CASE e = c
      BY <1>7, <3>1 DEF UsersOf, Connected
    <3>2. CASE e # c
      BY <1>6, <3>2 DEF UsersOf
    <3> QED BY <3>1, <3>2
  <2> QED BY <1>1, <1>3, <2>1 DEF Held
<1>10. Grows
  BY <1>1, <1>3 DEF Grows, Chatted
<1>11. PushOK(c)'
  <2>1. CASE Connected(c) /\ conn[c].push # None
    BY <1>1, <1>3, <1>7, <2>1 DEF PushOK
  <2>2. CASE Connected(c) /\ conn[c].push = None
    BY <1>1, <1>3, <1>7, <2>2 DEF PushOK
  <2>3. CASE ~Connected(c)
    BY <1>1, <1>3, <1>6, <2>3 DEF PushOK
  <2> QED BY <2>1, <2>2, <2>3
<1>12. Connected(c) /\ conn[c].push = None => ~reads'[c].done /\ c \notin Caches
  BY <1>3, OwnIs DEF NoRead
<1>13. ASSUME NEW t \in Subs, NEW v, Connected(c), Awaits(c, t)', t # s,
              Awaits(c, t) => AheadOf(conn[c].push.slot, v)
       PROVE  AheadOf(conn[c].push.slot, v)'
  <2>1. CASE conn[c].push = None
    BY <1>7, <1>12, <1>13, <2>1 DEF AheadOf
  <2>2. CASE conn[c].push # None
    <3>1. Awaits(c, t)
      BY <1>7, <1>13, <2>2 DEF Awaits, Pending
    <3>2. PICK k \in Holders : k = conn[c].push.slot
      BY <1>1, <1>13, <2>2, HolderIs
    <3>3. AheadOf(k, v)'
      BY <1>1, <1>3, <1>10, <1>13, <3>1, <3>2, AheadKept
    <3> QED BY <1>7, <1>13, <2>2, <3>2, <3>3 DEF AheadOf
  <2> QED BY <2>1, <2>2
<1>14. Past' = Past /\ Past \subseteq Values /\ None \notin Snapshots
  BY <1>1, <1>3, NowStays, PastIs, NoneIsNo
<1>15. ASSUME NEW t \in Subs
       PROVE  SubOK(c, t)' /\ Chain(c, t)'
  <2>1. CASE t = s
    <3>1. tab'[c].view[s] = None /\ \A i \in DOMAIN down'[c] : down'[c][i].sub # s
      BY <1>1, <1>3, <1>5 DEF SubOK
    <3>2. SubOK(c, t)'
      BY <1>2, <1>3, <1>4, <1>5, <1>6, <1>7, <2>1, <3>1 DEF SubOK
    <3>3. Chain(c, t)'
      <4>1. CASE Connected(c)
        <5>1. tab'[c].decoders[s] # None /\ tab'[c].decoders[s].revision = 0
              /\ tab'[c].decoders[s].snapshot = None
          BY <1>4, <1>5
        <5>2. AheadOf(conn[c].push.slot, tab[c].view[s])'
          BY <1>14, <3>1 DEF AheadOf, Before
        <5>3. down'[c] \in Seq(Mail) /\ Connected(c)' /\ conn'[c].encoders[s] = None
              /\ conn'[c].signatures[s] = None
              /\ tab'[c].view[s] \in Past' \cup {None} /\ Past' \subseteq Values
          BY <1>1, <1>3, <1>7, <1>14, <3>1, <4>1 DEF TypeOK
        <5>4. Chain(c, s)'
          BY <3>1, <5>1, <5>2, <5>3, StartChain
        <5> QED BY <2>1, <5>4
      <4>2. CASE ~Connected(c)
        BY <1>6, <4>2 DEF Chain
      <4> QED BY <4>1, <4>2
    <3> QED BY <3>2, <3>3
  <2>2. CASE t # s
    <3>1. SubOK(c, t) /\ Chain(c, t) /\ down[c] \in Seq(Mail)
      BY <1>1 DEF ClientOK, TypeOK
    <3>2. Connected(c)' => /\ Connected(c) /\ conn'[c].subs[t] = conn[c].subs[t]
                           /\ conn'[c].encoders[t] = conn[c].encoders[t]
                           /\ conn'[c].signatures[t] = conn[c].signatures[t]
      BY <1>6, <1>7, <2>2
    <3>3. tab'[c].decoders[t] = tab[c].decoders[t]
      BY <1>5, <2>2
    <3>4. SubOK(c, t)'
      BY <1>1, <1>3, <1>5, <1>10, <3>1, <3>2, <3>3, SubKept
    <3>5. Awaits(c, t)' => \A v \in Past \cup {None} : (Awaits(c, t) => AheadOf(conn[c].push.slot, v))
                                                        => AheadOf(conn[c].push.slot, v)'
      <4>1. Awaits(c, t)' => Connected(c)
        BY <1>6 DEF Awaits, Pending
      <4> QED BY <1>13, <2>2, <4>1
    <3>6. Chain(c, t)'
      BY <1>1, <1>3, <1>5, <1>10, <3>1, <3>2, <3>3, <3>5, ChainKept
    <3> QED BY <3>4, <3>6
  <2> QED BY <2>1, <2>2
<1>16. Shows(c)'
  <2> SUFFICES ASSUME Connected(c)', ~conn'[c].refresh
               PROVE  /\ conn'[c].push # None => Fresh(conn[c].push.slot)'
                      /\ \A t \in Wanted(c)' : Awaits(c, t)'
    BY DEF Shows
  <2>1. Connected(c) /\ conn[c].push = None
    BY <1>6, <1>7
  <2>2. Fresh(conn[c].push.slot)'
    BY <1>7, <1>12, <2>1 DEF Fresh
  <2>3. ASSUME NEW t \in Wanted(c)'
        PROVE  Awaits(c, t)'
    <3>1. t \in Subs /\ tab'[c].decoders[t] # None
      BY DEF Wanted
    <3>2. SubOK(c, t)'
      BY <1>15, <3>1
    <3>3. conn'[c].subs[t] # 0
      BY <1>2, <1>5, <3>1, <3>2 DEF SubOK
    <3>4. <<t, conn'[c].subs[t]>> \in Topics(conn'[c])
      BY <1>7, <2>1, <3>1, <3>3, TopicsAre
    <3> QED BY <1>7, <2>1, <3>4 DEF Awaits, Pending
  <2> QED BY <2>2, <2>3
<1>17. ASSUME NEW e \in Clients \ {c}
       PROVE  /\ tab'[e] = tab[e] /\ down'[e] = down[e] /\ conn'[e] = conn[e] /\ (e \in owed => e \in owed')
              /\ Connected(e) /\ conn[e].push # None =>
                   /\ reads'[conn[e].push.slot] = reads[conn[e].push.slot]
                   /\ conn[e].push.slot \in Caches => prepared'[conn[e].push.slot] = prepared[conn[e].push.slot]
  BY <1>3, <1>5, <1>6 DEF Others, PaidBy
<1> QED BY <1>3, <1>8, <1>9, <1>11, <1>15, <1>16, <1>17, OneOK DEF ClientOK

\* What a new connection is after the subscriptions arrived again.
LEMMA ResentIs ==
  ASSUME SubscriptionsAssumption, NEW c \in Clients, NEW stream \in Nat, stream # 0, NEW p \in Resent(c, stream),
         NEW wanted \in SUBSET Subs, wanted = Wanted(c)
  PROVE  /\ p \in Connections /\ \A s \in Subs : p.subs[s] = IF s \in wanted THEN stream ELSE 0
         /\ \A s \in Subs : p.encoders[s] = None /\ p.signatures[s] = None
         /\ wanted = {} => p.push = None /\ ~p.refresh
         /\ wanted # {} =>
              \E first \in wanted : /\ p.push # None /\ p.push.slot = c /\ p.push.todo = {<<first, stream>>}
                                    /\ (~p.refresh => wanted = {first})
<1> DEFINE subs == [s \in Subs |-> IF s \in wanted THEN stream ELSE 0]
           nones == [s \in Subs |-> None]
           q == [subs |-> subs, encoders |-> nones, signatures |-> nones, push |-> None, refresh |-> FALSE]
<1>1. subs \in [Subs -> Nat] /\ \A s \in Subs : subs[s] = IF s \in wanted THEN stream ELSE 0
  OBVIOUS
<1>2. nones \in [Subs -> Encoders \cup {None}] /\ nones \in [Subs -> Values \cup {None}]
      /\ \A s \in Subs : nones[s] = None
  OBVIOUS
<1>3. [Connection(c) EXCEPT !.subs = [s \in Subs |-> IF s \in Wanted(c) THEN stream ELSE 0]] = q
  <2>1. [s \in Subs |-> IF s \in Wanted(c) THEN stream ELSE 0] = subs
    OBVIOUS
  <2>2. Connection(c) = [subs |-> [s \in Subs |-> 0], encoders |-> nones, signatures |-> nones, push |-> None,
                         refresh |-> FALSE]
    BY DEF Connection
  <2> HIDE DEF subs, nones
  <2>3. [Connection(c) EXCEPT !.subs = subs] = q
    <3>1. PICK zeros, no : zeros = [s \in Subs |-> 0] /\ no = FALSE
      OBVIOUS
    <3>2. Connection(c) = [subs |-> zeros, encoders |-> nones, signatures |-> nones, push |-> None, refresh |-> no]
      BY <2>2, <3>1
    <3>3. [Connection(c) EXCEPT !.subs = subs]
          = [subs |-> subs, encoders |-> nones, signatures |-> nones, push |-> None, refresh |-> no]
      BY <3>2
    <3> QED BY <3>1, <3>3
  <2> QED BY <2>1, <2>3
<1> HIDE DEF subs, nones
<1>4. q \in Connections /\ q.subs = subs /\ q.encoders = nones /\ q.signatures = nones /\ q.push = None
      /\ q.refresh = FALSE
  BY <1>1, <1>2 DEF Connections
<1> HIDE DEF q
<1>5. CASE wanted = {}
  <2>1. p = q
    BY <1>3, <1>5 DEF Resent
  <2> QED BY <1>1, <1>2, <1>4, <1>5, <2>1
<1>6. CASE wanted # {}
  <2>1. PICK first \in wanted : p = [q EXCEPT !.push = [todo |-> {<<first, stream>>}, slot |-> c], !.refresh = wanted # {first}]
    BY <1>3, <1>6 DEF Resent
  <2> DEFINE push == [todo |-> {<<first, stream>>}, slot |-> c]
  <2>2. push \in Pushes /\ push.slot = c /\ push.todo = {<<first, stream>>}
    BY DEF Pushes
  <2> HIDE DEF push
  <2>3. PICK refresh \in BOOLEAN : refresh <=> wanted # {first}
    OBVIOUS
  <2>4. p = [q EXCEPT !.push = push, !.refresh = refresh]
    <3>1. refresh = (wanted # {first})
      BY <2>3
    <3> QED BY <2>1, <3>1, Zenon DEF push
  <2>5. p = [subs |-> subs, encoders |-> nones, signatures |-> nones, push |-> push, refresh |-> refresh]
    BY <1>4, <2>4, PushAndRefresh
  <2>6. p \in Connections /\ p.subs = subs /\ p.encoders = nones /\ p.signatures = nones /\ p.push = push
        /\ p.refresh = refresh
    BY <1>1, <1>2, <2>2, <2>5 DEF Connections
  <2> QED BY <1>1, <1>2, <1>6, <2>2, <2>3, <2>6, NoneIsNo
<1> QED BY <1>5, <1>6

\* A reconnect keeps the invariant: each subscription starts a stream of its own.
LEMMA ConnectOK ==
  ASSUME SubscriptionsAssumption, SubscriptionsInv, NEW c \in Clients, Connect(c)
  PROVE  SubscriptionsInv'
<1>1. TypeOK /\ Held /\ Chatted /\ ClientOK(c) /\ PushOK(c) /\ tab \in [Clients -> Tabs]
  BY InvIs DEF TypeOK, ClientOK
<1>2. PICK stream \in Nat : stream = tab[c].generation + 1 /\ stream # 0 /\ stream \in Nat \ {0}
  BY <1>1 DEF Tabs
<1>3. PICK wanted \in SUBSET Subs : wanted = Wanted(c)
  BY DEF Wanted
<1> DEFINE ds == [s \in Subs |-> IF s \in Wanted(c) THEN resetChatStream(tab[c].decoders[s], stream) ELSE None]
<1>4. /\ ~Connected(c) /\ tab' = [tab EXCEPT ![c].generation = stream, ![c].decoders = ds]
      /\ \E resent \in Resent(c, stream) : conn' = [conn EXCEPT ![c] = resent]
      /\ UNCHANGED <<log, meta, gone, timer, reads, prepared, down, faults, owed>>
  BY <1>2, Zenon DEF Connect
<1>5. PICK d \in Decoders : /\ d = NewDecoder(stream) /\ d.stream = stream /\ d.revision = 0 /\ d.snapshot = None
                            /\ ~d.waiting /\ d # None
  BY NewDecoderIs, NoneIsNo
<1>6. ds \in [Subs -> Decoders \cup {None}] /\ \A s \in Subs : ds[s] = IF s \in wanted THEN d ELSE None
  BY <1>3, <1>5 DEF resetChatStream
<1> HIDE DEF ds
<1>7. /\ Others(tab, tab', c) /\ tab'[c].generation = stream /\ tab'[c].closed = tab[c].closed
      /\ tab'[c].view = tab[c].view /\ tab'[c].decoders = ds
  <2>1. tab' = [tab EXCEPT ![c].generation = stream, ![c].decoders = ds]
    BY <1>4
  <2> DEFINE U == [tab EXCEPT ![c].generation = stream, ![c].decoders = ds]
  <2>2. Others(tab, U, c)
    BY <1>1, <1>2, <1>6, OpenedSet
  <2>3. U[c].generation = stream
    BY <1>1, <1>2, <1>6, OpenedSet
  <2>4. U[c].closed = tab[c].closed /\ U[c].view = tab[c].view
    BY <1>1, <1>2, <1>6, OpenedSet
  <2>5. U[c].decoders = ds
    BY <1>1, <1>2, <1>6, OpenedSet
  <2> HIDE DEF U
  <2> QED BY <2>1, <2>2, <2>3, <2>4, <2>5 DEF U
<1>8. PICK p \in Resent(c, stream) : conn' = [conn EXCEPT ![c] = p]
  BY <1>4
<1>9. /\ p \in Connections /\ \A s \in Subs : p.subs[s] = IF s \in wanted THEN stream ELSE 0
      /\ \A s \in Subs : p.encoders[s] = None /\ p.signatures[s] = None
      /\ wanted = {} => p.push = None /\ ~p.refresh
      /\ wanted # {} =>
           \E first \in wanted : /\ p.push # None /\ p.push.slot = c /\ p.push.todo = {<<first, stream>>}
                                 /\ (~p.refresh => wanted = {first})
  BY <1>2, <1>3, <1>8, ResentIs
<1>10. conn'[c] = p /\ Connected(c)' /\ (\A e \in Clients \ {c} : conn'[e] = conn[e]) /\ down[c] = <<>>
       /\ conn' \in [Clients -> Connections \cup {None}]
  BY <1>1, <1>4, <1>8, <1>9, NoneIsNo DEF TypeOK, Connected, PushOK
<1>11. c \in Holders /\ c \notin Caches /\ reads'[c] = NoRead /\ ~reads'[c].done
  <2>1. c \in Holders /\ c \notin Caches
    BY NoneIsNo DEF Holders
  <2>2. Unused(conn, c)
    <3> SUFFICES ASSUME NEW e \in UsersOf(conn, c)
                 PROVE  FALSE
      BY DEF Unused
    <3>1. e \in Clients /\ Connected(e) /\ conn[e].push # None /\ conn[e].push.slot = c
      BY DEF UsersOf, Connected
    <3>2. conn[e].push.slot \in Caches \cup {e}
      BY <3>1, InvIs DEF ClientOK, PushOK
    <3> QED BY <1>4, <2>1, <3>1, <3>2
  <2> QED BY <1>1, <1>4, <2>1, <2>2 DEF Held, NoRead
<1>12. TypeOK'
  <2>1. Past' = Past
    BY <1>4, NowStays
  <2>2. Chatted' /\ timer' \in BOOLEAN /\ tab' \in [Clients -> Tabs] /\ down' \in [Clients -> Seq(Mail)]
        /\ owed' \subseteq Clients
    BY <1>1, <1>4, <1>7 DEF TypeOK, Chatted, Others
  <2>3. reads' \in [Holders -> [done : BOOLEAN, upTo : 0..Len(log')]]
        /\ prepared' \in [Caches -> Past' \cup {None}]
    BY <1>1, <1>4, <2>1 DEF TypeOK
  <2> QED BY <1>10, <2>2, <2>3 DEF TypeOK
<1>13. Held'
  <2>1. \A k : Unused(conn', k) => Unused(conn, k)
    BY <1>4, <1>10 DEF Unused, UsersOf, Connected
  <2> QED BY <1>1, <1>4, <2>1 DEF Held
<1>14. PushOK(c)'
  <2>1. CASE wanted = {}
    BY <1>9, <1>10, <2>1 DEF PushOK
  <2>2. CASE wanted # {}
    <3>1. PICK first \in wanted : p.push # None /\ p.push.slot = c /\ p.push.todo = {<<first, stream>>}
      BY <1>9, <2>2
    <3>2. \A t \in p.push.todo : t[2] # 0
      BY <1>2, <3>1
    <3>3. p.push.todo # {}
      BY <3>1
    <3> QED BY <1>10, <3>1, <3>2, <3>3 DEF PushOK
  <2> QED BY <2>1, <2>2
<1>15. Past' = Past /\ Past \subseteq Values
  BY <1>1, <1>4, NowStays, PastIs
<1>16. ASSUME NEW s \in Subs
       PROVE  SubOK(c, s)' /\ Chain(c, s)'
  <2>0. DOMAIN down'[c] = {} /\ down'[c] \in Seq(Mail)
    BY <1>1, <1>4, <1>10 DEF TypeOK
  <2>1. SubOK(c, s) /\ (tab[c].decoders[s] # None <=> s \in wanted)
    BY <1>1, <1>3 DEF ClientOK, Wanted
  <2>2. SubOK(c, s)'
    BY <1>4, <1>5, <1>6, <1>7, <1>9, <1>10, <1>15, <2>0, <2>1 DEF SubOK
  <2>3. Chain(c, s)'
    <3>1. CASE s \in wanted
      <4>1. tab'[c].decoders[s] # None /\ tab'[c].decoders[s].revision = 0
            /\ tab'[c].decoders[s].snapshot = None
        BY <1>5, <1>6, <1>7, <3>1
      <4>2. tab'[c].view[s] \in Past' \cup {None}
        BY <1>7, <1>15, <2>1 DEF SubOK
      <4>3. Awaits(c, s)' => AheadOf(conn[c].push.slot, tab[c].view[s])'
        <5>1. wanted # {} /\ conn'[c].push.slot = c
          BY <1>9, <1>10, <3>1
        <5> QED BY <1>11, <5>1 DEF AheadOf
      <4>4. conn'[c].encoders[s] = None /\ conn'[c].signatures[s] = None
        BY <1>9, <1>10
      <4>5. \A i \in DOMAIN down'[c] : down'[c][i].sub # s
        BY <2>0
      <4> QED BY <1>10, <1>15, <2>0, <4>1, <4>2, <4>3, <4>4, <4>5, StartChain
    <3>2. CASE s \notin wanted
      BY <1>6, <1>7, <3>2 DEF Chain
    <3> QED BY <3>1, <3>2
  <2> QED BY <2>2, <2>3
<1>17. Shows(c)'
  <2> SUFFICES ASSUME ~conn'[c].refresh
               PROVE  /\ conn'[c].push # None => Fresh(conn[c].push.slot)'
                      /\ \A t \in Wanted(c)' : Awaits(c, t)'
    BY DEF Shows
  <2>1. Wanted(c)' = wanted
    BY <1>5, <1>6, <1>7 DEF Wanted
  <2>2. CASE wanted = {}
    BY <1>9, <1>10, <2>1, <2>2
  <2>3. CASE wanted # {}
    <3>1. PICK first \in wanted : /\ p.push # None /\ p.push.slot = c /\ p.push.todo = {<<first, stream>>}
                                  /\ wanted = {first}
      BY <1>9, <1>10, <2>3
    <3>2. Fresh(conn[c].push.slot)'
      BY <1>10, <1>11, <3>1 DEF Fresh
    <3>3. \A t \in wanted : Awaits(c, t)'
      BY <1>9, <1>10, <3>1 DEF Awaits, Pending
    <3> QED BY <2>1, <3>2, <3>3
  <2> QED BY <2>2, <2>3
<1>18. ASSUME NEW e \in Clients \ {c}
       PROVE  /\ tab'[e] = tab[e] /\ down'[e] = down[e] /\ conn'[e] = conn[e] /\ (e \in owed => e \in owed')
              /\ Connected(e) /\ conn[e].push # None =>
                   /\ reads'[conn[e].push.slot] = reads[conn[e].push.slot]
                   /\ conn[e].push.slot \in Caches => prepared'[conn[e].push.slot] = prepared[conn[e].push.slot]
  BY <1>4, <1>7, <1>10 DEF Others
<1> QED BY <1>4, <1>12, <1>13, <1>14, <1>16, <1>17, <1>18, OneOK DEF ClientOK

\* What a decoder makes of the frame it waits for.
Applied(stream, revision, snapshot) ==
  [kind |-> "apply", decoder |-> [stream |-> stream, revision |-> revision, snapshot |-> snapshot, waiting |-> FALSE]]

\* A decoder applies a whole snapshot, and the delta that takes it from its own.
LEMMA WholeIs ==
  ASSUME NEW decoder \in Decoders, NEW revision \in Nat, revision = decoder.revision + 1, NEW v, NEW frame,
         frame = [type |-> "snapshot", data |-> v, stamp |-> [stream |-> decoder.stream, revision |-> revision]]
  PROVE  decoderReceive(decoder, frame) = Applied(decoder.stream, revision, v)
<1>1. frame.type = "snapshot" /\ frame.data = v /\ frame.stamp.stream = decoder.stream
      /\ frame.stamp.revision = revision
  OBVIOUS
<1>2. decoder.revision \in Nat /\ ~(revision <= decoder.revision)
  BY DEF Decoders
<1> QED BY <1>1, <1>2 DEF decoderReceive, Applied

LEMMA MergedIs ==
  ASSUME SubscriptionsAssumption, NEW decoder \in Decoders, ~decoder.waiting, NEW revision \in Nat,
         revision = decoder.revision + 1,
         NEW v \in Snapshots, decoder.snapshot = v, NEW w \in Snapshots, NEW frame,
         frame = [type |-> "delta", delta |-> Delta(v, w), stamp |-> [stream |-> decoder.stream, revision |-> revision],
                  base |-> decoder.revision]
  PROVE  decoderReceive(decoder, frame) = Applied(decoder.stream, revision, w)
<1>1. PICK delta : delta = Delta(v, w)
  OBVIOUS
<1>2. Applies(v, delta) /\ applyChatDelta(v, delta) = w
  BY <1>1, RoundTrip
<1>3. frame.type = "delta" /\ frame.delta = delta /\ frame.stamp.stream = decoder.stream
      /\ frame.stamp.revision = revision
      /\ frame.base = decoder.revision
  BY <1>1
<1>4. decoder.revision \in Nat /\ ~(revision <= decoder.revision) /\ v # None /\ v # Gone
  BY NoneIsNo DEF Decoders
<1> QED BY <1>2, <1>3, <1>4 DEF decoderReceive, Applied

LEMMA AppliedIs ==
  ASSUME NEW stream, NEW revision, NEW snapshot
  PROVE  LET r == Applied(stream, revision, snapshot) IN
         /\ r.kind = "apply" /\ r.decoder.stream = stream /\ r.decoder.revision = revision
         /\ r.decoder.snapshot = snapshot /\ ~r.decoder.waiting
         /\ (stream \in Nat /\ revision \in Nat /\ snapshot \in Values => r.decoder \in Decoders)
BY DEF Applied, Decoders

\* A message of a subscription the tab still has takes it to the next stage.
LEMMA ReceivedIs ==
  ASSUME SubscriptionsAssumption, SubscriptionsInv, NEW c \in Clients, Receive(c), NEW s \in Subs,
         s = Head(down[c]).sub,
         tab[c].decoders[s] # None, NEW st \in [0..Len(down[c]) -> Stage], Follows(c, s, st)
  PROVE  /\ conn' = conn /\ owed' = owed /\ Others(tab, tab', c)
         /\ tab'[c].generation = tab[c].generation /\ tab'[c].closed = tab[c].closed
         /\ \A t \in Subs \ {s} : tab'[c].decoders[t] = tab[c].decoders[t] /\ tab'[c].view[t] = tab[c].view[t]
         /\ tab'[c].decoders[s] # None /\ ~tab'[c].decoders[s].waiting
         /\ tab'[c].decoders[s].stream = tab[c].decoders[s].stream
         /\ tab'[c].decoders[s].revision = st[1].revision /\ tab'[c].decoders[s].snapshot = st[1].snapshot
         /\ tab'[c].view[s] = st[1].view /\ tab'[c].view[s] \in Past /\ Before(tab[c].view[s], tab'[c].view[s])
<1>1. TypeOK /\ Chatted /\ tab \in [Clients -> Tabs] /\ SubOK(c, s) /\ down[c] \in Seq(Mail) /\ down[c] # <<>>
      /\ Connected(c)
  BY InvIs DEF TypeOK, ClientOK, Receive
<1>2. PICK n \in Nat : n = Len(down[c]) /\ 0 \in 0..n /\ 1 \in 0..n /\ 1 \in 1..n
  BY <1>1
<1>3. PICK frame : frame = Head(down[c]).frame /\ frame = down[c][1].frame /\ down[c][1].sub = s
  BY <1>1
<1>4. PICK decoder \in Decoders : decoder = tab[c].decoders[s] /\ decoder # None
  BY <1>1 DEF Tabs
<1>5. decoder.stream = conn[c].subs[s] /\ ~decoder.waiting /\ decoder.revision \in Nat /\ decoder.stream \in Nat
  BY <1>1, <1>4 DEF SubOK, Decoders
<1>6. PICK a \in Stage, b \in Stage :
        /\ a = st[0] /\ b = st[1] /\ b.view # None /\ Before(a.view, b.view) /\ b.view \in Past
        /\ a.revision = decoder.revision /\ a.snapshot = decoder.snapshot /\ a.view = tab[c].view[s]
        /\ \/ frame = [type |-> "plain", data |-> b.view] /\ b.revision = a.revision /\ b.snapshot = a.snapshot
           \/ /\ b.revision = a.revision + 1 /\ b.snapshot = b.view
              /\ LET stamp == [stream |-> decoder.stream, revision |-> b.revision] IN
                 \/ frame = [type |-> "snapshot", data |-> b.view, stamp |-> stamp]
                 \/ /\ a.snapshot \in Snapshots /\ b.view \in Snapshots
                    /\ frame = [type |-> "delta", delta |-> Delta(a.snapshot, b.view), stamp |-> stamp,
                                base |-> a.revision]
  <2>1. st[0] \in Stage /\ st[1] \in Stage
    BY <1>2
  <2>2. Moves(st[0], down[c][1], st[1], s, decoder.stream)
    BY <1>2, <1>5 DEF Follows
  <2>3. st[1].view \in Past \cup {None} /\ st[0].revision = decoder.revision
        /\ st[0].snapshot = decoder.snapshot
        /\ st[0].view = tab[c].view[s]
    BY <1>2, <1>4 DEF Follows
  <2> QED BY <1>3, <2>1, <2>2, <2>3 DEF Moves
<1>7. b.view \in Values /\ b.revision \in Nat /\ a.revision \in Nat
  BY <1>1, <1>6, PastIs DEF Stage
<1>8. CASE frame = [type |-> "plain", data |-> b.view] /\ b.revision = a.revision /\ b.snapshot = a.snapshot
  <2>1. frame.type = "plain" /\ frame.data = b.view
    BY <1>8
  <2>2. conn' = conn /\ owed' = owed /\ tab' = [tab EXCEPT ![c].view[s] = b.view]
    BY <1>3, <1>4, <2>1 DEF Receive
  <2>3. PICK v \in MaybeView : v = b.view
    BY <1>7 DEF MaybeView
  <2> DEFINE U == [tab EXCEPT ![c].view[s] = v]
  <2>4. tab \in [Clients -> Tabs] /\ v \in MaybeView
    BY <1>1, <2>3
  <2>5. Others(tab, U, c)
    BY <2>4, ViewSet
  <2>6. U[c].generation = tab[c].generation /\ U[c].closed = tab[c].closed /\ U[c].decoders = tab[c].decoders
    BY <2>4, ViewSet
  <2>7. U[c].view[s] = v
    BY <2>4 DEF Tabs, MaybeView
  <2>8. \A t \in Subs \ {s} : U[c].view[t] = tab[c].view[t]
    BY <2>4 DEF Tabs, MaybeView
  <2>9. tab' = U
    BY <2>2, <2>3
  <2> HIDE DEF U
  <2> QED BY <1>4, <1>5, <1>6, <1>8, <2>2, <2>3, <2>5, <2>6, <2>7, <2>8, <2>9
<1>9. CASE /\ b.revision = a.revision + 1 /\ b.snapshot = b.view
           /\ LET stamp == [stream |-> decoder.stream, revision |-> b.revision] IN
              \/ frame = [type |-> "snapshot", data |-> b.view, stamp |-> stamp]
              \/ /\ a.snapshot \in Snapshots /\ b.view \in Snapshots
                 /\ frame = [type |-> "delta", delta |-> Delta(a.snapshot, b.view), stamp |-> stamp,
                             base |-> a.revision]
  <2>1. decoderReceive(decoder, frame) = Applied(decoder.stream, b.revision, b.view) /\ frame.type # "plain"
    <3>1. CASE frame = [type |-> "snapshot", data |-> b.view,
                        stamp |-> [stream |-> decoder.stream, revision |-> b.revision]]
      BY <1>6, <1>7, <1>9, <3>1, WholeIs
    <3>2. CASE /\ a.snapshot \in Snapshots /\ b.view \in Snapshots
               /\ frame = [type |-> "delta", delta |-> Delta(a.snapshot, b.view),
                           stamp |-> [stream |-> decoder.stream, revision |-> b.revision], base |-> a.revision]
      BY <1>5, <1>6, <1>7, <1>9, <3>2, MergedIs
    <3> QED BY <1>9, <3>1, <3>2
  <2>2. PICK d \in Decoders : /\ d = Applied(decoder.stream, b.revision, b.view).decoder /\ d.stream = decoder.stream
                              /\ d.revision = b.revision /\ d.snapshot = b.view /\ ~d.waiting
                                 /\ d \in MaybeDecoder
    BY <1>5, <1>7, AppliedIs DEF MaybeDecoder
  <2>3. Applied(decoder.stream, b.revision, b.view).kind = "apply"
    BY AppliedIs
  <2>4. conn' = conn /\ owed' = owed /\ tab' = [tab EXCEPT ![c].decoders[s] = d, ![c].view[s] = d.snapshot]
    BY <1>3, <1>4, <2>1, <2>2, <2>3 DEF Receive
  <2>5. PICK v \in MaybeView : v = b.view
    BY <1>7 DEF MaybeView
  <2> DEFINE U == [tab EXCEPT ![c].decoders[s] = d]
             V == [U EXCEPT ![c].view[s] = v]
  <2>6. tab' = V
    BY <2>2, <2>4, <2>5, Zenon
  <2>7. /\ Others(tab, U, c) /\ U[c].generation = tab[c].generation /\ U[c].closed = tab[c].closed
        /\ U[c].view = tab[c].view /\ U[c].decoders[s] = d
        /\ \A t \in Subs \ {s} : U[c].decoders[t] = tab[c].decoders[t]
    <3>1. d \in MaybeDecoder /\ tab \in [Clients -> Tabs]
      BY <1>1, <2>2
    <3>2. Others(tab, U, c)
      BY <3>1, DecoderSet
    <3>3. U[c].generation = tab[c].generation /\ U[c].closed = tab[c].closed /\ U[c].view = tab[c].view
      BY <3>1, DecoderSet
    <3>4. U[c].decoders[s] = d
      BY <3>1 DEF Tabs
    <3>5. \A t \in Subs \ {s} : U[c].decoders[t] = tab[c].decoders[t]
      BY <3>1 DEF Tabs
    <3> QED BY <3>2, <3>3, <3>4, <3>5
  <2> HIDE DEF U
  <2>8. /\ Others(U, V, c) /\ V[c].generation = U[c].generation /\ V[c].closed = U[c].closed
        /\ V[c].decoders = U[c].decoders /\ V[c].view[s] = v
        /\ \A t \in Subs \ {s} : V[c].view[t] = U[c].view[t]
    <3>1. U \in [Clients -> Tabs] /\ v \in MaybeView
      BY <2>5, <2>7 DEF Others
    <3>2. Others(U, V, c)
      BY <3>1, ViewSet
    <3>3. V[c].generation = U[c].generation /\ V[c].closed = U[c].closed /\ V[c].decoders = U[c].decoders
      BY <3>1, ViewSet
    <3>4. V[c].view[s] = v
      BY <3>1 DEF Tabs, MaybeView
    <3>5. \A t \in Subs \ {s} : V[c].view[t] = U[c].view[t]
      BY <3>1 DEF Tabs, MaybeView
    <3> QED BY <3>2, <3>3, <3>4, <3>5
  <2> HIDE DEF V
  <2>9. Others(tab, V, c)
    BY <2>7, <2>8 DEF Others
  <2>10. conn' = conn /\ owed' = owed /\ Others(tab, tab', c)
         /\ tab'[c].generation = tab[c].generation /\ tab'[c].closed = tab[c].closed
    BY <2>4, <2>6, <2>7, <2>8, <2>9
  <2>11. \A t \in Subs \ {s} : tab'[c].decoders[t] = tab[c].decoders[t] /\ tab'[c].view[t] = tab[c].view[t]
    BY <2>6, <2>7, <2>8
  <2>12. tab'[c].decoders[s] = d /\ tab'[c].view[s] = b.view
    BY <2>5, <2>6, <2>7, <2>8
  <2>13. d # None
    BY NoneIsNo
  <2>14. d.stream = tab[c].decoders[s].stream /\ d.revision = st[1].revision /\ d.snapshot = st[1].snapshot
         /\ ~d.waiting /\ b.view = st[1].view /\ b.view \in Past /\ Before(tab[c].view[s], b.view)
    BY <1>4, <1>6, <1>9, <2>2
  <2> QED BY <2>10, <2>11, <2>12, <2>13, <2>14
<1> QED BY <1>6, <1>8, <1>9

\* The way that is left when the first message is received.
LEMMA ShiftedChain ==
  ASSUME SubscriptionsAssumption, NEW c \in Clients, NEW s \in Subs, Chain(c, s), down[c] \in Seq(Mail),
         down[c] # <<>>,
         down'[c] = Tail(down[c]), UNCHANGED <<log, meta, gone, conn, reads, prepared>>, Past' = Past,
         tab'[c].decoders[s] # None => tab[c].decoders[s] # None,
         \A st \in [0..Len(down[c]) -> Stage] : Connected(c) /\ Follows(c, s, st) =>
            /\ tab'[c].decoders[s].revision = st[1].revision /\ tab'[c].decoders[s].snapshot = st[1].snapshot
            /\ tab'[c].view[s] = st[1].view
  PROVE  Chain(c, s)'
<1> SUFFICES ASSUME Connected(c), tab'[c].decoders[s] # None
             PROVE  Chain(c, s)'
  BY DEF Chain, Connected
<1>1. PICK st \in [0..Len(down[c]) -> Stage] : Follows(c, s, st)
  BY DEF Chain
<1>2. PICK n \in Nat : n + 1 = Len(down[c]) /\ n = Len(down'[c])
  <2>1. Len(Tail(down[c])) = Len(down[c]) - 1 /\ Len(down[c]) \in Nat /\ Len(down[c]) # 0
    OBVIOUS
  <2>2. Len(down[c]) - 1 \in Nat /\ (Len(down[c]) - 1) + 1 = Len(down[c])
    BY <2>1
  <2> QED BY <2>1, <2>2
<1>3. \A i \in 1..n : down'[c][i] = down[c][i + 1]
  BY <1>2
<1> DEFINE su == [i \in 0..n |-> st[i + 1]]
<1>4. \A i \in 0..n : i + 1 \in 0..n + 1 /\ i + 1 \in 1..n + 1
  BY <1>2
<1>5. su \in [0..n -> Stage] /\ \A i \in 0..n : su[i] = st[i + 1]
  BY <1>1, <1>2, <1>4
<1>6. su[0] = st[1] /\ su[n] = st[n + 1]
  BY <1>2, <1>5
<1> HIDE DEF su
<1>7. \A i \in 0..n : su[i].view \in Past' \cup {None}
  BY <1>1, <1>2, <1>4, <1>5 DEF Follows
<1>8. \A i \in 1..n : Moves(su[i - 1], down'[c][i], su[i], s, conn'[c].subs[s])
  <2> SUFFICES ASSUME NEW i \in 1..n
               PROVE  Moves(su[i - 1], down'[c][i], su[i], s, conn'[c].subs[s])
    OBVIOUS
  <2>1. i + 1 \in 1..n + 1 /\ i - 1 \in 0..n /\ i \in 0..n /\ (i + 1) - 1 = i /\ (i - 1) + 1 = i
    BY <1>2
  <2>2. PICK j \in 1..n + 1 : j = i + 1 /\ j - 1 = i
    BY <2>1
  <2>3. Moves(st[j - 1], down[c][j], st[j], s, conn[c].subs[s])
    BY <1>1, <1>2, <2>2 DEF Follows
  <2>4. st[j - 1] = su[i - 1] /\ st[j] = su[i] /\ down'[c][i] = down[c][j]
    BY <1>3, <1>5, <2>1, <2>2
  <2> QED BY <2>3, <2>4
<1>9. Sender(c, s, su[n])'
  <2>1. Sender(c, s, st[n + 1])
    BY <1>1, <1>2 DEF Follows
  <2> QED BY <1>6, <2>1 DEF Sender
<1>10. Awaits(c, s)' => AheadOf(conn[c].push.slot, su[n].view)'
  <2>1. Awaits(c, s) => AheadOf(conn[c].push.slot, st[n + 1].view)
    BY <1>1, <1>2 DEF Follows
  <2>2. Awaits(c, s)' <=> Awaits(c, s)
    BY DEF Awaits, Pending, Connected
  <2>3. \A k, v : AheadOf(k, v)' <=> AheadOf(k, v)
    BY DEF AheadOf, Top, LastId, Snap, History, Entries, Recent, Shown, Ordered
  <2>4. conn'[c].push.slot = conn[c].push.slot
    OBVIOUS
  <2> QED BY <1>6, <2>1, <2>2, <2>3, <2>4
<1>11. /\ su[0].revision = tab'[c].decoders[s].revision /\ su[0].snapshot = tab'[c].decoders[s].snapshot
       /\ su[0].view = tab'[c].view[s]
  BY <1>1, <1>6
<1>12. PICK m : m = Len(down'[c]) /\ m = n
  BY <1>2
<1>13. Follows(c, s, su)'
  BY <1>7, <1>8, <1>9, <1>10, <1>11, <1>12 DEF Follows
<1> QED BY <1>5, <1>12, <1>13 DEF Chain

\* A message for a subscription the tab has dropped changes nothing.
LEMMA NotReceived ==
  ASSUME NEW c \in Clients, Receive(c), NEW s, s = Head(down[c]).sub, tab[c].decoders[s] = None
  PROVE  conn' = conn /\ owed' = owed /\ tab' = tab
BY DEF Receive

\* The head of what is on its way moves only its own subscription.
LEMMA HeadMoves ==
  ASSUME NEW c \in Clients, NEW t \in Subs, down[c] \in Seq(Mail), down[c] # <<>>, t # Head(down[c]).sub,
         NEW st \in [0..Len(down[c]) -> Stage], Follows(c, t, st)
  PROVE  /\ st[1].revision = tab[c].decoders[t].revision /\ st[1].snapshot = tab[c].decoders[t].snapshot
         /\ st[1].view = tab[c].view[t]
<1>1. PICK n \in Nat : n = Len(down[c]) /\ 1 \in 1..n
  OBVIOUS
<1>2. Moves(st[0], down[c][1], st[1], t, conn[c].subs[t])
  BY <1>1 DEF Follows
<1>3. down[c][1].sub # t
  OBVIOUS
<1>4. st[1] = st[0]
  BY <1>2, <1>3 DEF Moves
<1> QED BY <1>4 DEF Follows

\* Receiving keeps the invariant: no decoder ever loses its place.
LEMMA ReceiveOK ==
  ASSUME SubscriptionsAssumption, SubscriptionsInv, NEW c \in Clients, Receive(c)
  PROVE  SubscriptionsInv'
<1>1. TypeOK /\ Held /\ Chatted /\ ClientOK(c) /\ PushOK(c) /\ tab \in [Clients -> Tabs] /\ Connected(c)
      /\ down \in [Clients -> Seq(Mail)] /\ down[c] \in Seq(Mail) /\ down[c] # <<>>
  BY InvIs DEF TypeOK, ClientOK, Receive
<1>2. PICK s \in Subs : s = Head(down[c]).sub
  <2>1. Head(down[c]) \in Mail
    BY <1>1
  <2> QED BY <2>1 DEF Mail
<1>3. down' = [down EXCEPT ![c] = Tail(@)] /\ UNCHANGED <<log, meta, gone, timer, reads, prepared, faults>>
  BY DEF Receive
<1>4. down' \in [Clients -> Seq(Mail)] /\ down'[c] = Tail(down[c])
      /\ \A d \in Clients \ {c} : down'[d] = down[d]
  BY <1>1, <1>3
<1>5. Past' = Past /\ Now' = Now
  BY <1>3, NowStays
<1>6. \A t \in Subs : SubOK(c, t) /\ Chain(c, t)
  BY <1>1 DEF ClientOK
<1>7. /\ conn' = conn /\ owed' = owed /\ Others(tab, tab', c)
      /\ tab'[c].generation = tab[c].generation /\ tab'[c].closed = tab[c].closed
      /\ \A t \in Subs \ {s} : tab'[c].decoders[t] = tab[c].decoders[t] /\ tab'[c].view[t] = tab[c].view[t]
      /\ tab[c].decoders[s] = None => tab'[c].decoders[s] = None /\ tab'[c].view[s] = tab[c].view[s]
      /\ tab[c].decoders[s] # None =>
           /\ tab'[c].decoders[s] # None /\ ~tab'[c].decoders[s].waiting
           /\ tab'[c].decoders[s].stream = tab[c].decoders[s].stream /\ tab'[c].view[s] \in Past
           /\ \A st \in [0..Len(down[c]) -> Stage] : Follows(c, s, st) =>
                /\ tab'[c].decoders[s].revision = st[1].revision
                   /\ tab'[c].decoders[s].snapshot = st[1].snapshot
                /\ tab'[c].view[s] = st[1].view
  <2>1. CASE tab[c].decoders[s] = None
    <3>1. conn' = conn /\ owed' = owed /\ tab' = tab
      BY <1>2, <2>1, NotReceived
    <3> QED BY <1>1, <2>1, <3>1 DEF Others
  <2>2. CASE tab[c].decoders[s] # None
    <3>1. PICK su \in [0..Len(down[c]) -> Stage] : Follows(c, s, su)
      BY <1>1, <1>6, <2>2 DEF Chain
    <3>2. /\ conn' = conn /\ owed' = owed /\ Others(tab, tab', c)
          /\ tab'[c].generation = tab[c].generation /\ tab'[c].closed = tab[c].closed
          /\ \A t \in Subs \ {s} : tab'[c].decoders[t] = tab[c].decoders[t] /\ tab'[c].view[t] = tab[c].view[t]
          /\ tab'[c].decoders[s] # None /\ ~tab'[c].decoders[s].waiting
          /\ tab'[c].decoders[s].stream = tab[c].decoders[s].stream /\ tab'[c].view[s] \in Past
      BY <1>2, <2>2, <3>1, ReceivedIs
    <3>3. ASSUME NEW st \in [0..Len(down[c]) -> Stage], Follows(c, s, st)
          PROVE  /\ tab'[c].decoders[s].revision = st[1].revision
                    /\ tab'[c].decoders[s].snapshot = st[1].snapshot
                 /\ tab'[c].view[s] = st[1].view
      BY <1>2, <2>2, <3>3, ReceivedIs
    <3> QED BY <2>2, <3>2, <3>3
  <2> QED BY <2>1, <2>2
<1>8. TypeOK'
  <2>1. reads' \in [Holders -> [done : BOOLEAN, upTo : 0..Len(log')]]
        /\ prepared' \in [Caches -> Past' \cup {None}]
    BY <1>1, <1>3, <1>5 DEF TypeOK
  <2>2. Chatted' /\ timer' \in BOOLEAN /\ owed' \subseteq Clients
        /\ conn' \in [Clients -> Connections \cup {None}]
        /\ tab' \in [Clients -> Tabs]
    BY <1>1, <1>3, <1>7 DEF TypeOK, Chatted, Others
  <2> QED BY <1>4, <2>1, <2>2 DEF TypeOK
<1>9. Held'
  BY <1>1, <1>3, <1>7 DEF Held
<1>10. PushOK(c)'
  BY <1>1, <1>7 DEF PushOK, Connected
<1>11. ASSUME NEW t \in Subs
       PROVE  SubOK(c, t)'
  <2>1. SubOK(c, t)
    BY <1>6
  <2>2. \A i \in DOMAIN down'[c] : i + 1 \in DOMAIN down[c] /\ down'[c][i] = down[c][i + 1]
    BY <1>1, <1>4
  <2>3. tab'[c].view[t] \in Past' \cup {None}
    BY <1>5, <1>7, <2>1 DEF SubOK
  <2>4. tab'[c].decoders[t] = None => tab[c].decoders[t] = None /\ tab'[c].view[t] = tab[c].view[t]
    BY <1>7
  <2>5. tab'[c].decoders[t] # None =>
          /\ t \notin tab'[c].closed /\ ~tab'[c].decoders[t].waiting
          /\ tab'[c].decoders[t].stream = tab'[c].generation
          /\ conn'[c].subs[t] = tab'[c].generation
    BY <1>1, <1>7, <2>1 DEF SubOK
  <2>6. tab'[c].decoders[t] = None =>
          /\ tab'[c].view[t] = None
          /\ conn'[c].subs[t] = 0 /\ conn'[c].encoders[t] = None /\ conn'[c].signatures[t] = None
          /\ t \notin tab'[c].closed => \A i \in DOMAIN down'[c] : down'[c][i].sub # t
    BY <1>1, <1>7, <2>1, <2>2, <2>4 DEF SubOK
  <2> QED BY <2>3, <2>5, <2>6 DEF SubOK
<1>12. ASSUME NEW t \in Subs
       PROVE  Chain(c, t)'
  <2>1. tab'[c].decoders[t] # None => tab[c].decoders[t] # None
    BY <1>7
  <2>2. CASE tab'[c].decoders[t] = None
    BY <2>2 DEF Chain
  <2>3. CASE tab'[c].decoders[t] # None
    <3>1. ASSUME NEW st \in [0..Len(down[c]) -> Stage], Follows(c, t, st)
          PROVE  /\ tab'[c].decoders[t].revision = st[1].revision
                    /\ tab'[c].decoders[t].snapshot = st[1].snapshot
                 /\ tab'[c].view[t] = st[1].view
      <4>1. CASE t = s
        BY <1>7, <2>1, <2>3, <3>1, <4>1
      <4>2. CASE t # s
        <5>1. /\ st[1].revision = tab[c].decoders[t].revision /\ st[1].snapshot = tab[c].decoders[t].snapshot
              /\ st[1].view = tab[c].view[t]
          BY <1>1, <1>2, <3>1, <4>2, HeadMoves
        <5> QED BY <1>7, <4>2, <5>1
      <4> QED BY <4>1, <4>2
    <3>2. UNCHANGED <<log, meta, gone, conn, reads, prepared>>
      BY <1>3, <1>7
    <3> QED BY <1>1, <1>4, <1>5, <1>6, <2>1, <3>1, <3>2, ShiftedChain
  <2> QED BY <2>2, <2>3
<1>13. Shows(c)'
  <2>1. Shows(c)
    BY <1>1 DEF ClientOK
  <2>2. Wanted(c)' = Wanted(c)
    BY <1>7 DEF Wanted
  <2>3. \A k : Fresh(k)' = Fresh(k)
    BY <1>3, <1>5 DEF Fresh
  <2>4. \A t : Awaits(c, t)' = Awaits(c, t) /\ Tip(c, t)' = Tip(c, t)
    BY <1>7 DEF Awaits, Pending, Connected, Tip
  <2> QED BY <1>3, <1>5, <1>7, <2>1, <2>2, <2>3, <2>4 DEF Shows, Connected
<1>14. \A d \in Clients \ {c} :
         /\ tab'[d] = tab[d] /\ down'[d] = down[d] /\ conn'[d] = conn[d] /\ (d \in owed => d \in owed')
         /\ Connected(d) /\ conn[d].push # None =>
              /\ reads'[conn[d].push.slot] = reads[conn[d].push.slot]
              /\ conn[d].push.slot \in Caches => prepared'[conn[d].push.slot] = prepared[conn[d].push.slot]
  BY <1>3, <1>4, <1>7 DEF Others
<1> QED BY <1>3, <1>8, <1>9, <1>10, <1>11, <1>12, <1>13, <1>14, OneOK DEF ClientOK

-----------------------------------------------------------------------------
(* What a push sends. *)

SnapshotOf(k) == IF gone THEN Gone ELSE deriveChatSnapshot(History(reads[k].upTo))
NextOf(k) == IF k \in Caches /\ prepared[k] # None THEN prepared[k] ELSE SnapshotOf(k)

\* What is sent is of the chat, not older than what is on its way, and fresh as the read.
LEMMA NextIs ==
  ASSUME SubscriptionsAssumption, TypeOK, NEW k \in Holders, gone \/ reads[k].done
  PROVE  /\ SnapshotOf(k) \in Past /\ NextOf(k) \in Past
         /\ \A v \in Past \cup {None} : AheadOf(k, v) => Before(v, SnapshotOf(k)) /\ Before(v, NextOf(k))
         /\ Fresh(k) /\ ~gone => SnapshotOf(k) = Now /\ NextOf(k) = Now
<1>1. Chatted /\ meta \in Nat /\ meta \in 0..meta /\ gone \in BOOLEAN
  BY DEF TypeOK, Chatted
<1>2. PICK n \in 0..Len(log) : n = reads[k].upTo
  BY DEF TypeOK
<1>3. ~gone => SnapshotOf(k) = Snap(n, meta)
  BY <1>1, <1>2, PastIs DEF SnapshotOf
<1>4. SnapshotOf(k) \in Past
  <2>1. CASE gone
    BY <1>1, <2>1, PastIs DEF SnapshotOf
  <2>2. CASE ~gone
    BY <1>1, <1>3, <2>2, PastIs
  <2> QED BY <2>1, <2>2
<1>5. NextOf(k) \in Past
  BY <1>4 DEF NextOf, TypeOK
<1>6. ASSUME NEW v \in Past \cup {None}, AheadOf(k, v)
      PROVE  Before(v, SnapshotOf(k))
  <2>1. CASE gone \/ v = None
    BY <2>1 DEF SnapshotOf, Before
  <2>2. CASE ~gone /\ v # None
    <3>1. v \in Past /\ v # Gone
      BY <1>1, <2>2, PastIs
    <3>2. v \in Snapshots /\ v.meta \in Nat /\ v.meta <= meta
      BY <1>1, <3>1, PastIs
    <3>3. LastId(v) <= Top(n)
      BY <1>2, <1>6, <2>2, <3>2 DEF AheadOf
    <3>4. Snap(n, meta) \in Snapshots /\ LastId(Snap(n, meta)) = Top(n) /\ Snap(n, meta).meta = meta
      BY <1>1, PastIs, TopIs
    <3>5. PICK w : w = SnapshotOf(k) /\ w = Snap(n, meta)
      BY <1>3, <2>2
    <3>6. w \in Snapshots /\ LastId(w) = Top(n) /\ w.meta = meta
      BY <3>4, <3>5
    <3>7. Before(v, w)
      BY <3>2, <3>3, <3>6 DEF Before
    <3> QED BY <3>5, <3>7
  <2> QED BY <2>1, <2>2
<1>7. ASSUME NEW v \in Past \cup {None}, AheadOf(k, v)
      PROVE  Before(v, NextOf(k))
  <2>1. CASE k \in Caches /\ prepared[k] # None
    BY <1>7, <2>1 DEF AheadOf, NextOf
  <2>2. CASE ~(k \in Caches /\ prepared[k] # None)
    BY <1>6, <1>7, <2>2 DEF NextOf
  <2> QED BY <2>1, <2>2
<1>8. Fresh(k) /\ ~gone => SnapshotOf(k) = Now
  BY <1>1, <1>2, <1>3, PastIs DEF Fresh
<1>9. Fresh(k) /\ ~gone => NextOf(k) = Now
  BY <1>8 DEF Fresh, NextOf
<1> QED BY <1>4, <1>5, <1>6, <1>7, <1>8, <1>9

\* What a cache prepares keeps it ahead and fresh for all that share it.
LEMMA AheadAfter ==
  ASSUME SubscriptionsAssumption, TypeOK, NEW k \in Holders, UNCHANGED <<log, meta, gone>>, reads'[k] = reads[k],
         k \in Caches => prepared'[k] = prepared[k] \/ ((gone \/ reads[k].done) /\ prepared'[k] = NextOf(k))
  PROVE  /\ \A v \in Past \cup {None} : AheadOf(k, v) => AheadOf(k, v)'
         /\ ~gone /\ Fresh(k) => Fresh(k)'
<1>1. \A n : Top(n)' = Top(n)
  BY DEF Top, LastId, Snap, History, Entries, Recent, Shown, Ordered
<1>2. Now' = Now
  BY NowStays
<1>3. ASSUME NEW v \in Past \cup {None}, AheadOf(k, v)
      PROVE  AheadOf(k, v)'
  <2>0. PICK n : n = reads[k].upTo
    OBVIOUS
  <2>1. reads'[k].done /\ v \in Snapshots => LastId(v) <= Top(n)' /\ reads'[k].upTo = n
    BY <1>1, <1>3, <2>0 DEF AheadOf
  <2>2. k \in Caches /\ prepared'[k] # None => Before(v, prepared'[k])
    <3>1. CASE k \in Caches /\ prepared'[k] = prepared[k]
      BY <1>3, <3>1 DEF AheadOf
    <3>2. CASE k \in Caches /\ (gone \/ reads[k].done) /\ prepared'[k] = NextOf(k)
      BY <1>3, <3>2, NextIs
    <3> QED BY <3>1, <3>2
  <2> QED BY <2>1, <2>2 DEF AheadOf
<1>4. ASSUME ~gone, Fresh(k)
      PROVE  Fresh(k)'
  <2>1. k \in Caches /\ prepared'[k] # None => prepared'[k] = Now
    BY <1>4, NextIs DEF Fresh
  <2> QED BY <1>2, <1>4, <2>1 DEF Fresh
<1> QED BY <1>3, <1>4

\* The connection after a topic, and the frame.
Same(k, s, next, snapshot) ==
  IF EncoderFor(k, s) # None THEN EncoderFor(k, s).previous = next ELSE k.signatures[s] = snapshot
Sent(k, s, next, snapshot) ==
  IF Same(k, s, next, snapshot) THEN k
  ELSE IF EncoderFor(k, s) = None THEN [k EXCEPT !.signatures[s] = snapshot]
  ELSE [k EXCEPT !.encoders[s] = [previous |-> next, revision |-> EncoderFor(k, s).revision + 1]]
FrameOf(k, s, stream, next, snapshot) ==
  IF EncoderFor(k, s) # None THEN encode(EncoderFor(k, s), stream, next) ELSE [type |-> "plain", data |-> snapshot]
ValueOf(k, s, next, snapshot) == IF EncoderFor(k, s) # None THEN next ELSE snapshot

LEMMA EncoderIs ==
  ASSUME SubscriptionsAssumption, NEW k \in Connections, NEW s \in Subs
  PROVE  /\ k.encoders[s] # None => EncoderFor(k, s) = k.encoders[s] /\ EncoderFor(k, s) \in Encoders
                                    /\ EncoderFor(k, s).previous \in Values
         /\ k.encoders[s] = None => EncoderFor(k, s) = None \/ EncoderFor(k, s) = NewEncoder
         /\ EncoderFor(k, s) # None => EncoderFor(k, s).revision \in Nat
         /\ NewEncoder.previous = None /\ NewEncoder.revision = 0 /\ NewEncoder # None
<1>1. k.encoders[s] \in Encoders \cup {None}
  BY ConnectionIs
<1>2. NewEncoder.previous = None /\ NewEncoder.revision = 0 /\ NewEncoder # None
  BY DEF NewEncoder, SubscriptionsAssumption
<1>3. \A e \in Encoders : e.previous \in Values /\ e.revision \in Nat
  BY DEF Encoders
<1> QED BY <1>1, <1>2, <1>3 DEF EncoderFor

\* What sending makes of a connection.
SendsTo(k, s, next, snapshot, p) ==
  /\ p \in Connections /\ p.subs = k.subs /\ p.push = k.push /\ p.refresh = k.refresh
  /\ \A t \in Subs \ {s} : p.encoders[t] = k.encoders[t] /\ p.signatures[t] = k.signatures[t]
  /\ Same(k, s, next, snapshot) => p = k
  /\ ~Same(k, s, next, snapshot) /\ EncoderFor(k, s) = None =>
       p.encoders[s] = None /\ k.encoders[s] = None /\ p.signatures[s] = snapshot
  /\ ~Same(k, s, next, snapshot) /\ EncoderFor(k, s) # None =>
       p.encoders[s] = [previous |-> next, revision |-> EncoderFor(k, s).revision + 1] /\ p.encoders[s] # None
  /\ IF p.encoders[s] # None THEN p.encoders[s].previous = ValueOf(k, s, next, snapshot)
     ELSE p.signatures[s] = ValueOf(k, s, next, snapshot)

LEMMA SentIs ==
  ASSUME SubscriptionsAssumption, NEW k \in Connections, NEW s \in Subs, NEW next \in Values,
         NEW snapshot \in Values
  PROVE  SendsTo(k, s, next, snapshot, Sent(k, s, next, snapshot))
<1>0. PICK p : p = Sent(k, s, next, snapshot)
  OBVIOUS
<1> SUFFICES SendsTo(k, s, next, snapshot, p)
  BY <1>0
<1>1. CASE Same(k, s, next, snapshot)
  <2>1. p = k
    BY <1>0, <1>1 DEF Sent
  <2>2. IF k.encoders[s] # None THEN k.encoders[s].previous = ValueOf(k, s, next, snapshot)
        ELSE k.signatures[s] = ValueOf(k, s, next, snapshot)
    <3>1. CASE k.encoders[s] # None
      BY <1>1, <3>1, EncoderIs DEF Same, ValueOf
    <3>2. CASE k.encoders[s] = None
      <4>1. EncoderFor(k, s) = None
        <5>1. EncoderFor(k, s) # NewEncoder
          BY <1>1, EncoderIs, NoneIsNo DEF Same
        <5> QED BY <3>2, <5>1, EncoderIs
      <4> QED BY <1>1, <3>2, <4>1 DEF Same, ValueOf
    <3> QED BY <3>1, <3>2
  <2> QED BY <1>1, <2>1, <2>2 DEF SendsTo
<1>2. CASE ~Same(k, s, next, snapshot) /\ EncoderFor(k, s) = None
  <2>1. p = [k EXCEPT !.signatures[s] = snapshot]
    BY <1>0, <1>2 DEF Sent
  <2>2. k.encoders[s] = None
    BY <1>2, EncoderIs
  <2>3. p \in Connections /\ p.subs = k.subs /\ p.encoders = k.encoders /\ p.push = k.push
        /\ p.refresh = k.refresh
    BY <2>1, SignedIs
  <2>4. p.signatures[s] = snapshot
    BY <2>1, SignedIs
  <2>5. \A t \in Subs \ {s} : p.signatures[t] = k.signatures[t]
    BY <2>1 DEF Connections
  <2> QED BY <1>2, <2>2, <2>3, <2>4, <2>5 DEF ValueOf, SendsTo
<1>3. CASE ~Same(k, s, next, snapshot) /\ EncoderFor(k, s) # None
  <2>1. PICK e \in Encoders : e = [previous |-> next, revision |-> EncoderFor(k, s).revision + 1]
        /\ e.previous = next
    <3>1. PICK n : n = EncoderFor(k, s).revision + 1
      OBVIOUS
    <3>2. n \in Nat
      BY <1>3, <3>1, EncoderIs
    <3>3. PICK e : e = [previous |-> next, revision |-> n]
      OBVIOUS
    <3>4. e \in Encoders /\ e.previous = next
      BY <3>2, <3>3 DEF Encoders
    <3> QED BY <3>1, <3>3, <3>4
  <2>2. p = [k EXCEPT !.encoders[s] = e]
    BY <1>0, <1>3, <2>1 DEF Sent
  <2>3. p \in Connections /\ p.subs = k.subs /\ p.signatures = k.signatures /\ p.push = k.push
        /\ p.refresh = k.refresh
    BY <2>2, EncodedIs
  <2>4. p.encoders[s] = e
    BY <2>2, EncodedIs
  <2>5. \A t \in Subs \ {s} : p.encoders[t] = k.encoders[t]
    BY <2>2 DEF Connections
  <2>6. e # None
    BY NoneIsNo
  <2> QED BY <1>3, <2>1, <2>3, <2>4, <2>5, <2>6 DEF ValueOf, SendsTo
<1> QED BY <1>0, <1>1, <1>2, <1>3

\* The three kinds of frames.
LEMMA PlainFrame ==
  ASSUME NEW v \in Values
  PROVE  [type |-> "plain", data |-> v] \in Frames
BY DEF Frames

LEMMA SnapshotFrame ==
  ASSUME NEW v \in Values, NEW stream \in Nat, NEW revision \in Nat
  PROVE  [type |-> "snapshot", data |-> v, stamp |-> [stream |-> stream, revision |-> revision]] \in Frames
<1>1. PICK t \in Stamps : t = [stream |-> stream, revision |-> revision]
  BY DEF Stamps
<1>2. [type |-> "snapshot", data |-> v, stamp |-> t] \in Frames
  BY DEF Frames
<1> QED BY <1>1, <1>2

LEMMA DeltaFrame ==
  ASSUME NEW v \in Snapshots, NEW w \in Snapshots, NEW stream \in Nat, NEW revision \in Nat, NEW base \in Nat
  PROVE  [type |-> "delta", delta |-> Delta(v, w), stamp |-> [stream |-> stream, revision |-> revision],
          base |-> base] \in Frames
<1>1. PICK t \in Stamps : t = [stream |-> stream, revision |-> revision]
  BY DEF Stamps
<1>2. [type |-> "delta", delta |-> Delta(v, w), stamp |-> t, base |-> base] \in Frames
  BY DEF Frames
<1> QED BY <1>1, <1>2

\* The frame takes the client from where the server had it to what is sent.
FramedAs(s, stream, value, frame, p, z) ==
  /\ frame \in Frames
  /\ \E b \in Stage :
       /\ Moves(z, [sub |-> s, frame |-> frame], b, s, stream)
       /\ b.view = value
       /\ p.encoders[s] = None => b.revision = 0 /\ b.snapshot = None /\ b.view = p.signatures[s]
       /\ p.encoders[s] # None => b.view = b.snapshot
                                  /\ p.encoders[s] = [previous |-> b.snapshot, revision |-> b.revision]

LEMMA FrameIs ==
  ASSUME SubscriptionsAssumption, NEW k \in Connections, NEW s \in Subs, NEW stream \in Nat, NEW next \in Values,
         NEW snapshot \in Values, NEW z \in Stage,
         k.encoders[s] = None => z.revision = 0 /\ z.snapshot = None,
         k.encoders[s] # None => k.encoders[s] = [previous |-> z.snapshot, revision |-> z.revision],
         ~Same(k, s, next, snapshot), Before(z.view, ValueOf(k, s, next, snapshot))
  PROVE  FramedAs(s, stream, ValueOf(k, s, next, snapshot), FrameOf(k, s, stream, next, snapshot),
                  Sent(k, s, next, snapshot), z)
<1>0. PICK p : p = Sent(k, s, next, snapshot)
  OBVIOUS
<1>1. PICK frame, m : frame = FrameOf(k, s, stream, next, snapshot) /\ m = [sub |-> s, frame |-> frame]
                      /\ m.sub = s /\ m.frame = frame
  <2>1. PICK frame : frame = FrameOf(k, s, stream, next, snapshot)
    OBVIOUS
  <2>2. PICK m : m = [sub |-> s, frame |-> frame]
    OBVIOUS
  <2>3. m.sub = s /\ m.frame = frame
    BY <2>2
  <2> QED BY <2>1, <2>2, <2>3
<1>2. z.revision \in Nat /\ next # None /\ snapshot # None
  BY NoneIsNo DEF Stage
<1>3. CASE EncoderFor(k, s) = None
  <2>1. frame = [type |-> "plain", data |-> snapshot] /\ ValueOf(k, s, next, snapshot) = snapshot
    BY <1>1, <1>3 DEF FrameOf, ValueOf
  <2>2. PICK b \in Stage : b.revision = z.revision /\ b.snapshot = z.snapshot /\ b.view = snapshot
    <3>1. [revision |-> z.revision, snapshot |-> z.snapshot, view |-> snapshot] \in Stage
      BY DEF Stage
    <3> QED BY <3>1
  <2>3. Moves(z, m, b, s, stream)
    BY <1>1, <1>2, <2>1, <2>2 DEF Moves
  <2>4. p.encoders[s] = None /\ k.encoders[s] = None /\ p.signatures[s] = snapshot
    <3>1. k.encoders[s] = None
      BY <1>3, EncoderIs
    <3>2. p = [k EXCEPT !.signatures[s] = snapshot]
      BY <1>0, <1>3 DEF Sent
    <3>3. p.encoders = k.encoders /\ p.signatures[s] = snapshot
      BY <3>2, SignedIs
    <3> QED BY <3>1, <3>3
  <2>5. frame \in Frames
    BY <2>1, PlainFrame
  <2> QED BY <1>0, <1>1, <2>1, <2>2, <2>3, <2>4, <2>5 DEF FramedAs
<1>4. CASE EncoderFor(k, s) # None
  <2>1. PICK e : e = EncoderFor(k, s) /\ e.previous = z.snapshot /\ e.revision = z.revision
    <3>1. CASE k.encoders[s] # None
      <4>1. k.encoders[s].previous = z.snapshot /\ k.encoders[s].revision = z.revision
        BY <3>1
      <4> QED BY <3>1, <4>1, EncoderIs
    <3>2. CASE k.encoders[s] = None
      BY <1>4, <3>2, EncoderIs
    <3> QED BY <3>1, <3>2
  <2>2. PICK revision \in Nat : revision = z.revision + 1 /\ revision = e.revision + 1
    BY <1>2, <2>1
  <2>3. PICK b \in Stage : b.revision = revision /\ b.snapshot = next /\ b.view = next
    <3>1. [revision |-> revision, snapshot |-> next, view |-> next] \in Stage
      BY DEF Stage
    <3> QED BY <3>1
  <2>4. frame = encode(e, stream, next) /\ ValueOf(k, s, next, snapshot) = next
    BY <1>1, <1>4, <2>1 DEF FrameOf, ValueOf
  <2>5. p.encoders[s] = [previous |-> next, revision |-> revision] /\ p.encoders[s] # None
    BY <1>0, <1>4, <2>1, <2>2, SentIs DEF SendsTo
  <2>6. frame \in Frames /\ Moves(z, m, b, s, stream)
    <3>1. CASE Gone \in {e.previous, next} \/ e.previous = None
      <4>1. frame = [type |-> "snapshot", data |-> next, stamp |-> [stream |-> stream, revision |-> revision]]
        BY <2>2, <2>4, <3>1 DEF encode
      <4>2. frame \in Frames
        BY <4>1, SnapshotFrame
      <4>3. Moves(z, m, b, s, stream)
        BY <1>1, <1>2, <2>2, <2>3, <2>4, <4>1 DEF Moves
      <4> QED BY <4>2, <4>3
    <3>2. CASE ~(Gone \in {e.previous, next} \/ e.previous = None)
      <4>1. z.snapshot \in Snapshots /\ next \in Snapshots
        BY <2>1, <3>2 DEF Stage, Values
      <4>2. frame = [type |-> "delta", delta |-> Delta(z.snapshot, next),
                     stamp |-> [stream |-> stream, revision |-> revision], base |-> z.revision]
        BY <2>1, <2>2, <2>4, <3>2 DEF encode
      <4>3. frame \in Frames
        BY <1>2, <4>1, <4>2, DeltaFrame
      <4>4. Moves(z, m, b, s, stream)
        BY <1>1, <1>2, <2>2, <2>3, <2>4, <4>1, <4>2 DEF Moves
      <4> QED BY <4>3, <4>4
    <3> QED BY <3>1, <3>2
  <2> QED BY <1>0, <1>1, <2>3, <2>4, <2>5, <2>6 DEF FramedAs
<1> QED BY <1>3, <1>4

\* A step of a push, in terms of what it sends.
Parts(c, s, stream, k, slot, next, snapshot) ==
  /\ gone \/ reads[slot].done
  /\ conn' = [conn EXCEPT ![c] = Advance(IF k.subs[s] = stream THEN Sent(k, s, next, snapshot) ELSE k, c,
                                         k.push.todo \ {<<s, stream>>})]
  /\ down' = IF Same(k, s, next, snapshot) \/ k.subs[s] # stream THEN down
             ELSE [down EXCEPT ![c] = Append(@, [sub |-> s, frame |-> FrameOf(k, s, stream, next, snapshot)])]
  /\ prepared' = [d \in Caches |->
       IF Unused(conn', d) THEN None
       ELSE IF d = slot /\ EncoderFor(k, s) # None /\ k.subs[s] = stream THEN next ELSE prepared[d]]
  /\ reads' = [d \in DOMAIN reads |-> IF d = c \/ Unused(conn', d) THEN NoRead ELSE reads[d]]
  /\ owed' = IF k.push.todo \ {<<s, stream>>} = {} /\ k.refresh THEN owed \ {c} ELSE owed
  /\ UNCHANGED <<log, meta, gone, timer, tab, faults>>

LEMMA ComposeParts ==
  ASSUME NEW c, NEW s, NEW stream, Compose(c, s, stream)
  PROVE  Parts(c, s, stream, conn[c], conn[c].push.slot, NextOf(conn[c].push.slot), SnapshotOf(conn[c].push.slot))
<1> DEFINE k == conn[c]
           slot == k.push.slot
           next == NextOf(slot)
           snapshot == SnapshotOf(slot)
<1>1. /\ gone \/ reads[slot].done
      /\ prepared' = [d \in Caches |->
           IF Unused(conn', d) THEN None
           ELSE IF d = slot /\ EncoderFor(k, s) # None /\ k.subs[s] = stream THEN next ELSE prepared[d]]
      /\ reads' = [d \in DOMAIN reads |-> IF d = c \/ Unused(conn', d) THEN NoRead ELSE reads[d]]
      /\ owed' = IF k.push.todo \ {<<s, stream>>} = {} /\ k.refresh THEN owed \ {c} ELSE owed
      /\ UNCHANGED <<log, meta, gone, timer, tab, faults>>
  BY DEF Compose, NextOf, SnapshotOf
<1>2. conn' = [conn EXCEPT ![c] = Advance(IF k.subs[s] = stream THEN Sent(k, s, next, snapshot) ELSE k, c,
                                          k.push.todo \ {<<s, stream>>})]
  BY DEF Compose, NextOf, SnapshotOf, Sent, Same
<1>3. down' = IF Same(k, s, next, snapshot) \/ k.subs[s] # stream THEN down
              ELSE [down EXCEPT ![c] = Append(@, [sub |-> s, frame |-> FrameOf(k, s, stream, next, snapshot)])]
  BY DEF Compose, NextOf, SnapshotOf, Same, FrameOf
<1> QED BY <1>1, <1>2, <1>3 DEF Parts

Todos == SUBSET (Subs \X Nat)

\* How a push goes on with what is left of it.
GoesOn(k, c, todo, left, p) ==
  /\ Kept(k, p) /\ left \subseteq todo
  /\ \A t \in todo : t \in left <=> k.subs[t[1]] = t[2]
  /\ left # {} => p.push = [todo |-> left, slot |-> k.push.slot] /\ p.refresh = k.refresh
  /\ left = {} /\ k.refresh /\ Topics(k) # {} => p.push = [todo |-> Topics(k), slot |-> c] /\ p.refresh = FALSE
  /\ left = {} /\ (~k.refresh \/ Topics(k) = {}) => p.push = None /\ p.refresh = FALSE

LEMMA AdvancedAre ==
  ASSUME SubscriptionsAssumption, NEW c \in Clients, NEW k \in Connections, k.push # None, NEW todo \in Todos
  PROVE  GoesOn(k, c, todo, Current(k, todo), Advance(k, c, todo))
<1> DEFINE r == Advance(k, c, todo)
           l == Current(k, todo)
<1>0. todo \in SUBSET (Subs \X Nat)
  BY DEF Todos
<1>1. /\ Kept(k, r) /\ l \subseteq todo
      /\ \A t \in todo : t \in l <=> k.subs[t[1]] = t[2]
      /\ l # {} => r.push = [todo |-> l, slot |-> k.push.slot] /\ r.refresh = k.refresh
      /\ l = {} /\ k.refresh /\ Topics(k) # {} => r.push = [todo |-> Topics(k), slot |-> c] /\ r.refresh = FALSE
      /\ l = {} /\ (~k.refresh \/ Topics(k) = {}) => r.push = None /\ r.refresh = FALSE
  BY <1>0, AdvancedIs
<1> HIDE DEF r, l
<1>2. GoesOn(k, c, todo, l, r)
  BY <1>1 DEF GoesOn
<1> QED BY <1>2 DEF r, l

\* Where the push stands after a topic.
TurnTaken(k, c, turn, p) ==
  \/ /\ p.push # None /\ p.push.slot = k.push.slot /\ p.push.todo # {} /\ p.refresh = k.refresh
     /\ \A t \in p.push.todo : t \in k.push.todo \ {turn}
     /\ \A t \in k.push.todo \ {turn} : k.subs[t[1]] = t[2] => t \in p.push.todo
  \/ /\ p.push # None /\ p.push.slot = c /\ p.push.todo = Topics(k) /\ Topics(k) # {} /\ p.refresh = FALSE
     /\ k.refresh
  \/ /\ p.push = None /\ p.refresh = FALSE /\ (~k.refresh \/ Topics(k) = {})
     /\ \A t \in k.push.todo \ {turn} : k.subs[t[1]] # t[2]

MovesOn(k, q, c, turn, p) ==
  /\ p \in Connections /\ p # None /\ p.subs = k.subs /\ p.encoders = q.encoders /\ p.signatures = q.signatures
  /\ TurnTaken(k, c, turn, p)

LEMMA AdvancedTo ==
  ASSUME SubscriptionsAssumption, NEW c \in Clients, NEW q \in Connections, NEW k \in Connections, q.push = k.push,
         q.subs = k.subs, q.refresh = k.refresh, k.push # None, NEW turn \in k.push.todo
  PROVE  MovesOn(k, q, c, turn, Advance(q, c, k.push.todo \ {turn}))
<1>0. PICK p : p = Advance(q, c, k.push.todo \ {turn})
  OBVIOUS
<1> SUFFICES MovesOn(k, q, c, turn, p)
  BY <1>0
<1>1. k.push \in Pushes
  BY ConnectionIs
<1>2. PICK todo \in Todos : todo = k.push.todo \ {turn}
  BY <1>1, PushIs DEF Todos
<1>3. PICK left : left = Current(q, todo)
  OBVIOUS
<1>4. PICK topics : topics = Topics(q) /\ topics = Topics(k)
  BY DEF Topics
<1>5. p = Advance(q, c, todo)
  BY <1>0, <1>2
<1>6. /\ Kept(q, p) /\ left \subseteq todo
      /\ \A t \in todo : t \in left <=> q.subs[t[1]] = t[2]
      /\ left # {} => p.push = [todo |-> left, slot |-> q.push.slot] /\ p.refresh = q.refresh
      /\ left = {} /\ q.refresh /\ topics # {} => p.push = [todo |-> topics, slot |-> c] /\ p.refresh = FALSE
      /\ left = {} /\ (~q.refresh \/ topics = {}) => p.push = None /\ p.refresh = FALSE
  <2>1. q.push # None
    OBVIOUS
  <2>2. GoesOn(q, c, todo, left, p)
    BY <1>3, <1>5, <2>1, AdvancedAre
  <2> QED BY <1>4, <2>2 DEF GoesOn
<1>7. p \in Connections /\ p # None /\ p.subs = k.subs /\ p.encoders = q.encoders /\ p.signatures = q.signatures
  BY <1>6, NoneIsNo DEF Kept
<1>8. CASE left # {}
  <2>1. p.push = [todo |-> left, slot |-> k.push.slot] /\ p.refresh = k.refresh
    BY <1>6, <1>8
  <2>2. p.push.todo = left /\ p.push.slot = k.push.slot
    BY <2>1
  <2>3. p.push # None
    <3>1. [todo |-> left, slot |-> k.push.slot] \in Pushes
      BY <1>1, <1>2, <1>6, PushIs DEF Pushes, Holders, Todos
    <3> QED BY <2>1, <3>1, NoneIsNo
  <2> QED BY <1>2, <1>6, <1>7, <1>8, <2>1, <2>2, <2>3 DEF MovesOn, TurnTaken
<1>9. CASE left = {} /\ k.refresh /\ topics # {}
  <2>1. p.push = [todo |-> topics, slot |-> c] /\ p.refresh = FALSE
    BY <1>6, <1>9
  <2>2. p.push.todo = topics /\ p.push.slot = c
    BY <2>1
  <2>3. p.push # None
    <3>1. [todo |-> topics, slot |-> c] \in Pushes
      BY <1>4, TopicsAre DEF Pushes
    <3> QED BY <2>1, <3>1, NoneIsNo
  <2> QED BY <1>4, <1>7, <1>9, <2>1, <2>2, <2>3 DEF MovesOn, TurnTaken
<1>10. CASE left = {} /\ (~k.refresh \/ topics = {})
  BY <1>2, <1>4, <1>6, <1>7, <1>10 DEF MovesOn, TurnTaken
<1> QED BY <1>8, <1>9, <1>10

\* How a topic of a push changes the connection.
LEMMA ComposedIs ==
  ASSUME SubscriptionsAssumption, SubscriptionsInv, NEW c \in Clients, NEW s, NEW stream,
         <<s, stream>> \in Pending(c), Compose(c, s, stream)
  PROVE  /\ Connected(c) /\ conn[c] \in Connections /\ conn[c].push # None /\ conn[c].push.slot \in Holders
         /\ s \in Subs /\ stream \in Nat /\ stream # 0 /\ <<s, stream>> \in conn[c].push.todo
         /\ SnapshotOf(conn[c].push.slot) \in Past /\ NextOf(conn[c].push.slot) \in Past
         /\ SnapshotOf(conn[c].push.slot) \in Values /\ NextOf(conn[c].push.slot) \in Values
<1>1. Connected(c) /\ conn[c].push # None /\ <<s, stream>> \in conn[c].push.todo
  BY DEF Pending
<1>2. TypeOK /\ Chatted /\ PushOK(c)
  BY InvIs DEF TypeOK, ClientOK
<1>3. conn[c] \in Connections /\ conn[c].push.slot \in Holders /\ conn[c].push.todo \in SUBSET (Subs \X Nat)
  BY <1>1, <1>2, HolderIs
<1>4. s \in Subs /\ stream \in Nat /\ stream # 0
  <2>1. s \in Subs /\ stream \in Nat
    BY <1>1, <1>3
  <2>2. PICK t \in conn[c].push.todo : t = <<s, stream>> /\ t[2] = stream
    BY <1>1
  <2> QED BY <1>1, <1>2, <2>1, <2>2 DEF PushOK
<1>5. PICK slot \in Holders : slot = conn[c].push.slot
  BY <1>3
<1>6. gone \/ reads[slot].done
  BY <1>5 DEF Compose
<1>7. SnapshotOf(slot) \in Past /\ NextOf(slot) \in Past
  BY <1>2, <1>6, NextIs
<1> QED BY <1>1, <1>2, <1>3, <1>4, <1>5, <1>7, PastIs

ComposedAs(c, s, stream, k, next, snapshot) ==
  /\ conn' \in [Clients -> Connections \cup {None}] /\ (\A d \in Clients \ {c} : conn'[d] = conn[d])
  /\ conn'[c] \in Connections /\ conn'[c] # None /\ Connected(c)' /\ conn'[c].subs = k.subs
  /\ \A t \in Subs \ {s} : conn'[c].encoders[t] = k.encoders[t] /\ conn'[c].signatures[t] = k.signatures[t]
  /\ k.subs[s] # stream \/ Same(k, s, next, snapshot) =>
       conn'[c].encoders = k.encoders /\ conn'[c].signatures = k.signatures
  /\ k.subs[s] = stream => /\ conn'[c].encoders = Sent(k, s, next, snapshot).encoders
                           /\ conn'[c].signatures = Sent(k, s, next, snapshot).signatures
                           /\ Tip(c, s)' = ValueOf(k, s, next, snapshot)
  /\ TurnTaken(k, c, <<s, stream>>, conn'[c])

\* The same, in terms of what is sent.
LEMMA ComposedTo ==
  ASSUME SubscriptionsAssumption, SubscriptionsInv, NEW c \in Clients, NEW s \in Subs, NEW stream \in Nat,
         <<s, stream>> \in Pending(c), Compose(c, s, stream),
         NEW k \in Connections, k = conn[c], NEW next \in Values, next = NextOf(k.push.slot),
         NEW snapshot \in Values, snapshot = SnapshotOf(k.push.slot)
  PROVE  ComposedAs(c, s, stream, k, next, snapshot)
<1>1. TypeOK /\ conn \in [Clients -> Connections \cup {None}]
  BY InvIs DEF TypeOK
<1>2. k.push # None
  BY ComposedIs
<1>3. PICK q : q = IF k.subs[s] = stream THEN Sent(k, s, next, snapshot) ELSE k
  OBVIOUS
<1>4. PICK turn \in k.push.todo : turn = <<s, stream>>
  BY ComposedIs
<1>5. PICK p : p = Advance(q, c, k.push.todo \ {turn})
  OBVIOUS
<1>6. conn' = [conn EXCEPT ![c] = p]
  <2>1. Parts(c, s, stream, k, k.push.slot, next, snapshot)
    BY ComposeParts
  <2> QED BY <1>3, <1>4, <1>5, <2>1 DEF Parts
<1>7. PICK m : /\ m = Sent(k, s, next, snapshot) /\ m \in Connections /\ m.subs = k.subs /\ m.push = k.push
               /\ m.refresh = k.refresh
               /\ \A t \in Subs \ {s} : m.encoders[t] = k.encoders[t] /\ m.signatures[t] = k.signatures[t]
               /\ Same(k, s, next, snapshot) => m = k
               /\ IF m.encoders[s] # None THEN m.encoders[s].previous = ValueOf(k, s, next, snapshot)
                  ELSE m.signatures[s] = ValueOf(k, s, next, snapshot)
  <2>1. PICK m : m = Sent(k, s, next, snapshot)
    OBVIOUS
  <2>2. SendsTo(k, s, next, snapshot, m)
    BY <2>1, SentIs
  <2> QED BY <2>1, <2>2 DEF SendsTo
<1>8. /\ q \in Connections /\ q.subs = k.subs /\ q.push = k.push /\ q.refresh = k.refresh
      /\ \A t \in Subs \ {s} : q.encoders[t] = k.encoders[t] /\ q.signatures[t] = k.signatures[t]
      /\ k.subs[s] # stream \/ Same(k, s, next, snapshot) => q = k
      /\ k.subs[s] = stream => q = m
  BY <1>3, <1>7
<1>9. /\ p \in Connections /\ p # None /\ p.subs = k.subs /\ p.encoders = q.encoders
         /\ p.signatures = q.signatures
      /\ TurnTaken(k, c, turn, p)
  <2>1. MovesOn(k, q, c, turn, p)
    BY <1>2, <1>5, <1>8, AdvancedTo
  <2> QED BY <2>1 DEF MovesOn
<1>10. p = conn'[c] /\ (\A d \in Clients \ {c} : conn'[d] = conn[d])
       /\ conn' \in [Clients -> Connections \cup {None}]
  BY <1>1, <1>6, <1>9
<1>11. Connected(c)'
  BY <1>9, <1>10 DEF Connected
<1>12. k.subs[s] = stream => /\ p.encoders = Sent(k, s, next, snapshot).encoders
                             /\ p.signatures = Sent(k, s, next, snapshot).signatures
                             /\ Tip(c, s)' = ValueOf(k, s, next, snapshot)
  <2>1. CASE k.subs[s] = stream
    <3>1. p.encoders = m.encoders /\ p.signatures = m.signatures
      BY <1>8, <1>9, <2>1
    <3>2. Tip(c, s)' = IF p.encoders[s] # None THEN p.encoders[s].previous ELSE p.signatures[s]
      BY <1>10 DEF Tip
    <3> QED BY <1>7, <3>1, <3>2
  <2> QED BY <2>1
<1>13. (\A t \in Subs \ {s} : p.encoders[t] = k.encoders[t] /\ p.signatures[t] = k.signatures[t])
       /\ (k.subs[s] # stream \/ Same(k, s, next, snapshot) => p.encoders = k.encoders /\ p.signatures = k.signatures)
  BY <1>8, <1>9
<1> QED BY <1>4, <1>9, <1>10, <1>11, <1>12, <1>13 DEF ComposedAs

\* The reads and what they prepared, after a topic.
LEMMA ComposedReads ==
  ASSUME SubscriptionsAssumption, SubscriptionsInv, NEW c \in Clients, NEW s, NEW stream,
         <<s, stream>> \in Pending(c), Compose(c, s, stream)
  PROVE  /\ Held' /\ UNCHANGED <<log, meta, gone, timer, tab>> /\ owed' \subseteq owed
            /\ owed \subseteq owed' \cup {c}
         /\ reads' \in [Holders -> [done : BOOLEAN, upTo : 0..Len(log')]]
            /\ prepared' \in [Caches -> Past' \cup {None}]
         /\ \A v : AheadOf(c, v)'
         /\ Fresh(c)'
         /\ \A h \in Holders \ {c} : ~Unused(conn', h) =>
              /\ \A v \in Past \cup {None} : AheadOf(h, v) => AheadOf(h, v)'
              /\ ~gone /\ Fresh(h) => Fresh(h)'
<1>1. TypeOK /\ Chatted
  BY InvIs DEF TypeOK
<1>2. PICK k \in Connections : k = conn[c]
  BY ComposedIs
<1>3. PICK slot \in Holders : slot = k.push.slot
  BY <1>2, ComposedIs
<1>4. PICK next \in Past : next = NextOf(slot)
  BY <1>2, <1>3, ComposedIs
<1>5. PICK snapshot \in Past : snapshot = SnapshotOf(slot)
  BY <1>2, <1>3, ComposedIs
<1>6. /\ gone \/ reads[slot].done
      /\ prepared' = [d \in Caches |->
           IF Unused(conn', d) THEN None
           ELSE IF d = slot /\ EncoderFor(k, s) # None /\ k.subs[s] = stream THEN next ELSE prepared[d]]
      /\ reads' = [d \in DOMAIN reads |-> IF d = c \/ Unused(conn', d) THEN NoRead ELSE reads[d]]
      /\ owed' = IF k.push.todo \ {<<s, stream>>} = {} /\ k.refresh THEN owed \ {c} ELSE owed
      /\ UNCHANGED <<log, meta, gone, timer, tab, faults>>
  <2>1. Parts(c, s, stream, k, slot, next, snapshot)
    BY <1>2, <1>3, <1>4, <1>5, ComposeParts
  <2> QED BY <2>1 DEF Parts
<1>7. reads \in [Holders -> [done : BOOLEAN, upTo : 0..Len(log)]] /\ prepared \in [Caches -> Past \cup {None}]
      /\ Len(log) \in Nat /\ Past' = Past /\ Caches \subseteq Holders
  BY <1>1, <1>6, NowStays DEF TypeOK, Chatted, Holders
<1>8. NoRead \in [done : BOOLEAN, upTo : 0..Len(log)] /\ ~NoRead.done
  BY <1>7 DEF NoRead
<1>9. reads' = [d \in Holders |-> IF d = c \/ Unused(conn', d) THEN NoRead ELSE reads[d]]
  BY <1>6, <1>7
<1>10. reads' \in [Holders -> [done : BOOLEAN, upTo : 0..Len(log')]]
  BY <1>6, <1>7, <1>8, <1>9
<1>11. prepared' \in [Caches -> Past' \cup {None}]
  BY <1>6, <1>7
<1>12. Held'
  BY <1>6, <1>7, <1>9 DEF Held
<1>13. c \in Holders /\ c \notin Caches /\ ~reads'[c].done
  <2>1. c \in Holders /\ c \notin Caches
    BY NoneIsNo DEF Holders
  <2> QED BY <1>8, <1>9, <2>1
<1>14. \A v : AheadOf(c, v)'
  BY <1>13 DEF AheadOf
<1>15. Fresh(c)'
  BY <1>13 DEF Fresh
<1>16. ASSUME NEW h \in Holders \ {c}, ~Unused(conn', h)
       PROVE  /\ \A v \in Past \cup {None} : AheadOf(h, v) => AheadOf(h, v)'
              /\ ~gone /\ Fresh(h) => Fresh(h)'
  <2>1. reads'[h] = reads[h] /\ h \in Holders
    BY <1>9, <1>16
  <2>2. h \in Caches => prepared'[h] = prepared[h] \/ ((gone \/ reads[h].done) /\ prepared'[h] = NextOf(h))
    BY <1>4, <1>6, <1>16
  <2>3. UNCHANGED <<log, meta, gone>>
    BY <1>6
  <2> QED BY <1>1, <2>1, <2>2, <2>3, AheadAfter
<1>17. owed' \subseteq owed /\ owed \subseteq owed' \cup {c} /\ UNCHANGED <<log, meta, gone, timer, tab>>
  BY <1>6
<1> QED BY <1>10, <1>11, <1>12, <1>14, <1>15, <1>16, <1>17

\* The other connections, those that share the cache included.
LEMMA OthersComposed ==
  ASSUME SubscriptionsAssumption, SubscriptionsInv, NEW c \in Clients, NEW s, NEW stream,
         <<s, stream>> \in Pending(c), Compose(c, s, stream), NEW d \in Clients \ {c},
         conn'[d] = conn[d], down'[d] = down[d]
  PROVE  ClientOK(d)'
<1>1. TypeOK /\ Chatted /\ ClientOK(d) /\ Shows(d) /\ PushOK(d)
  BY InvIs DEF TypeOK, ClientOK
<1>2. UNCHANGED <<log, meta, gone, timer, tab>> /\ (d \in owed => d \in owed')
  BY ComposedReads
<1>3. Grows
  BY <1>1, <1>2 DEF Grows, Chatted
<1>4. Connected(d) /\ conn[d].push # None =>
        /\ conn[d].push.slot \in Holders \ {c} /\ ~Unused(conn', conn[d].push.slot)
  <2> SUFFICES ASSUME Connected(d), conn[d].push # None
               PROVE  conn[d].push.slot \in Holders \ {c} /\ ~Unused(conn', conn[d].push.slot)
    OBVIOUS
  <2>1. conn[d].push.slot \in Caches \cup {d}
    BY <1>1 DEF PushOK
  <2>2. conn[d].push.slot \in Holders /\ c \notin Caches
    BY <1>1, HolderIs, NoneIsNo
  <2>3. d \in UsersOf(conn', conn[d].push.slot)
    BY DEF UsersOf, Connected
  <2> QED BY <2>1, <2>2, <2>3 DEF Unused
<1>5. Connected(d) /\ conn[d].push # None =>
        \A v \in Past \cup {None} : AheadOf(conn[d].push.slot, v) => AheadOf(conn[d].push.slot, v)'
  <2> SUFFICES ASSUME Connected(d), conn[d].push # None, NEW v \in Past \cup {None}, AheadOf(conn[d].push.slot, v)
               PROVE  AheadOf(conn[d].push.slot, v)'
    OBVIOUS
  <2>1. PICK h \in Holders \ {c} : h = conn[d].push.slot
    BY <1>4
  <2>2. AheadOf(h, v)'
    BY <1>4, <2>1, ComposedReads
  <2>3. conn'[d].push.slot = h
    BY <2>1
  <2> QED BY <2>2, <2>3 DEF AheadOf
<1>6. PushOK(d)' /\ \A t \in Subs : SubOK(d, t)' /\ Chain(d, t)'
  BY <1>1, <1>2, <1>3, <1>5, Watched
<1>7. Shows(d)'
  <2>1. Now' = Now
    BY <1>2, NowStays
  <2>2. /\ Wanted(d)' = Wanted(d) /\ Connected(d)' = Connected(d)
        /\ \A t : Awaits(d, t)' = Awaits(d, t) /\ Tip(d, t)' = Tip(d, t)
    BY <1>2 DEF Wanted, Connected, Awaits, Pending, Tip
  <2>3. ~gone /\ Connected(d) /\ conn[d].push # None /\ Fresh(conn[d].push.slot) => Fresh(conn[d].push.slot)'
    <3> SUFFICES ASSUME ~gone, Connected(d), conn[d].push # None, Fresh(conn[d].push.slot)
                 PROVE  Fresh(conn[d].push.slot)'
      OBVIOUS
    <3>1. PICK h \in Holders \ {c} : h = conn[d].push.slot
      BY <1>4
    <3>2. Fresh(h)'
      BY <1>4, <3>1, ComposedReads
    <3>3. conn'[d].push.slot = h
      BY <3>1
    <3> QED BY <3>2, <3>3 DEF Fresh
  <2> QED BY <1>1, <1>2, <2>1, <2>2, <2>3 DEF Shows
<1> QED BY <1>6, <1>7 DEF ClientOK

\* What the connection still waits for.
LEMMA AwaitsComposed ==
  ASSUME SubscriptionsAssumption, SubscriptionsInv, NEW c \in Clients, NEW s \in Subs, NEW stream \in Nat,
         <<s, stream>> \in Pending(c), Compose(c, s, stream), NEW t \in Subs, Awaits(c, t)'
  PROVE  /\ \A v \in Past \cup {None} : (Awaits(c, t) => AheadOf(conn[c].push.slot, v))
            => AheadOf(conn[c].push.slot, v)'
         /\ t = s /\ conn[c].subs[s] = stream => \A v : AheadOf(conn[c].push.slot, v)'
<1>1. TypeOK /\ PushOK(c) /\ Connected(c)
  BY InvIs, ComposedIs DEF ClientOK
<1>2. PICK k \in Connections : k = conn[c] /\ k.push # None
  BY ComposedIs
<1>3. PICK next \in Values : next = NextOf(k.push.slot)
  BY <1>2, ComposedIs
<1>4. PICK snapshot \in Values : snapshot = SnapshotOf(k.push.slot)
  BY <1>2, ComposedIs
<1>5. PICK p : /\ p = conn'[c] /\ p.subs = k.subs
               /\ \/ /\ p.push # None /\ p.push.slot = k.push.slot
                     /\ \A x \in p.push.todo : x \in k.push.todo \ {<<s, stream>>}
                  \/ p.push # None /\ p.push.slot = c
                  \/ p.push = None
  <2>1. PICK p : p = conn'[c]
    OBVIOUS
  <2>2. ComposedAs(c, s, stream, k, next, snapshot)
    BY <1>2, <1>3, <1>4, ComposedTo
  <2>3. p.subs = k.subs /\ TurnTaken(k, c, <<s, stream>>, p)
    BY <2>1, <2>2 DEF ComposedAs
  <2> QED BY <2>1, <2>3 DEF TurnTaken
<1>6. p.push # None /\ <<t, k.subs[t]>> \in p.push.todo
  BY <1>5 DEF Awaits, Pending
<1>7. CASE p.push.slot = c
  <2>1. \A v : AheadOf(c, v)'
    BY ComposedReads
  <2>2. \A v : AheadOf(conn[c].push.slot, v)'
    BY <1>5, <1>7, <2>1 DEF AheadOf
  <2> QED BY <2>2
<1>8. CASE p.push.slot # c
  <2>1. p.push.slot = k.push.slot /\ <<t, k.subs[t]>> \in k.push.todo \ {<<s, stream>>}
    BY <1>5, <1>6, <1>8
  <2>2. Awaits(c, t)
    BY <1>1, <1>2, <2>1 DEF Awaits, Pending
  <2>3. ~(t = s /\ k.subs[s] = stream)
    BY <2>1
  <2>4. PICK h \in Holders \ {c} : h = k.push.slot
    BY <1>2, <1>8, <2>1, ComposedIs
  <2>5. ~Unused(conn', h)
    <3>1. Connected(c)'
      BY <1>2, <1>3, <1>4, ComposedTo DEF ComposedAs
    <3>2. c \in UsersOf(conn', h)
      BY <1>5, <1>6, <2>1, <2>4, <3>1 DEF UsersOf, Connected
    <3> QED BY <3>2 DEF Unused
  <2>6. ASSUME NEW v \in Past \cup {None}, Awaits(c, t) => AheadOf(conn[c].push.slot, v)
        PROVE  AheadOf(conn[c].push.slot, v)'
    <3>1. AheadOf(h, v)
      BY <1>2, <2>2, <2>4, <2>6
    <3>2. AheadOf(h, v)'
      BY <2>5, <3>1, ComposedReads
    <3> QED BY <1>5, <2>1, <2>4, <3>2 DEF AheadOf
  <2> QED BY <1>2, <2>3, <2>6
<1> QED BY <1>7, <1>8

\* The way of a subscription the message is not for, or to which none is sent.
LEMMA SilentChain ==
  ASSUME SubscriptionsAssumption, SubscriptionsInv, NEW c \in Clients, NEW s \in Subs, NEW stream \in Nat,
         <<s, stream>> \in Pending(c), Compose(c, s, stream), NEW t \in Subs, down'[c] = down[c],
         conn'[c].subs[t] = conn[c].subs[t], conn'[c].encoders[t] = conn[c].encoders[t],
         conn'[c].signatures[t] = conn[c].signatures[t]
  PROVE  Chain(c, t)'
<1>1. TypeOK /\ Chatted /\ ClientOK(c) /\ Chain(c, t) /\ Connected(c) /\ down[c] \in Seq(Mail)
  BY InvIs, ComposedIs DEF ClientOK, TypeOK
<1>2. UNCHANGED <<log, meta, gone, tab>>
  BY ComposedReads
<1>3. Grows
  BY <1>1, <1>2 DEF Grows, Chatted
<1>4. Awaits(c, t)' => \A v \in Past \cup {None} : (Awaits(c, t) => AheadOf(conn[c].push.slot, v))
                                                    => AheadOf(conn[c].push.slot, v)'
  BY AwaitsComposed
<1> QED BY <1>1, <1>2, <1>3, <1>4, ChainKept

\* A message is added behind the way of each.
LEMMA LongerChain ==
  ASSUME SubscriptionsAssumption, NEW c \in Clients, NEW t \in Subs, NEW st \in [0..Len(down[c]) -> Stage],
         down[c] \in Seq(Mail), NEW m \in Mail, down'[c] = Append(down[c], m), NEW b \in Stage,
         Follows(c, t, st), Past' = Past, conn'[c].subs[t] = conn[c].subs[t],
         tab' = tab, Moves(st[Len(down[c])], m, b, t, conn[c].subs[t]), b.view \in Past \cup {None},
         Sender(c, t, b)', Awaits(c, t)' => AheadOf(conn[c].push.slot, b.view)'
  PROVE  Chain(c, t)'
<1>1. PICK n \in Nat : n = Len(down[c]) /\ n + 1 = Len(down'[c]) /\ 0 \in 0..n /\ n \in 0..n
  <2>1. Len(down'[c]) = Len(down[c]) + 1
    OBVIOUS
  <2> QED BY <2>1
<1>2. (\A i \in 1..n : down'[c][i] = down[c][i]) /\ down'[c][n + 1] = m
  BY <1>1
<1> DEFINE su == [i \in 0..n + 1 |-> IF i = n + 1 THEN b ELSE st[i]]
<1>3. \A i \in 0..n + 1 : i # n + 1 => i \in 0..n
  BY <1>1
<1>4. su \in [0..n + 1 -> Stage] /\ su[n + 1] = b /\ \A i \in 0..n : su[i] = st[i]
  <2>1. n + 1 \in 0..n + 1 /\ \A i \in 0..n : i \in 0..n + 1 /\ i # n + 1
    BY <1>1
  <2>2. su[n + 1] = b /\ \A i \in 0..n : su[i] = st[i]
    BY <2>1
  <2>3. \A i \in 0..n + 1 : su[i] \in Stage
    BY <1>1, <1>3
  <2> QED BY <2>2, <2>3
<1> HIDE DEF su
<1>5. \A i \in 0..n + 1 : su[i].view \in Past' \cup {None}
  BY <1>1, <1>3, <1>4 DEF Follows
<1>6. \A i \in 1..n + 1 : Moves(su[i - 1], down'[c][i], su[i], t, conn'[c].subs[t])
  <2> SUFFICES ASSUME NEW i \in 1..n + 1
               PROVE  Moves(su[i - 1], down'[c][i], su[i], t, conn'[c].subs[t])
    OBVIOUS
  <2>1. CASE i = n + 1
    <3>1. i - 1 = n
      BY <1>1, <2>1
    <3>2. su[i - 1] = st[n] /\ su[i] = b /\ down'[c][i] = m
      BY <1>1, <1>2, <1>4, <2>1, <3>1
    <3> QED BY <1>1, <3>2
  <2>2. CASE i # n + 1
    <3>1. i \in 1..n /\ i \in 0..n /\ i - 1 \in 0..n
      BY <1>1, <2>2
    <3>2. su[i - 1] = st[i - 1] /\ su[i] = st[i] /\ down'[c][i] = down[c][i]
      BY <1>2, <1>4, <3>1
    <3>3. Moves(st[i - 1], down[c][i], st[i], t, conn[c].subs[t])
      BY <1>1, <3>1 DEF Follows
    <3> QED BY <3>2, <3>3
  <2> QED BY <2>1, <2>2
<1>7. /\ su[0].revision = tab'[c].decoders[t].revision /\ su[0].snapshot = tab'[c].decoders[t].snapshot
      /\ su[0].view = tab'[c].view[t]
  BY <1>1, <1>4 DEF Follows
<1>8. PICK l : l = Len(down'[c]) /\ l = n + 1
  BY <1>1
<1>9. Follows(c, t, su)'
  BY <1>4, <1>5, <1>6, <1>7, <1>8 DEF Follows
<1> QED BY <1>4, <1>8, <1>9 DEF Chain

\* What a topic sends is not older than where the server had the client.
LEMMA ValueIs ==
  ASSUME SubscriptionsAssumption, SubscriptionsInv, NEW c \in Clients, NEW s \in Subs, NEW stream \in Nat,
         <<s, stream>> \in Pending(c), Compose(c, s, stream),
         NEW k \in Connections, k = conn[c], NEW next \in Values, next = NextOf(k.push.slot),
         NEW snapshot \in Values, snapshot = SnapshotOf(k.push.slot)
  PROVE  /\ ValueOf(k, s, next, snapshot) \in Past
         /\ \A v \in Past \cup {None} : AheadOf(conn[c].push.slot, v)
            => Before(v, ValueOf(k, s, next, snapshot))
         /\ ~gone /\ Fresh(conn[c].push.slot) => ValueOf(k, s, next, snapshot) = Now
<1>1. TypeOK
  BY InvIs
<1>2. PICK slot \in Holders : slot = conn[c].push.slot
  BY ComposedIs
<1>3. gone \/ reads[slot].done
  BY <1>2, ComposeParts DEF Parts
<1>4. next = NextOf(slot) /\ snapshot = SnapshotOf(slot)
  BY <1>2
<1>5. /\ snapshot \in Past /\ next \in Past
      /\ \A v \in Past \cup {None} : AheadOf(slot, v) => Before(v, snapshot) /\ Before(v, next)
      /\ Fresh(slot) /\ ~gone => snapshot = Now /\ next = Now
  BY <1>1, <1>3, <1>4, NextIs
<1> QED BY <1>2, <1>5 DEF ValueOf

\* The ways of the subscriptions when a message is sent.
LEMMA SentChain ==
  ASSUME SubscriptionsAssumption, SubscriptionsInv, NEW c \in Clients, NEW s \in Subs, NEW stream \in Nat,
         <<s, stream>> \in Pending(c), Compose(c, s, stream),
         NEW k \in Connections, k = conn[c], NEW next \in Values, next = NextOf(k.push.slot),
         NEW snapshot \in Values, snapshot = SnapshotOf(k.push.slot),
         k.subs[s] = stream, stream # 0, ~Same(k, s, next, snapshot)
  PROVE  /\ down' \in [Clients -> Seq(Mail)] /\ (\A d \in Clients \ {c} : down'[d] = down[d])
         /\ \E m \in Mail : down'[c] = Append(down[c], m) /\ m.sub = s
         /\ tab[c].decoders[s] # None
         /\ \A t \in Subs : Chain(c, t)'
<1>1. TypeOK /\ Chatted /\ Connected(c) /\ down \in [Clients -> Seq(Mail)] /\ down[c] \in Seq(Mail)
  BY InvIs, ComposedIs DEF TypeOK
<1>2. UNCHANGED <<log, meta, gone, tab>> /\ Past' = Past
  BY ComposedReads, NowStays
<1>3. \A t \in Subs : SubOK(c, t) /\ Chain(c, t)
  BY InvIs DEF ClientOK
<1>4. PICK value : value = ValueOf(k, s, next, snapshot)
  OBVIOUS
<1>5. /\ value \in Past
      /\ \A v \in Past \cup {None} : AheadOf(conn[c].push.slot, v) => Before(v, value)
  BY <1>4, ValueIs
<1>6. tab[c].decoders[s] # None
  BY <1>1, <1>3 DEF SubOK
<1>7. PICK st \in [0..Len(down[c]) -> Stage] : Follows(c, s, st)
  BY <1>1, <1>3, <1>6 DEF Chain
<1>8. PICK z \in Stage : z = st[Len(down[c])] /\ z.view \in Past \cup {None} /\ Sender(c, s, z)
      /\ Before(z.view, value)
  <2>1. PICK n \in Nat : n = Len(down[c]) /\ n \in 0..n
    BY <1>1
  <2>2. st[n] \in Stage /\ st[n].view \in Past \cup {None} /\ Sender(c, s, st[n])
        /\ (Awaits(c, s) => AheadOf(conn[c].push.slot, st[n].view))
    BY <1>7, <2>1 DEF Follows
  <2>3. Awaits(c, s)
    BY DEF Awaits
  <2>4. PICK v \in Past \cup {None} : v = st[n].view
    BY <2>2
  <2> QED BY <1>5, <2>1, <2>2, <2>3, <2>4
<1>9. PICK q : /\ q = Sent(k, s, next, snapshot) /\ conn'[c].encoders = q.encoders /\ conn'[c].signatures = q.signatures
               /\ conn'[c].subs = k.subs
               /\ \A t \in Subs \ {s} : conn'[c].encoders[t] = k.encoders[t]
                  /\ conn'[c].signatures[t] = k.signatures[t]
  <2>1. ComposedAs(c, s, stream, k, next, snapshot)
    BY ComposedTo
  <2> QED BY <2>1 DEF ComposedAs
<1>10. PICK frame : frame = FrameOf(k, s, stream, next, snapshot)
  OBVIOUS
<1>11. PICK m : m = [sub |-> s, frame |-> frame]
  OBVIOUS
<1>12. /\ k.encoders[s] = None => z.revision = 0 /\ z.snapshot = None
       /\ k.encoders[s] # None => k.encoders[s] = [previous |-> z.snapshot, revision |-> z.revision]
  BY <1>8 DEF Sender
<1>13. /\ frame \in Frames
       /\ \E b \in Stage :
            /\ Moves(z, m, b, s, stream)
            /\ b.view = value
            /\ q.encoders[s] = None => b.revision = 0 /\ b.snapshot = None /\ b.view = q.signatures[s]
            /\ q.encoders[s] # None => b.view = b.snapshot
                                       /\ q.encoders[s] = [previous |-> b.snapshot, revision |-> b.revision]
  <2>1. Before(z.view, ValueOf(k, s, next, snapshot))
    BY <1>4, <1>8
  <2>2. FramedAs(s, stream, value, frame, q, z)
    BY <1>4, <1>9, <1>10, <1>12, <2>1, FrameIs
  <2> QED BY <1>11, <2>2 DEF FramedAs
<1>14. m \in Mail /\ m.sub = s
  BY <1>11, <1>13 DEF Mail
<1>15. down' = [down EXCEPT ![c] = Append(down[c], m)]
  <2>1. Parts(c, s, stream, k, k.push.slot, next, snapshot)
    BY ComposeParts
  <2> QED BY <1>10, <1>11, <2>1 DEF Parts
<1>16. Append(down[c], m) \in Seq(Mail)
  BY <1>1, <1>14
<1>17. down' \in [Clients -> Seq(Mail)] /\ (\A d \in Clients \ {c} : down'[d] = down[d])
       /\ down'[c] = Append(down[c], m)
  BY <1>1, <1>15, <1>16
<1>18. Chain(c, s)'
  <2>1. PICK b \in Stage :
            /\ Moves(z, m, b, s, stream)
            /\ b.view = value
            /\ q.encoders[s] = None => b.revision = 0 /\ b.snapshot = None /\ b.view = q.signatures[s]
            /\ q.encoders[s] # None => b.view = b.snapshot
                                       /\ q.encoders[s] = [previous |-> b.snapshot, revision |-> b.revision]
    BY <1>13
  <2>2. Moves(st[Len(down[c])], m, b, s, conn[c].subs[s]) /\ b.view \in Past \cup {None}
    BY <1>5, <1>8, <2>1
  <2>3. Sender(c, s, b)'
    BY <1>9, <2>1 DEF Sender
  <2>4. Awaits(c, s)' => AheadOf(conn[c].push.slot, b.view)'
    <3>1. Awaits(c, s)' => \A v : AheadOf(conn[c].push.slot, v)'
      BY AwaitsComposed
    <3>2. PICK v : v = b.view
      OBVIOUS
    <3> QED BY <3>1, <3>2
  <2>5. conn'[c].subs[s] = conn[c].subs[s] /\ tab' = tab
    BY <1>2, <1>9
  <2> QED BY <1>1, <1>2, <1>7, <1>14, <1>17, <2>2, <2>3, <2>4, <2>5, LongerChain
<1>19. ASSUME NEW t \in Subs \ {s}
       PROVE  Chain(c, t)'
  <2>1. CASE tab[c].decoders[t] = None
    BY <1>2, <2>1 DEF Chain
  <2>2. CASE tab[c].decoders[t] # None
    <3>1. PICK su \in [0..Len(down[c]) -> Stage] : Follows(c, t, su)
      BY <1>1, <1>3, <2>2 DEF Chain
    <3>2. PICK y \in Stage : /\ y = su[Len(down[c])] /\ y.view \in Past \cup {None} /\ Sender(c, t, y)
                             /\ (Awaits(c, t) => AheadOf(conn[c].push.slot, y.view))
      <4>1. PICK n \in Nat : n = Len(down[c]) /\ n \in 0..n
        BY <1>1
      <4>2. su[n] \in Stage /\ su[n].view \in Past \cup {None} /\ Sender(c, t, su[n])
            /\ (Awaits(c, t) => AheadOf(conn[c].push.slot, su[n].view))
        BY <3>1, <4>1 DEF Follows
      <4> QED BY <4>1, <4>2
    <3>3. Moves(su[Len(down[c])], m, y, t, conn[c].subs[t])
      BY <1>14, <3>2 DEF Moves
    <3>4. Sender(c, t, y)'
      BY <1>9, <3>2 DEF Sender
    <3>5. Awaits(c, t)' => AheadOf(conn[c].push.slot, y.view)'
      <4>1. Awaits(c, t)' => \A v \in Past \cup {None} : (Awaits(c, t) => AheadOf(conn[c].push.slot, v))
                                                          => AheadOf(conn[c].push.slot, v)'
        BY AwaitsComposed
      <4>2. PICK v \in Past \cup {None} : v = y.view
        BY <3>2
      <4> QED BY <3>2, <4>1, <4>2
    <3>6. conn'[c].subs[t] = conn[c].subs[t] /\ tab' = tab
      BY <1>2, <1>9
    <3> QED BY <1>1, <1>2, <1>14, <1>17, <3>1, <3>2, <3>3, <3>4, <3>5, <3>6, LongerChain
  <2> QED BY <2>1, <2>2
<1> QED BY <1>6, <1>14, <1>17, <1>18, <1>19

\* What the last push of a connection has left behind it is what the chat is.
LEMMA ComposedShows ==
  ASSUME SubscriptionsAssumption, SubscriptionsInv, NEW c \in Clients, NEW s \in Subs, NEW stream \in Nat,
         <<s, stream>> \in Pending(c), Compose(c, s, stream),
         NEW k \in Connections, k = conn[c], NEW next \in Values, next = NextOf(k.push.slot),
         NEW snapshot \in Values, snapshot = SnapshotOf(k.push.slot)
  PROVE  Shows(c)'
<1>1. TypeOK /\ ClientOK(c) /\ Shows(c) /\ PushOK(c) /\ Connected(c) /\ k.push # None
  BY InvIs, ComposedIs DEF ClientOK
<1>2. UNCHANGED <<log, meta, gone, timer, tab>> /\ Now' = Now
  BY ComposedReads, NowStays
<1>3. PICK value : value = ValueOf(k, s, next, snapshot)
  OBVIOUS
<1>4. ~gone /\ Fresh(conn[c].push.slot) => value = Now
  BY <1>3, ValueIs
<1>5. /\ Connected(c)' /\ conn'[c].subs = k.subs
      /\ \A t \in Subs \ {s} : conn'[c].encoders[t] = k.encoders[t] /\ conn'[c].signatures[t] = k.signatures[t]
      /\ k.subs[s] # stream => conn'[c].encoders = k.encoders /\ conn'[c].signatures = k.signatures
      /\ k.subs[s] = stream => Tip(c, s)' = value
      /\ TurnTaken(k, c, <<s, stream>>, conn'[c])
  <2>1. ComposedAs(c, s, stream, k, next, snapshot)
    BY ComposedTo
  <2> QED BY <1>3, <2>1 DEF ComposedAs
<1> SUFFICES ASSUME ~timer, ~gone, ~conn'[c].refresh
             PROVE  /\ conn'[c].push # None => Fresh(conn[c].push.slot)'
                    /\ c \notin owed' => \A t \in Wanted(c)' : ~Awaits(c, t)' => Tip(c, t)' = Now'
  BY <1>2 DEF Shows
<1>6. conn'[c].push # None => Fresh(conn[c].push.slot)'
  <2> SUFFICES ASSUME conn'[c].push # None
               PROVE  Fresh(conn[c].push.slot)'
    OBVIOUS
  <2>1. CASE conn'[c].push.slot = c
    <3>1. Fresh(c)'
      BY ComposedReads
    <3> QED BY <2>1, <3>1 DEF Fresh
  <2>2. CASE conn'[c].push.slot # c
    <3>1. conn'[c].push.slot = k.push.slot /\ conn'[c].refresh = k.refresh
      BY <1>5, <2>2 DEF TurnTaken
    <3>2. PICK h \in Holders \ {c} : h = k.push.slot
      BY <2>2, <3>1, ComposedIs
    <3>3. Fresh(conn[c].push.slot)
      BY <1>1, <3>1 DEF Shows
    <3>4. ~Unused(conn', h)
      BY <1>5, <3>1, <3>2 DEF Unused, UsersOf, Connected
    <3>5. Fresh(h)'
      BY <3>2, <3>3, <3>4, ComposedReads
    <3> QED BY <3>1, <3>2, <3>5 DEF Fresh
  <2> QED BY <2>1, <2>2
<1>7. ASSUME c \notin owed', NEW t \in Wanted(c)', ~Awaits(c, t)'
      PROVE  Tip(c, t)' = Now'
  <2>1. t \in Subs /\ t \in Wanted(c)
    BY <1>2 DEF Wanted
  <2>2. <<t, k.subs[t]>> \in Topics(k)
    <3>1. SubOK(c, t) /\ tab[c] \in Tabs
      BY <1>1, <2>1 DEF ClientOK, TypeOK
    <3>2. k.subs[t] # 0
      BY <1>1, <2>1, <3>1 DEF SubOK, Tabs, Wanted
    <3> QED BY <2>1, <3>2, TopicsAre
  <2>3. conn'[c].push # None => <<t, k.subs[t]>> \notin conn'[c].push.todo
    BY <1>5, <1>7 DEF Awaits, Pending
  <2>4. ~k.refresh /\ (<<t, k.subs[t]>> \in k.push.todo => <<t, k.subs[t]>> = <<s, stream>>)
    <3>0. PICK x : x = <<t, k.subs[t]>>
      OBVIOUS
    <3>1. x = <<t, k.subs[t]>> /\ k.subs[x[1]] = x[2]
      BY <3>0
    <3>2. CASE /\ conn'[c].push # None /\ conn'[c].refresh = k.refresh
               /\ \A y \in k.push.todo \ {<<s, stream>>} : k.subs[y[1]] = y[2] => y \in conn'[c].push.todo
      BY <2>3, <3>1, <3>2
    <3>3. CASE conn'[c].push # None /\ conn'[c].push.todo = Topics(k)
      BY <2>2, <2>3, <3>3
    <3>4. CASE /\ conn'[c].push = None /\ (~k.refresh \/ Topics(k) = {})
               /\ \A y \in k.push.todo \ {<<s, stream>>} : k.subs[y[1]] # y[2]
      BY <2>2, <3>1, <3>4
    <3> QED BY <1>5, <3>2, <3>3, <3>4 DEF TurnTaken
  <2>5. c \notin owed
    <3>1. Parts(c, s, stream, k, k.push.slot, next, snapshot)
      BY ComposeParts
    <3> QED BY <1>7, <2>4, <3>1 DEF Parts
  <2>6. CASE t = s /\ k.subs[s] = stream
    <3>1. Fresh(conn[c].push.slot)
      BY <1>1, <2>4 DEF Shows
    <3> QED BY <1>2, <1>4, <1>5, <2>6, <3>1
  <2>7. CASE ~(t = s /\ k.subs[s] = stream)
    <3>1. <<t, k.subs[t]>> \notin k.push.todo
      BY <2>4, <2>7
    <3>2. ~Awaits(c, t)
      BY <1>1, <3>1 DEF Awaits, Pending
    <3>3. Tip(c, t) = Now
      BY <1>1, <2>1, <2>4, <2>5, <3>2 DEF Shows
    <3>4. conn'[c].encoders[t] = k.encoders[t] /\ conn'[c].signatures[t] = k.signatures[t]
      BY <1>5, <2>1, <2>7
    <3>5. Tip(c, t)' = Tip(c, t)
      BY <3>4 DEF Tip
    <3> QED BY <1>2, <3>3, <3>5
  <2> QED BY <2>6, <2>7
<1> QED BY <1>6, <1>7

\* A topic of a push keeps the invariant.
LEMMA ComposeOK ==
  ASSUME SubscriptionsAssumption, SubscriptionsInv, NEW c \in Clients, NEW s, NEW stream,
         <<s, stream>> \in Pending(c), Compose(c, s, stream)
  PROVE  SubscriptionsInv'
<1>1. TypeOK /\ Held /\ Chatted /\ ClientOK(c) /\ PushOK(c) /\ Connected(c) /\ s \in Subs /\ stream \in Nat
      /\ stream # 0
  BY InvIs, ComposedIs DEF TypeOK, ClientOK
<1>2. PICK k \in Connections : k = conn[c] /\ k.push # None
  BY ComposedIs
<1>3. PICK next \in Values : next = NextOf(k.push.slot)
  BY <1>2, ComposedIs
<1>4. PICK snapshot \in Values : snapshot = SnapshotOf(k.push.slot)
  BY <1>2, ComposedIs
<1>5. /\ conn' \in [Clients -> Connections \cup {None}] /\ (\A d \in Clients \ {c} : conn'[d] = conn[d])
      /\ conn'[c] \in Connections /\ conn'[c] # None /\ Connected(c)' /\ conn'[c].subs = k.subs
      /\ \A t \in Subs \ {s} : conn'[c].encoders[t] = k.encoders[t] /\ conn'[c].signatures[t] = k.signatures[t]
      /\ k.subs[s] # stream \/ Same(k, s, next, snapshot) =>
           conn'[c].encoders = k.encoders /\ conn'[c].signatures = k.signatures
      /\ TurnTaken(k, c, <<s, stream>>, conn'[c])
  <2>1. ComposedAs(c, s, stream, k, next, snapshot)
    BY <1>1, <1>2, <1>3, <1>4, ComposedTo
  <2> QED BY <2>1 DEF ComposedAs
<1>6. /\ Held' /\ UNCHANGED <<log, meta, gone, timer, tab>> /\ owed' \subseteq owed
      /\ reads' \in [Holders -> [done : BOOLEAN, upTo : 0..Len(log')]]
         /\ prepared' \in [Caches -> Past' \cup {None}]
  BY ComposedReads
<1>7. Past' = Past
  BY <1>6, NowStays
<1>8. \A t \in Subs : SubOK(c, t)
  BY <1>1 DEF ClientOK
<1>9. /\ down' \in [Clients -> Seq(Mail)] /\ (\A d \in Clients \ {c} : down'[d] = down[d])
      /\ \A t \in Subs : Chain(c, t)'
      /\ \/ down'[c] = down[c]
         \/ tab[c].decoders[s] # None /\ \E m \in Mail : down'[c] = Append(down[c], m) /\ m.sub = s
  <2>1. CASE k.subs[s] # stream \/ Same(k, s, next, snapshot)
    <3>1. Parts(c, s, stream, k, k.push.slot, next, snapshot)
      BY <1>2, <1>3, <1>4, ComposeParts
    <3>2. down' = down
      BY <2>1, <3>1 DEF Parts
    <3>3. ASSUME NEW t \in Subs
          PROVE  Chain(c, t)'
      <4>1. conn'[c].subs[t] = conn[c].subs[t] /\ conn'[c].encoders[t] = conn[c].encoders[t]
            /\ conn'[c].signatures[t] = conn[c].signatures[t]
        BY <1>2, <1>5, <2>1
      <4>2. down'[c] = down[c]
        BY <3>2
      <4> QED BY <1>1, <4>1, <4>2, SilentChain
    <3> QED BY <1>1, <3>2, <3>3 DEF TypeOK
  <2>2. CASE ~(k.subs[s] # stream \/ Same(k, s, next, snapshot))
    <3>1. /\ down' \in [Clients -> Seq(Mail)] /\ (\A d \in Clients \ {c} : down'[d] = down[d])
          /\ \E m \in Mail : down'[c] = Append(down[c], m) /\ m.sub = s
          /\ tab[c].decoders[s] # None
          /\ \A t \in Subs : Chain(c, t)'
      BY <1>1, <1>2, <1>3, <1>4, <2>2, SentChain
    <3> QED BY <3>1
  <2> QED BY <2>1, <2>2
<1>10. TypeOK'
  BY <1>1, <1>5, <1>6, <1>9 DEF TypeOK, Chatted
<1>11. PushOK(c)'
  <2>1. conn'[c].push = None => ~conn'[c].refresh
    BY <1>5 DEF TurnTaken
  <2>2. conn'[c].push # None => /\ conn'[c].push.slot \in Caches \cup {c} /\ conn'[c].push.todo # {}
                                /\ \A t \in conn'[c].push.todo : t[2] # 0
    <3>1. \A t \in Topics(k) : t[2] # 0
      BY TopicsAre
    <3>2. k.push.slot \in Caches \cup {c} /\ \A t \in k.push.todo : t[2] # 0
      BY <1>1, <1>2 DEF PushOK
    <3> QED BY <1>5, <3>1, <3>2 DEF TurnTaken
  <2> QED BY <1>5, <2>1, <2>2 DEF PushOK
<1>12. ASSUME NEW t \in Subs
       PROVE  SubOK(c, t)'
  <2>1. SubOK(c, t)
    BY <1>8
  <2>2. CASE tab[c].decoders[t] # None
    BY <1>1, <1>2, <1>5, <1>6, <1>7, <2>1, <2>2 DEF SubOK
  <2>3. CASE tab[c].decoders[t] = None
    <3>1. k.subs[t] = 0 /\ k.encoders[t] = None /\ k.signatures[t] = None /\ tab[c].view[t] = None
      BY <1>1, <1>2, <2>1, <2>3 DEF SubOK
    <3>2. conn'[c].encoders[t] = k.encoders[t] /\ conn'[c].signatures[t] = k.signatures[t]
      BY <1>1, <1>5, <3>1
    <3>3. ASSUME t \notin tab'[c].closed, NEW i \in DOMAIN down'[c]
          PROVE  down'[c][i].sub # t
      <4>1. \A j \in DOMAIN down[c] : down[c][j].sub # t
        BY <1>6, <2>1, <2>3, <3>3 DEF SubOK
      <4>2. CASE down'[c] = down[c]
        BY <3>3, <4>1, <4>2
      <4>3. CASE tab[c].decoders[s] # None /\ \E m \in Mail : down'[c] = Append(down[c], m) /\ m.sub = s
        <5>1. PICK m \in Mail : down'[c] = Append(down[c], m) /\ m.sub = s
          BY <4>3
        <5>2. down[c] \in Seq(Mail)
          BY <1>1 DEF TypeOK
        <5>3. PICK n \in Nat : n = Len(down[c])
          BY <5>2
        <5>4. Len(down'[c]) = n + 1 /\ down'[c][n + 1] = m /\ (\A j \in 1..n : down'[c][j] = down[c][j])
              /\ DOMAIN down'[c] = 1..n + 1 /\ DOMAIN down[c] = 1..n
          BY <5>1, <5>2, <5>3
        <5>5. CASE i = n + 1
          BY <2>3, <4>3, <5>1, <5>4, <5>5
        <5>6. CASE i # n + 1
          <6>1. i \in 1..n
            BY <3>3, <5>3, <5>4, <5>6
          <6> QED BY <4>1, <5>4, <6>1
        <5> QED BY <5>5, <5>6
      <4> QED BY <1>9, <4>2, <4>3
    <3> QED BY <1>2, <1>5, <1>6, <1>7, <2>3, <3>1, <3>2, <3>3 DEF SubOK
  <2> QED BY <2>2, <2>3
<1>13. Shows(c)'
  BY <1>1, <1>2, <1>3, <1>4, ComposedShows
<1>14. ClientOK(c)'
  BY <1>9, <1>11, <1>12, <1>13 DEF ClientOK
<1>15. ASSUME NEW d \in Clients \ {c}
       PROVE  ClientOK(d)'
  BY <1>5, <1>9, OthersComposed
<1>16. \A d \in Clients : ClientOK(d)'
  BY <1>14, <1>15
<1> QED BY <1>6, <1>10, <1>16 DEF SubscriptionsInv, ClientOK

\* A step of a push keeps the invariant.
LEMMA PushOKs ==
  ASSUME SubscriptionsAssumption, SubscriptionsInv, NEW c \in Clients, Push(c)
  PROVE  SubscriptionsInv'
<1>1. CASE OtherPushed(c)
  BY <1>1, OtherPushedOK
<1>2. CASE ~OtherPushed(c)
  <2>1. PICK turn \in Pending(c) : Compose(c, turn[1], turn[2])
    BY <1>2 DEF Push
  <2>2. Pending(c) \subseteq Subs \X Nat
    <3>1. TypeOK
      BY InvIs
    <3> QED BY <3>1, HolderIs DEF Pending
  <2>3. turn \in Subs \X Nat
    BY <2>1, <2>2
  <2>4. PICK s : s = turn[1]
    OBVIOUS
  <2>5. PICK stream : stream = turn[2]
    OBVIOUS
  <2>6. turn = <<s, stream>>
    BY <2>3, <2>4, <2>5
  <2>7. <<s, stream>> \in Pending(c) /\ Compose(c, s, stream)
    BY <2>1, <2>4, <2>5, <2>6
  <2> QED BY <2>7, ComposeOK
<1> QED BY <1>1, <1>2

\* Every step keeps the invariant.
LEMMA SubscriptionsStep == ASSUME SubscriptionsAssumption, SubscriptionsInv, Next PROVE SubscriptionsInv'
<1>1. DOMAIN reads = Holders
  BY InvIs DEF TypeOK
<1>2. CASE TimerFires \/ ChangeMeta \/ Delete \/ OtherChange
  BY <1>2, TimerFiresOK, ChangeMetaOK, DeleteOK, OtherChangeOK
<1>3. CASE \E record \in {"call", "result"} : Record(record)
  BY <1>3, RecordOK
<1>4. CASE \E k \in Holders : ReadDone(k) \/ ReadFails(k)
  BY <1>4, ReadDoneOK, ReadFailsOK
<1>5. CASE \E c \in Clients : Push(c) \/ Connect(c) \/ Disconnect(c) \/ Receive(c)
  BY <1>5, PushOKs, ConnectOK, DisconnectOK, ReceiveOK
<1>6. CASE \E c \in Clients : \E s \in Subs : Subscribe(c, s) \/ Unsubscribe(c, s)
  BY <1>6, SubscribeOK, UnsubscribeOK
<1> QED BY <1>1, <1>2, <1>3, <1>4, <1>5, <1>6 DEF Next

\* So does a step of something else.
LEMMA SubscriptionsStutter == ASSUME SubscriptionsInv, UNCHANGED vars PROVE SubscriptionsInv'
<1>1. /\ log' = log /\ meta' = meta /\ gone' = gone /\ timer' = timer /\ reads' = reads /\ prepared' = prepared
      /\ conn' = conn /\ tab' = tab /\ down' = down /\ owed' = owed
  BY DEF vars
<1>2. Past' = Past /\ Now' = Now
  BY <1>1, NowStays
<1>3. \A k, v : AheadOf(k, v)' <=> AheadOf(k, v)
  BY <1>1 DEF AheadOf, Top, LastId, Snap, History, Entries, Recent, Shown, Ordered
<1>4. TypeOK'
  BY <1>1, <1>2, InvIs DEF TypeOK, Chatted
<1>5. Held'
  BY <1>1, InvIs DEF Held, Unused, UsersOf
<1>6. ASSUME NEW c \in Clients
      PROVE  ClientOK(c)'
  <2>1. ClientOK(c)
    BY InvIs
  <2>2. PushOK(c)'
    BY <1>1, <2>1 DEF ClientOK, PushOK, Connected
  <2>3. Shows(c)'
    BY <1>1, <1>2, <2>1 DEF ClientOK, Shows, Connected, Fresh, Wanted, Awaits, Pending, Tip
  <2>4. ASSUME NEW s \in Subs
        PROVE  SubOK(c, s)' /\ Chain(c, s)'
    <3>1. SubOK(c, s)'
      BY <1>1, <1>2, <2>1 DEF ClientOK, SubOK, Connected
    <3>2. Chain(c, s)'
      <4>1. ASSUME NEW st, Follows(c, s, st)
            PROVE  Follows(c, s, st)'
        BY <1>1, <1>2, <1>3, <4>1 DEF Follows, Sender, Awaits, Pending, Connected
      <4>2. Chain(c, s) /\ Connected(c)' = Connected(c)
        BY <1>1, <2>1 DEF ClientOK, Connected
      <4> QED BY <1>1, <4>1, <4>2 DEF Chain
    <3> QED BY <3>1, <3>2
  <2> QED BY <2>2, <2>3, <2>4 DEF ClientOK
<1> QED BY <1>4, <1>5, <1>6 DEF SubscriptionsInv, ClientOK

-----------------------------------------------------------------------------
(* What the invariant says of the screens. *)

\* A view is of the past of the chat.
LEMMA WholeFollows == ASSUME SubscriptionsAssumption, SubscriptionsInv PROVE Whole
<1>1. SUFFICES ASSUME NEW c \in Clients, NEW s \in Subs, Showing(c, s)
               PROVE  LET view == tab[c].view[s] IN
                      \E n \in 0..Len(log) : view.messages = Entries(n) /\ view.older = History(n).older
  BY DEF Whole, Views
<1>2. Chatted /\ SubOK(c, s)
  BY InvIs DEF TypeOK, ClientOK
<1>3. PICK view : view = tab[c].view[s]
  OBVIOUS
<1>4. view \in Past /\ view # Gone
  BY <1>1, <1>2, <1>3 DEF SubOK, Showing
<1>5. \E n \in 0..Len(log) : view.messages = Entries(n) /\ view.older = History(n).older
  BY <1>2, <1>4, PastIs
<1> QED BY <1>3, <1>5

\* With nothing on its way, a view is what the server took it to be, and that is the chat as it is.
LEMMA CaughtUpFollows == ASSUME SubscriptionsAssumption, SubscriptionsInv PROVE CaughtUp
<1>1. SUFFICES ASSUME NEW c \in Clients, NEW s \in Wanted(c), Connected(c), conn[c].push = None, down[c] = <<>>,
                      ~timer, c \notin owed, ~gone
               PROVE  tab[c].view[s] = Now
  BY DEF CaughtUp
<1>2. Chatted /\ ClientOK(c) /\ PushOK(c) /\ Shows(c) /\ s \in Subs /\ tab[c].decoders[s] # None /\ Chain(c, s)
  BY InvIs DEF TypeOK, ClientOK, Wanted
<1>3. ~Awaits(c, s)
  BY <1>1 DEF Awaits, Pending
<1>4. Tip(c, s) = Now
  BY <1>1, <1>2, <1>3 DEF Shows, PushOK
<1>5. Now # None
  BY <1>2, PastIs
<1>6. Len(down[c]) = 0
  BY <1>1
<1>7. PICK st : Follows(c, s, st)
  BY <1>1, <1>2 DEF Chain
<1>8. st[0].view = tab[c].view[s] /\ Sender(c, s, st[0])
  BY <1>6, <1>7 DEF Follows
<1>9. CASE conn[c].encoders[s] = None
  BY <1>4, <1>5, <1>8, <1>9 DEF Sender, Tip
<1>10. CASE conn[c].encoders[s] # None
  <2>1. st[0].view = st[0].snapshot
        /\ conn[c].encoders[s] = [previous |-> st[0].snapshot, revision |-> st[0].revision]
    BY <1>8, <1>10 DEF Sender
  <2>2. conn[c].encoders[s].previous = st[0].snapshot
    BY <2>1
  <2> QED BY <1>4, <1>8, <1>10, <2>1, <2>2 DEF Tip
<1> QED BY <1>9, <1>10

LEMMA ScreenFollows == ASSUME SubscriptionsAssumption, SubscriptionsInv PROVE ScreenIsTrue
BY WholeFollows, CaughtUpFollows DEF ScreenIsTrue

\* What a step may make of a view.
OnlyForward(v, w) ==
  v # None /\ w # None =>
    /\ v = Gone => w = Gone
    /\ {v, w} \cap {None, Gone} = {} => LastId(v) <= LastId(w) /\ v.meta <= w.meta

\* A later stage is no step back.
LEMMA BeforeIs ==
  ASSUME SubscriptionsAssumption, NEW v, NEW w, Before(v, w)
  PROVE  OnlyForward(v, w)
BY NoneIsNo DEF Before, OnlyForward

LEMMA SameIs ==
  ASSUME SubscriptionsAssumption, Chatted, NEW v \in Past \cup {None}
  PROVE  OnlyForward(v, v)
<1>1. CASE v \in {None, Gone}
  BY <1>1 DEF OnlyForward
<1>2. CASE v \notin {None, Gone}
  <2>1. v \in Snapshots /\ LastId(v) \in Nat /\ v.meta \in Nat
    BY <1>2, PastIs
  <2> QED BY <1>2, <2>1 DEF OnlyForward
<1> QED BY <1>1, <1>2

\* No view of any tab goes back.
ViewsForward == \A c \in Clients, s \in Subs : OnlyForward(tab[c].view[s], tab'[c].view[s])

LEMMA StillForward ==
  ASSUME SubscriptionsAssumption, SubscriptionsInv, \A c \in Clients : tab'[c].view = tab[c].view
  PROVE  ViewsForward
<1>1. SUFFICES ASSUME NEW c \in Clients, NEW s \in Subs
               PROVE  OnlyForward(tab[c].view[s], tab'[c].view[s])
  BY DEF ViewsForward
<1>2. Chatted /\ SubOK(c, s)
  BY InvIs DEF TypeOK, ClientOK
<1>3. PICK v \in Past \cup {None} : v = tab[c].view[s]
  BY <1>2 DEF SubOK
<1>4. OnlyForward(v, v)
  BY <1>2, SameIs
<1>5. tab'[c].view[s] = v
  BY <1>3
<1> QED BY <1>3, <1>4, <1>5

\* Which steps change views, and how.
LEMMA SubscribeForward ==
  ASSUME SubscriptionsAssumption, SubscriptionsInv, NEW c \in Clients, NEW s \in Subs, Subscribe(c, s)
  PROVE  ViewsForward
<1>1. TypeOK /\ tab \in [Clients -> Tabs]
  BY InvIs DEF TypeOK
<1>2. PICK stream \in Nat : stream = tab[c].generation
  BY <1>1 DEF Tabs
<1>3. PICK d \in MaybeDecoder : d = NewDecoder(stream)
  BY NewDecoderIs, NoneIsNo DEF MaybeDecoder
<1>4. tab' = [tab EXCEPT ![c].decoders[s] = d]
  BY <1>2, <1>3 DEF Subscribe
<1>5. Others(tab, tab', c) /\ tab'[c].view = tab[c].view
  BY <1>1, <1>3, <1>4, Redecoded, Zenon
<1>6. \A e \in Clients : tab'[e].view = tab[e].view
  BY <1>5 DEF Others
<1> QED BY <1>6, StillForward

LEMMA ConnectForward ==
  ASSUME SubscriptionsAssumption, SubscriptionsInv, NEW c \in Clients, Connect(c)
  PROVE  ViewsForward
<1>1. TypeOK /\ tab \in [Clients -> Tabs] /\ tab[c] \in Tabs
  BY InvIs DEF TypeOK
<1>2. PICK ds, stream : tab' = [tab EXCEPT ![c].generation = stream, ![c].decoders = ds]
  BY Zenon DEF Connect
<1> DEFINE T == [tab EXCEPT ![c].generation = stream]
<1>3. tab' = [T EXCEPT ![c].decoders = ds]
  BY <1>2, Zenon
<1>4. DOMAIN T = Clients /\ (\A e \in Clients \ {c} : T[e] = tab[e]) /\ T[c].view = tab[c].view
      /\ DOMAIN T[c] = DOMAIN tab[c]
  BY <1>1 DEF Tabs
<1> HIDE DEF T
<1>5. (\A e \in Clients \ {c} : tab'[e] = T[e]) /\ tab'[c].view = T[c].view
  <2>1. \A e \in Clients \ {c} : tab'[e] = T[e]
    BY <1>3, <1>4
  <2>2. tab'[c] = [T[c] EXCEPT !.decoders = ds]
    BY <1>3, <1>4
  <2>3. "view" \in DOMAIN T[c]
    BY <1>1, <1>4 DEF Tabs
  <2> QED BY <2>1, <2>2, <2>3
<1>6. \A e \in Clients : tab'[e].view = tab[e].view
  BY <1>4, <1>5
<1> QED BY <1>6, StillForward

\* A step that changes one view of one client.
LEMMA OneForward ==
  ASSUME SubscriptionsAssumption, SubscriptionsInv, NEW c \in Clients, NEW s \in Subs, Others(tab, tab', c),
         \A t \in Subs \ {s} : tab'[c].view[t] = tab[c].view[t], OnlyForward(tab[c].view[s], tab'[c].view[s])
  PROVE  ViewsForward
<1>1. SUFFICES ASSUME NEW d \in Clients, NEW t \in Subs
               PROVE  OnlyForward(tab[d].view[t], tab'[d].view[t])
  BY DEF ViewsForward
<1>2. CASE d = c /\ t = s
  BY <1>2
<1>3. CASE ~(d = c /\ t = s)
  <2>1. Chatted /\ SubOK(d, t)
    BY InvIs DEF TypeOK, ClientOK
  <2>2. PICK v \in Past \cup {None} : v = tab[d].view[t]
    BY <2>1 DEF SubOK
  <2>3. OnlyForward(v, v)
    BY <2>1, SameIs
  <2>4. tab'[d].view[t] = tab[d].view[t]
    <3>1. CASE d # c
      BY <3>1 DEF Others
    <3>2. CASE d = c
      BY <1>3, <3>2
    <3> QED BY <3>1, <3>2
  <2> QED BY <2>2, <2>3, <2>4
<1> QED BY <1>2, <1>3

LEMMA UnsubscribeForward ==
  ASSUME SubscriptionsAssumption, SubscriptionsInv, NEW c \in Clients, NEW s \in Subs, Unsubscribe(c, s)
  PROVE  ViewsForward
<1>1. TypeOK /\ tab \in [Clients -> Tabs]
  BY InvIs DEF TypeOK
<1>2. PICK none : none \in MaybeDecoder /\ none \in MaybeView /\ none = None
  BY DEF MaybeDecoder, MaybeView
<1> DEFINE T == [tab EXCEPT ![c].decoders[s] = none]
           X == [T EXCEPT ![c].view[s] = none]
           V == [X EXCEPT ![c].closed = @ \cup {s}]
<1>3. tab' = V
  BY <1>2, Zenon DEF Unsubscribe
<1>4. Others(tab, T, c) /\ T[c].view = tab[c].view
  <2>1. Others(tab, T, c)
    BY <1>1, <1>2, DecoderSet
  <2>2. T[c].view = tab[c].view
    BY <1>1, <1>2, DecoderSet
  <2> QED BY <2>1, <2>2
<1>4a. T \in [Clients -> Tabs]
  BY <1>4 DEF Others
<1> HIDE DEF T
<1>5. Others(T, X, c) /\ X[c].view[s] = none /\ \A t \in Subs \ {s} : X[c].view[t] = T[c].view[t]
  <2>1. Others(T, X, c)
    BY <1>4a, <1>2, ViewSet
  <2>2. X[c].view[s] = none
    BY <1>4a, <1>2 DEF Tabs, MaybeView
  <2>3. \A t \in Subs \ {s} : X[c].view[t] = T[c].view[t]
    BY <1>4a, <1>2, ViewSet
  <2> QED BY <2>1, <2>2, <2>3
<1>5a. X \in [Clients -> Tabs]
  BY <1>5 DEF Others
<1> HIDE DEF X
<1>6. Others(X, V, c) /\ V[c].view = X[c].view
  <2>1. Others(X, V, c)
    BY <1>5a, ClosedSet
  <2>2. V[c].view = X[c].view
    BY <1>5a, ClosedSet
  <2> QED BY <2>1, <2>2
<1> HIDE DEF V
<1>7. Others(tab, tab', c) /\ tab'[c].view[s] = None /\ \A t \in Subs \ {s} : tab'[c].view[t] = tab[c].view[t]
  BY <1>2, <1>3, <1>4, <1>5, <1>6 DEF Others
<1>8. OnlyForward(tab[c].view[s], tab'[c].view[s])
  BY <1>7 DEF OnlyForward
<1> QED BY <1>7, <1>8, OneForward

LEMMA ReceiveForward ==
  ASSUME SubscriptionsAssumption, SubscriptionsInv, NEW c \in Clients, Receive(c)
  PROVE  ViewsForward
<1>1. TypeOK /\ ClientOK(c) /\ down[c] \in Seq(Mail) /\ down[c] # <<>> /\ Connected(c)
  BY InvIs DEF TypeOK, Receive
<1>2. PICK s \in Subs : s = Head(down[c]).sub
  <2>1. Head(down[c]) \in Mail
    BY <1>1
  <2> QED BY <2>1 DEF Mail
<1>3. CASE tab[c].decoders[s] = None
  <2>1. tab' = tab
    BY <1>2, <1>3, NotReceived
  <2> QED BY <2>1, StillForward
<1>4. CASE tab[c].decoders[s] # None
  <2>1. Chain(c, s)
    BY <1>1 DEF ClientOK
  <2>2. PICK st \in [0..Len(down[c]) -> Stage] : Follows(c, s, st)
    BY <1>1, <1>4, <2>1 DEF Chain
  <2>3. /\ Others(tab, tab', c) /\ Before(tab[c].view[s], tab'[c].view[s])
        /\ \A t \in Subs \ {s} : tab'[c].view[t] = tab[c].view[t]
    BY <1>2, <1>4, <2>2, ReceivedIs
  <2>4. PICK v, w : v = tab[c].view[s] /\ w = tab'[c].view[s]
    OBVIOUS
  <2>5. OnlyForward(v, w)
    BY <2>3, <2>4, BeforeIs
  <2> QED BY <2>3, <2>4, <2>5, OneForward
<1> QED BY <1>3, <1>4

\* No step takes a view back.
LEMMA ForwardStep == ASSUME SubscriptionsAssumption, SubscriptionsInv, Next PROVE ViewsForward
<1>1. CASE tab' = tab
  BY <1>1, StillForward
<1>2. CASE \E c \in Clients : Connect(c) \/ Receive(c)
  BY <1>2, ConnectForward, ReceiveForward
<1>3. CASE \E c \in Clients : \E s \in Subs : Subscribe(c, s) \/ Unsubscribe(c, s)
  BY <1>3, SubscribeForward, UnsubscribeForward
<1>4. ASSUME TimerFires \/ ChangeMeta \/ Delete \/ OtherChange
             \/ (\E record \in {"call", "result"} : Record(record))
             \/ (\E k \in DOMAIN reads : ReadDone(k) \/ ReadFails(k))
                \/ (\E c \in Clients : Push(c) \/ Disconnect(c))
      PROVE  tab' = tab
  BY <1>4 DEF TimerFires, ChangeMeta, Delete, OtherChange, Record, ReadDone, ReadFails, Push, OtherPushed, Compose,
     Disconnect
<1> QED BY <1>1, <1>2, <1>3, <1>4 DEF Next

LEMMA ForwardIs ==
  ASSUME ViewsForward
  PROVE  \A v \in Views : LET old == tab[v[1]].view[v[2]] new == tab'[v[1]].view[v[2]] IN
           old # None /\ new # None =>
             /\ old = Gone => new = Gone
             /\ {old, new} \intersect {None, Gone} = {} => LastId(old) <= LastId(new) /\ old.meta <= new.meta
<1>1. \A v \in Views : v[1] \in Clients /\ v[2] \in Subs
  BY DEF Views
<1> QED BY <1>1 DEF ViewsForward, OnlyForward

\* Every screen shows the chat as it was at some point, entry by entry, and, once nothing
\* is under way, no failed read ended its last push and the chat is not deleted, the chat
\* as it is: pushes that
\* were coalesced, reads and prepared snapshots that were shared, deltas and reconnects
\* lose nothing (ws-router.ts pushSnapshots, chat-stream.ts encode and receive).
THEOREM ScreenIsTrueHolds ==
  ASSUME SubscriptionsAssumption
  PROVE  MCSpec => []ScreenIsTrue
<1>1. MCInit => SubscriptionsInv
  BY InitOK DEF MCInit
<1>2. SubscriptionsInv /\ [MCNext]_<<topic, vars, command>> => SubscriptionsInv'
  BY SubscriptionsStep, SubscriptionsStutter DEF MCNext
<1>3. SubscriptionsInv => ScreenIsTrue
  BY ScreenFollows
<1> QED BY <1>1, <1>2, <1>3, PTL DEF MCSpec

\* No screen goes back to an earlier state of the chat, also not across a reconnect or
\* through a read that a broadcast shared (socket.ts, ws-router.ts).
THEOREM NeverBackHolds ==
  ASSUME SubscriptionsAssumption
  PROVE  MCSpec => NeverBack
<1>1. MCInit => SubscriptionsInv
  BY InitOK DEF MCInit
<1>2. SubscriptionsInv /\ [MCNext]_<<topic, vars, command>> => SubscriptionsInv'
  BY SubscriptionsStep, SubscriptionsStutter DEF MCNext
<1> DEFINE Forward == \A v \in Views : LET old == tab[v[1]].view[v[2]] new == tab'[v[1]].view[v[2]] IN
           old # None /\ new # None =>
             /\ old = Gone => new = Gone
             /\ {old, new} \intersect {None, Gone} = {} => LastId(old) <= LastId(new) /\ old.meta <= new.meta
<1>3. SubscriptionsInv /\ [MCNext]_<<topic, vars, command>> => [Forward]_vars
  <2>1. ASSUME SubscriptionsInv, Next
        PROVE  Forward
    BY <2>1, ForwardStep, ForwardIs
  <2>2. [MCNext]_<<topic, vars, command>> => Next \/ UNCHANGED vars
    BY DEF MCNext
  <2> HIDE DEF Forward
  <2> QED BY <2>1, <2>2
<1> QED BY <1>1, <1>2, <1>3, PTL DEF MCSpec, NeverBack
=============================================================================
