------------------------- MODULE TrackerClaimProofs -------------------------
(***************************************************************************)
(* For any number of runs, daemons, calls and comments:                    *)
(* - until the first claim gets old, one run at most is told that it holds *)
(*   the issue, as long as a read sees every comment, claims have distinct *)
(*   times and no call fails between its claim and its answer (IInv);      *)
(* - where comments are listed oldest first, the claimants never all       *)
(*   yield, whatever fails, and if all callers use one window a run is     *)
(*   turned away only for a run whose claim stands (Base and Contest).     *)
(***************************************************************************)
EXTENDS TrackerClaim, TLAPS

\* The steps of a call whose claim is posted and not yet answered.
Posting == {"check", "assign", "reread", "yield"}

AllFresh == \A i \in Claims, w \in Windows : Fresh(i, w)

First(i) == i \in Claims /\ \A j \in Claims : i <= j

\* Comments are dated in order, and claims have times of their own.
DatedInOrder ==
  /\ \A i \in DOMAIN thread : thread[i].at <= clock
  /\ \A i, j \in Claims : i < j => thread[i].at < thread[j].at

\* Any comments chosen from the thread have an oldest and a newest one.
Bounded ==
  \A S \in SUBSET DOMAIN thread : S # {} =>
    /\ \E m \in S : \A j \in S : j <= m
    /\ \E m \in S : \A j \in S : m <= j

\* A call belongs to its daemon's run, and one that has posted has its claim.
CallsHaveClaims ==
  \A d \in Daemons :
    /\ call[d].pc # "idle" => Home[call[d].run] = d
    /\ call[d].pc \in Posting =>
         \E i \in Claims : thread[i].run = call[d].run /\ thread[i].at = call[d].mine

\* Only a run that has claimed yields.
YieldsHaveClaims ==
  \A j \in Posted("yield") : \E i \in Claims : thread[i].run = thread[j].run

\* Whoever was told it holds the issue posted the first claim.
ClaimedIsFirst ==
  \A r \in Runs : answer[r].verdict = "claimed" =>
    \E i \in Claims : First(i) /\ thread[i].run = r

\* The run of the first claim does not yield.
FirstNeverYields ==
  \A f \in Claims : First(f) =>
    \A j \in Posted("yield") : thread[j].run # thread[f].run

\* A later claim is yielded, or its call is still on its way to yield.
LosersYield ==
  \A f, i \in Claims : First(f) /\ thread[i].run # thread[f].run =>
    \/ \E j \in Posted("yield") : j > i /\ thread[j].run = thread[i].run
    \/ LET c == call[Home[thread[i].run]] IN c.pc \in Posting /\ c.run = thread[i].run

\* A run about to post has posted nothing, and nobody claims twice.
OneClaimEach ==
  /\ \A d \in Daemons : call[d].pc = "post" =>
       \A i \in Claims : thread[i].run # call[d].run
  /\ \A i, j \in Claims : thread[i].run = thread[j].run => i = j

\* A call that yields has an earlier claim to yield to.
YieldsToEarlier ==
  \A d \in Daemons : call[d].pc = "yield" =>
    \E i \in Claims : thread[i].run # call[d].run /\ thread[i].at < call[d].mine

Race ==
  /\ ClaimedIsFirst /\ FirstNeverYields /\ LosersYield
  /\ OneClaimEach /\ YieldsToEarlier

IInv ==
  /\ TypeOK /\ DatedInOrder /\ Bounded /\ CallsHaveClaims /\ YieldsHaveClaims
  /\ AllFresh => Race

---------------------------------------------------------------------------
(* The thread.                                                             *)

\* What posting a comment does to the thread.
LEMMA Appending ==
  ASSUME TypeOK, NEW c \in Comments, thread' = Append(thread, c)
  PROVE  /\ DOMAIN thread \subseteq Nat /\ DOMAIN thread' \subseteq Nat
         /\ DOMAIN thread' = DOMAIN thread \cup {Len(thread) + 1}
         /\ \A i \in DOMAIN thread : i < Len(thread) + 1 /\ thread'[i] = thread[i]
         /\ thread'[Len(thread) + 1] = c
         /\ Len(thread) + 1 \in Nat
BY DEF TypeOK

\* The fields of what the variables hold.
LEMMA Fields ==
  ASSUME TypeOK
  PROVE  /\ \A i \in DOMAIN thread : thread[i] \in Comments /\ thread[i].run \in Runs
                                     /\ thread[i].at \in Nat /\ i \in Nat
         /\ \A d \in Daemons : call[d] \in Calls /\ call[d].run \in Runs
                               /\ call[d].mine \in Nat /\ call[d].to \in Runs
                               /\ call[d].stale \in Windows
         /\ clock \in Nat
<1>1. ASSUME NEW i \in DOMAIN thread
      PROVE  thread[i] \in Comments /\ i \in Nat
  BY DEF TypeOK
<1>2. ASSUME NEW c \in Comments
      PROVE  c.run \in Runs /\ c.at \in Nat
  BY ClaimAssumption DEF Comments
<1>3. ASSUME NEW d \in Daemons
      PROVE  call[d] \in Calls
  BY DEF TypeOK
<1>4. ASSUME NEW c \in Calls
      PROVE  c.run \in Runs /\ c.mine \in Nat /\ c.to \in Runs /\ c.stale \in Windows
  BY ClaimAssumption DEF Calls
<1>5. clock \in Nat
  BY ClaimAssumption DEF TypeOK
<1>6. QED
  BY <1>1, <1>2, <1>3, <1>4, <1>5

\* A read returns the whole thread.
LEMMA WholePage ==
  ASSUME TypeOK, Benign
  PROVE  Page = DOMAIN thread
<1>1. DOMAIN thread = 1..Len(thread) /\ Len(thread) \in Nat
  BY DEF TypeOK
<1>2. Len(thread) <= PageSize /\ PageSize \in Nat
  BY <1>1, ClaimAssumption DEF TypeOK, Benign
<1>3. \A i \in DOMAIN thread : i <= PageSize /\ i > Len(thread) - PageSize
  BY <1>1, <1>2
<1>4. QED
  BY <1>3 DEF Page

LEMMA IdleTyped == Idle \in Calls
<1>1. StaleAfter \in Windows /\ (CHOOSE r \in Runs : TRUE) \in Runs
  BY ClaimAssumption
<1>2. QED
  BY <1>1, ClaimAssumption DEF Idle, Calls, Pcs

\* The claims of the model and of the properties are the same.
LEMMA MarkedClaims ==
  ASSUME NEW i \in DOMAIN thread
  PROVE  /\ Marked(i, "claim") <=> i \in Claims
         /\ Marked(i, "yield") <=> i \in Posted("yield")
BY DEF Marked, Claims, Posted

\* Posting a comment keeps the order of the thread and its bounds.
LEMMA BoundedGrows ==
  ASSUME TypeOK, Bounded, NEW c \in Comments, thread' = Append(thread, c)
  PROVE  Bounded'
<1> DEFINE n == Len(thread) + 1
<1>1. /\ DOMAIN thread \subseteq Nat /\ n \in Nat
      /\ DOMAIN thread' = DOMAIN thread \cup {n}
      /\ \A i \in DOMAIN thread : i < n
  BY Appending
<1> HIDE DEF n
<1> SUFFICES ASSUME NEW S \in SUBSET DOMAIN thread', S # {}
             PROVE  /\ \E m \in S : \A j \in S : j <= m
                    /\ \E m \in S : \A j \in S : m <= j
  BY DEF Bounded
<1>2. CASE n \notin S
  <2>1. S \in SUBSET DOMAIN thread
    BY <1>1, <1>2
  <2>2. QED
    BY <2>1 DEF Bounded
<1>3. CASE n \in S
  <2>1. \E m \in S : \A j \in S : j <= m
    <3>1. \A j \in S : j <= n
      BY <1>1, <1>3
    <3>2. QED
      BY <3>1, <1>3
  <2>2. \E m \in S : \A j \in S : m <= j
    <3>1. CASE S \ {n} = {}
      <4>1. \A j \in S : n <= j
        BY <1>1, <1>3, <3>1
      <4>2. QED
        BY <4>1, <1>3
    <3>2. CASE S \ {n} # {}
      <4>1. PICK m \in S \ {n} : \A j \in S \ {n} : m <= j
        <5>1. S \ {n} \in SUBSET DOMAIN thread
          BY <1>1
        <5>2. QED
          BY <5>1, <3>2 DEF Bounded
      <4>2. m <= n
        BY <1>1, <4>1
      <4>3. QED
        BY <4>1, <4>2
    <3>3. QED
      BY <3>1, <3>2
  <2>3. QED
    BY <2>1, <2>2
<1>4. QED
  BY <1>2, <1>3

\* Some claim is the first, once there is one.
LEMMA FirstExists ==
  ASSUME Bounded, Claims # {}
  PROVE  \E f \in Claims : First(f)
<1>1. Claims \in SUBSET DOMAIN thread
  BY DEF Claims, Posted
<1>2. QED
  BY <1>1 DEF Bounded, First

\* A standing claim makes some claim the latest.
LEMMA LatestExists ==
  ASSUME TypeOK, Bounded, Standing(DOMAIN thread) # {}
  PROVE  \E i \in DOMAIN thread : latestClaim(DOMAIN thread, i)
<1>1. Standing(DOMAIN thread) \in SUBSET DOMAIN thread /\ DOMAIN thread \subseteq Nat
  BY DEF Standing, TypeOK
<1>2. PICK m \in Standing(DOMAIN thread) : \A j \in Standing(DOMAIN thread) : j <= m
  BY <1>1 DEF Bounded
<1>3. PICK l \in Standing(DOMAIN thread) : \A j \in Standing(DOMAIN thread) : l <= j
  BY <1>1 DEF Bounded
<1>4. CASE Provider = "github"
  <2>1. \A j \in Standing(DOMAIN thread) : j = m \/ j < m
    BY <1>1, <1>2
  <2>2. QED
    BY <1>1, <1>2, <1>4, <2>1 DEF latestClaim, Before
<1>5. CASE Provider # "github"
  <2>1. \A j \in Standing(DOMAIN thread) : j = l \/ j > l
    BY <1>1, <1>3
  <2>2. QED
    BY <1>1, <1>3, <1>5, <2>1 DEF latestClaim, Before
<1>6. QED
  BY <1>4, <1>5

\* Claims that were all fresh stay the only ones that can be.
LEMMA FreshBefore ==
  ASSUME TypeOK, AllFresh', clock' \in Nat, clock <= clock',
         \/ thread' = thread
         \/ \E c \in Comments : thread' = Append(thread, c)
  PROVE  AllFresh
<1> SUFFICES ASSUME NEW i \in Claims, NEW w \in Windows PROVE Fresh(i, w)
  BY DEF AllFresh
<1>1. i \in Claims' /\ thread'[i] = thread[i]
  BY Appending DEF Claims, Posted
<1>2. clock' - thread[i].at < w
  BY <1>1 DEF AllFresh, Fresh
<1>3. thread[i].at \in Nat /\ clock \in Nat
  BY Fields DEF Claims, Posted
<1>4. QED
  BY <1>2, <1>3, ClaimAssumption DEF Fresh

---------------------------------------------------------------------------
(* Types.                                                                  *)

LEMMA ReturnTyped ==
  ASSUME TypeOK, NEW d \in Daemons, NEW r \in Runs, NEW h \in Runs,
         NEW v \in {"claimed", "refused", "error"}, Return(d, r, v, h)
  PROVE  call' \in [Daemons -> Calls] /\ answer' \in [Runs -> Answers]
<1>1. call' \in [Daemons -> Calls]
  BY IdleTyped DEF Return, TypeOK
<1>2. [verdict |-> v, holder |-> h] \in Answers
  BY DEF Answers
<1>3. answer' \in [Runs -> Answers]
  BY <1>2 DEF Return, TypeOK
<1>4. QED
  BY <1>1, <1>3

LEMMA GotoTyped ==
  ASSUME TypeOK, NEW d \in Daemons, NEW p \in Pcs, Goto(d, p)
  PROVE  call' \in [Daemons -> Calls] /\ answer' \in [Runs -> Answers]
BY DEF Goto, TypeOK, Calls

LEMMA WriteTyped ==
  ASSUME TypeOK, NEW r \in Runs, NEW k \in {"claim", "yield"}, Write(r, k),
         Len(thread) < MaxThread
  PROVE  /\ thread' \in Seq(Comments) /\ Len(thread') <= MaxThread
         /\ [run |-> r, kind |-> k, at |-> clock, by |-> "broker"] \in Comments
<1>1. [run |-> r, kind |-> k, at |-> clock, by |-> "broker"] \in Comments
  BY DEF Comments, TypeOK
<1>2. QED
  BY <1>1, ClaimAssumption DEF TypeOK, Write

LEMMA HomeIsADaemon == \A r \in Runs : Home[r] \in Daemons
BY ClaimAssumption

LEMMA AskTyped == ASSUME TypeOK, NEW r \in Runs, NEW w \in Windows, Ask(r, w) PROVE TypeOK'
<1>1. Home[r] \in Daemons
  BY HomeIsADaemon
<1>2. asks' \in 0..MaxAsks /\ registered' \subseteq Runs
  BY ClaimAssumption DEF Ask, TypeOK
<1>3. call' \in [Daemons -> Calls] /\ answer' \in [Runs -> Answers]
  <2>1. CASE \E v \in {"claimed", "refused", "error"}, h \in Runs : Return(Home[r], r, v, h)
    BY <2>1, <1>1, ReturnTyped
  <2>2. CASE call' = [call EXCEPT ![Home[r]].pc = "post", ![Home[r]].run = r,
                                  ![Home[r]].stale = w]
             /\ UNCHANGED answer
    BY <2>2, <1>1 DEF TypeOK, Calls, Pcs
  <2>3. \A i \in Page : thread[i].run \in Runs
    BY Fields DEF Page
  <2>4. QED
    BY <2>1, <2>2, <2>3 DEF Ask
<1>4. QED
  BY <1>2, <1>3 DEF Ask, TypeOK

LEMMA PostTyped == ASSUME TypeOK, NEW d \in Daemons, Post(d) PROVE TypeOK'
<1>1. call[d].run \in Runs
  BY Fields
<1>2. thread' \in Seq(Comments) /\ Len(thread') <= MaxThread
  BY <1>1, WriteTyped DEF Post, TypeOK
<1>3. call' \in [Daemons -> Calls] /\ answer' \in [Runs -> Answers]
  <2>1. CASE Return(d, call[d].run, "error", call[d].run)
    BY <2>1, <1>1, ReturnTyped
  <2>2. CASE call' = [call EXCEPT ![d].pc = "check", ![d].mine = clock]
             /\ UNCHANGED answer
    BY <2>2 DEF TypeOK, Calls, Pcs
  <2>3. QED
    BY <2>1, <2>2 DEF Post
<1>4. QED
  BY <1>2, <1>3 DEF Post, TypeOK

LEMMA AssignTyped ==
  ASSUME TypeOK, NEW d \in Daemons, CheckAssignee(d) \/ AssignIfUnassigned(d)
  PROVE  TypeOK'
<1>1. call[d].run \in Runs
  BY Fields
<1>2. \/ Return(d, call[d].run, "error", call[d].run)
      \/ Goto(d, "assign") \/ Goto(d, "reread")
  BY DEF CheckAssignee, AssignIfUnassigned
<1>3. call' \in [Daemons -> Calls] /\ answer' \in [Runs -> Answers]
  BY <1>1, <1>2, ReturnTyped, GotoTyped DEF Pcs
<1>4. assignees' \subseteq {"broker", "person"}
  BY DEF CheckAssignee, AssignIfUnassigned, TypeOK
<1>5. QED
  BY <1>3, <1>4 DEF CheckAssignee, AssignIfUnassigned, TypeOK

LEMMA RereadTyped == ASSUME TypeOK, NEW d \in Daemons, Reread(d) PROVE TypeOK'
<1>1. call[d].run \in Runs /\ \A i \in Page : thread[i].run \in Runs
  BY Fields DEF Page
<1>2. call' \in [Daemons -> Calls] /\ answer' \in [Runs -> Answers]
  <2>1. CASE \E v \in {"claimed", "error"} : Return(d, call[d].run, v, call[d].run)
    BY <2>1, <1>1, ReturnTyped
  <2>2. ASSUME NEW h \in Runs, UNCHANGED answer,
               call' = [call EXCEPT ![d].pc = "yield", ![d].to = h]
        PROVE  call' \in [Daemons -> Calls] /\ answer' \in [Runs -> Answers]
    BY <2>2 DEF TypeOK, Calls, Pcs
  <2>3. \/ \E v \in {"claimed", "error"} : Return(d, call[d].run, v, call[d].run)
        \/ \E i \in Page : /\ call' = [call EXCEPT ![d].pc = "yield", ![d].to = thread[i].run]
                           /\ UNCHANGED answer
    BY DEF Reread
  <2>4. QED
    BY <2>1, <2>2, <2>3, <1>1
<1>3. QED
  BY <1>2 DEF Reread, TypeOK

LEMMA YieldTyped == ASSUME TypeOK, NEW d \in Daemons, Yield(d) PROVE TypeOK'
<1>1. call[d].run \in Runs /\ call[d].to \in Runs
  BY Fields
<1>2. thread' \in Seq(Comments) /\ Len(thread') <= MaxThread
  BY <1>1, WriteTyped DEF Yield, TypeOK
<1>3. call' \in [Daemons -> Calls] /\ answer' \in [Runs -> Answers]
  BY <1>1, ReturnTyped DEF Yield
<1>4. QED
  BY <1>2, <1>3 DEF Yield, TypeOK

LEMMA WorldTyped ==
  ASSUME TypeOK,
         \/ \E r \in Runs : EndRun(r)
         \/ \E d \in Daemons : Restart(d)
         \/ Tick \/ PersonAssigns
  PROVE  TypeOK'
<1>1. CASE \E r \in Runs : EndRun(r)
  BY <1>1, ClaimAssumption DEF EndRun, Event, TypeOK
<1>2. ASSUME NEW d \in Daemons, Restart(d) PROVE TypeOK'
  <2>1. call' \in [Daemons -> Calls] /\ answer' \in [Runs -> Answers]
    BY <1>2, Fields, ReturnTyped DEF Restart, TypeOK
  <2>2. QED
    BY <1>2, <2>1, ClaimAssumption DEF Restart, Event, TypeOK
<1>3. CASE Tick
  BY <1>3, ClaimAssumption DEF Tick, TypeOK
<1>4. CASE PersonAssigns
  BY <1>4, ClaimAssumption DEF PersonAssigns, Event, TypeOK
<1>5. QED
  BY <1>1, <1>2, <1>3, <1>4

LEMMA QuoteTyped ==
  ASSUME TypeOK, Quote
  PROVE  TypeOK' /\ \E c \in Comments : c.by = "person" /\ c.at = clock
                                        /\ thread' = Append(thread, c)
<1>1. PICK i \in DOMAIN thread :
        thread' = Append(thread, [thread[i] EXCEPT !.by = "person", !.at = clock])
  BY DEF Quote
<1> DEFINE c == [thread[i] EXCEPT !.by = "person", !.at = clock]
<1>2. c \in Comments /\ c.by = "person" /\ c.at = clock
  BY Fields DEF Comments, TypeOK
<1>3. thread' \in Seq(Comments) /\ Len(thread') <= MaxThread
  BY <1>1, <1>2, ClaimAssumption DEF TypeOK, Quote
<1>4. TypeOK'
  BY <1>3, ClaimAssumption DEF Quote, Event, TypeOK
<1>5. QED
  BY <1>1, <1>2, <1>4

---------------------------------------------------------------------------
(* Steps that post nothing for the broker.                                 *)

\* The claims, the yields and what is known of them stay.
SameMarkers ==
  /\ Claims' = Claims /\ Posted("yield")' = Posted("yield")
  /\ \A i \in Claims \cup Posted("yield") : thread'[i] = thread[i]
  /\ AllFresh' => AllFresh
  /\ DatedInOrder' /\ Bounded'

\* What such a step may do to the calls and the answers.
QuietCalls ==
  \A e \in Daemons :
    /\ call'[e].pc # "idle" => Home[call'[e].run] = e
    /\ call'[e].pc \in Posting =>
         call[e].pc \in Posting /\ call'[e].run = call[e].run /\ call'[e].mine = call[e].mine
    /\ AllFresh /\ call'[e].pc = "post" =>
         \A i \in Claims : thread[i].run # call'[e].run
    /\ AllFresh /\ call'[e].pc = "yield" =>
         \E i \in Claims : thread[i].run # call'[e].run /\ thread[i].at < call'[e].mine
    /\ AllFresh /\ call[e].pc \in Posting =>
         \/ call'[e].pc \in Posting
         \/ \A f \in Claims : First(f) => thread[f].run = call[e].run

QuietAnswers ==
  \A r \in Runs : AllFresh /\ answer'[r].verdict = "claimed" =>
    \E f \in Claims : First(f) /\ thread[f].run = r

LEMMA QuietStep ==
  ASSUME IInv, TypeOK', SameMarkers, QuietCalls, QuietAnswers
  PROVE  IInv'
<1>1. \A i : First(i)' <=> First(i)
  BY DEF First, SameMarkers
<1>2. CallsHaveClaims'
  BY DEF IInv, CallsHaveClaims, SameMarkers, QuietCalls
<1>3. ASSUME AllFresh' PROVE Race'
  <2>1. AllFresh /\ Race
    BY <1>3 DEF SameMarkers, IInv
  <2>2. ClaimedIsFirst'
    BY <1>1, <2>1 DEF QuietAnswers, SameMarkers, ClaimedIsFirst
  <2>3. FirstNeverYields'
    BY <1>1, <2>1 DEF Race, FirstNeverYields, SameMarkers
  <2>4. LosersYield'
    <3> SUFFICES ASSUME NEW f \in Claims, NEW i \in Claims, First(f),
                        thread[i].run # thread[f].run,
                        ~ \E j \in Posted("yield") : j > i /\ thread[j].run = thread[i].run
                 PROVE  LET c == call'[Home[thread[i].run]]
                        IN c.pc \in Posting /\ c.run = thread[i].run
      BY <1>1 DEF LosersYield, SameMarkers
    <3> DEFINE e == Home[thread[i].run]
    <3>1. e \in Daemons
      BY Fields, HomeIsADaemon DEF IInv, Claims, Posted
    <3>2. call[e].pc \in Posting /\ call[e].run = thread[i].run
      BY <2>1 DEF Race, LosersYield
    <3>3. QED
      BY <2>1, <3>1, <3>2 DEF QuietCalls
  <2>5. OneClaimEach'
    BY <2>1 DEF Race, OneClaimEach, SameMarkers, QuietCalls
  <2>6. YieldsToEarlier'
    BY <2>1 DEF QuietCalls, SameMarkers, YieldsToEarlier
  <2>7. QED
    BY <2>2, <2>3, <2>4, <2>5, <2>6 DEF Race
<1>4. YieldsHaveClaims'
  BY DEF IInv, YieldsHaveClaims, SameMarkers
<1>5. QED
  BY <1>2, <1>3, <1>4 DEF IInv, SameMarkers

\* A step that leaves thread and clock alone keeps the markers.
LEMMA StillMarkers ==
  ASSUME IInv, UNCHANGED <<thread, clock>>
  PROVE  SameMarkers
<1>1. Claims' = Claims /\ Posted("yield")' = Posted("yield")
  BY DEF Claims, Posted
<1>2. AllFresh' => AllFresh
  BY <1>1 DEF AllFresh, Fresh
<1>3. DatedInOrder'
  BY <1>1 DEF IInv, DatedInOrder
<1>4. Bounded'
  BY DEF IInv, Bounded
<1>5. QED
  BY <1>1, <1>2, <1>3, <1>4 DEF SameMarkers

\* So does the time that passes, ...
LEMMA TickMarkers ==
  ASSUME IInv, Tick
  PROVE  SameMarkers
<1>1. thread' = thread /\ clock' = clock + 1 /\ clock \in Nat
  BY Fields DEF Tick, IInv
<1>2. Claims' = Claims /\ Posted("yield")' = Posted("yield")
  BY <1>1 DEF Claims, Posted
<1>3. AllFresh' => AllFresh
  BY <1>1, FreshBefore DEF IInv
<1>4. DatedInOrder'
  <2>1. \A i \in DOMAIN thread : thread[i].at <= clock /\ thread[i].at \in Nat
    BY Fields DEF IInv, DatedInOrder
  <2>2. \A i \in DOMAIN thread' : thread'[i].at <= clock'
    BY <1>1, <2>1
  <2>3. QED
    BY <1>1, <1>2, <2>2 DEF IInv, DatedInOrder
<1>5. Bounded'
  BY <1>1 DEF IInv, Bounded
<1>6. QED
  BY <1>1, <1>2, <1>3, <1>4, <1>5 DEF SameMarkers

\* ... and a person's comment.
LEMMA QuoteMarkers ==
  ASSUME IInv, Quote
  PROVE  SameMarkers
<1>1. PICK c \in Comments : c.by = "person" /\ c.at = clock /\ thread' = Append(thread, c)
  BY QuoteTyped DEF IInv
<1>2. TypeOK /\ clock' = clock /\ clock \in Nat
  BY Fields DEF IInv, Quote
<1>3. /\ DOMAIN thread' = DOMAIN thread \cup {Len(thread) + 1}
      /\ \A i \in DOMAIN thread : thread'[i] = thread[i]
      /\ thread'[Len(thread) + 1] = c
  BY <1>1, <1>2, Appending
<1>4. Claims' = Claims /\ Posted("yield")' = Posted("yield")
  BY <1>1, <1>3 DEF Claims, Posted
<1>5. AllFresh' => AllFresh
  BY <1>1, <1>2, FreshBefore
<1>6. DatedInOrder'
  <2>1. \A i \in DOMAIN thread' : thread'[i].at <= clock'
    BY <1>1, <1>2, <1>3 DEF IInv, DatedInOrder
  <2>2. \A i \in Claims : thread'[i] = thread[i]
    BY <1>3 DEF Claims, Posted
  <2>3. QED
    BY <1>4, <2>1, <2>2 DEF IInv, DatedInOrder
<1>7. Bounded'
  BY <1>1, BoundedGrows DEF IInv
<1>8. \A i \in Claims \cup Posted("yield") : thread'[i] = thread[i]
  BY <1>3 DEF Claims, Posted
<1>9. QED
  BY <1>4, <1>5, <1>6, <1>7, <1>8 DEF SameMarkers

\* A call that stays, or that goes on without posting, is a quiet one.
LEMMA SameCallsQuiet ==
  ASSUME IInv, UNCHANGED <<call, answer>>
  PROVE  QuietCalls /\ QuietAnswers
<1>1. QuietCalls
  BY DEF IInv, Race, QuietCalls, CallsHaveClaims, OneClaimEach, YieldsToEarlier
<1>2. QuietAnswers
  BY DEF IInv, Race, QuietAnswers, ClaimedIsFirst
<1>3. QED
  BY <1>1, <1>2

\* One call moves, to a state of which the conditions of QuietCalls hold.
LEMMA OneCallQuiet ==
  ASSUME IInv, NEW d \in Daemons, NEW c \in Calls, call' = [call EXCEPT ![d] = c],
         c.pc # "idle" => Home[c.run] = d,
         c.pc \in Posting =>
           call[d].pc \in Posting /\ c.run = call[d].run /\ c.mine = call[d].mine,
         AllFresh /\ c.pc = "post" => \A i \in Claims : thread[i].run # c.run,
         AllFresh /\ c.pc = "yield" =>
           \E i \in Claims : thread[i].run # c.run /\ thread[i].at < c.mine,
         AllFresh /\ call[d].pc \in Posting =>
           c.pc \in Posting \/ \A f \in Claims : First(f) => thread[f].run = call[d].run
  PROVE  QuietCalls
<1>1. call'[d] = c /\ \A e \in Daemons : e # d => call'[e] = call[e]
  BY DEF IInv, TypeOK
<1> SUFFICES ASSUME NEW e \in Daemons
             PROVE
    /\ call'[e].pc # "idle" => Home[call'[e].run] = e
    /\ call'[e].pc \in Posting =>
         call[e].pc \in Posting /\ call'[e].run = call[e].run /\ call'[e].mine = call[e].mine
    /\ AllFresh /\ call'[e].pc = "post" =>
         \A i \in Claims : thread[i].run # call'[e].run
    /\ AllFresh /\ call'[e].pc = "yield" =>
         \E i \in Claims : thread[i].run # call'[e].run /\ thread[i].at < call'[e].mine
    /\ AllFresh /\ call[e].pc \in Posting =>
         \/ call'[e].pc \in Posting
         \/ \A f \in Claims : First(f) => thread[f].run = call[e].run
  BY DEF QuietCalls
<1>2. CASE e = d
  BY <1>1, <1>2
<1>3. CASE e # d
  BY <1>1, <1>3 DEF IInv, Race, CallsHaveClaims, OneClaimEach, YieldsToEarlier
<1>4. QED
  BY <1>2, <1>3

\* A call returns: with "claimed" only to the run of the first claim, and after
\* its own claim only to that run.
LEMMA ReturnQuiet ==
  ASSUME IInv, NEW d \in Daemons, NEW r \in Runs, NEW v, NEW h \in Runs,
         Return(d, r, v, h),
         AllFresh /\ v = "claimed" => \E f \in Claims : First(f) /\ thread[f].run = r,
         AllFresh /\ call[d].pc \in Posting =>
           \A f \in Claims : First(f) => thread[f].run = call[d].run
  PROVE  QuietCalls /\ QuietAnswers
<1>1. Idle \in Calls /\ Idle.pc = "idle" /\ "idle" \notin Posting
  BY IdleTyped DEF Idle, Posting
<1>2. QuietCalls
  BY <1>1, OneCallQuiet DEF Return
<1>3. QuietAnswers
  <2>1. answer'[r].verdict = v /\ \A s \in Runs : s # r => answer'[s] = answer[s]
    BY DEF Return, IInv, TypeOK
  <2>2. QED
    BY <2>1 DEF QuietAnswers, IInv, Race, ClaimedIsFirst
<1>4. QED
  BY <1>2, <1>3

\* Only the last step of a call takes an answer along.
LEMMA SameAnswersQuiet ==
  ASSUME IInv, UNCHANGED answer
  PROVE  QuietAnswers
BY DEF IInv, Race, QuietAnswers, ClaimedIsFirst

---------------------------------------------------------------------------
(* The steps of a call.                                                    *)

\* While all claims are fresh the first one stands, ...
LEMMA FirstStands ==
  ASSUME IInv, AllFresh, NEW f \in Claims, First(f)
  PROVE  f \in Standing(DOMAIN thread)
<1>1. f \in DOMAIN thread
  BY DEF Claims, Posted
<1>2. \A j \in DOMAIN thread : Marked(j, "yield") => thread[j].run # thread[f].run
  BY MarkedClaims DEF IInv, Race, FirstNeverYields
<1>3. QED
  BY <1>1, <1>2, MarkedClaims DEF Standing

\* ... so that a read finds some claim to be the latest, once there is one.
LEMMA LatestStands ==
  ASSUME IInv, AllFresh, Claims # {}
  PROVE  \E i \in DOMAIN thread : latestClaim(DOMAIN thread, i) /\ i \in Claims
<1>1. PICK f \in Claims : First(f)
  BY FirstExists DEF IInv
<1>2. f \in Standing(DOMAIN thread)
  BY <1>1, FirstStands
<1>3. QED
  BY <1>2, LatestExists, MarkedClaims DEF IInv, latestClaim, Standing

LEMMA AskKeeps ==
  ASSUME IInv, Benign, NEW r \in Runs, NEW w \in Windows, Ask(r, w)
  PROVE  IInv'
<1> DEFINE d == Home[r]
<1>1. d \in Daemons /\ TypeOK' /\ Page = DOMAIN thread /\ SameMarkers
  BY HomeIsADaemon, AskTyped, WholePage, StillMarkers DEF IInv, Ask
<1>2. call[d].pc = "idle" /\ call[d].pc \notin Posting
  BY DEF Ask, Posting
<1>3. ASSUME NEW v \in {"refused", "error"}, NEW h \in Runs, Return(d, r, v, h)
      PROVE  QuietCalls /\ QuietAnswers
  BY <1>1, <1>2, <1>3, ReturnQuiet
<1>4. ASSUME NEW i \in DOMAIN thread, latestClaim(DOMAIN thread, i), thread[i].run = r,
             Return(d, r, "claimed", r)
      PROVE  QuietCalls /\ QuietAnswers
  <2>1. ASSUME AllFresh PROVE \E f \in Claims : First(f) /\ thread[f].run = r
    <3>1. /\ i \in Claims /\ i \in Standing(DOMAIN thread)
          /\ \A j \in Posted("yield") : Before(i, j) => thread[j].run # r
      BY <1>4, MarkedClaims DEF latestClaim, Standing, Posted
    <3>2. PICK f \in Claims : First(f)
      BY <3>1, FirstExists DEF IInv
    <3>3. thread[f].run = r
      <4>1. CASE Provider = "github"
        BY <1>2, <1>4, <2>1, <3>1, <3>2, <4>1, Fields DEF IInv, Race, LosersYield, Before, Claims, Posted
      <4>2. CASE Provider # "github"
        <5>1. f \in Standing(DOMAIN thread)
          BY <2>1, <3>2, FirstStands
        <5>2. f = i \/ f > i
          BY <1>4, <4>2, <5>1 DEF latestClaim, Before
        <5>3. f <= i /\ f \in Nat /\ i \in Nat
          BY <3>1, <3>2, Fields DEF First, IInv, Claims, Posted
        <5>4. QED
          BY <1>4, <5>2, <5>3
      <4>3. QED
        BY <4>1, <4>2
    <3>4. QED
      BY <3>2, <3>3
  <2>2. QED
    BY <1>1, <1>2, <1>4, <2>1, ReturnQuiet
<1>5. ASSUME \A i \in DOMAIN thread : latestClaim(DOMAIN thread, i) => ~Honoured(d, i, w),
             call' = [call EXCEPT ![d].pc = "post", ![d].run = r, ![d].stale = w],
             UNCHANGED answer
      PROVE  QuietCalls /\ QuietAnswers
  <2> DEFINE c == [call[d] EXCEPT !.pc = "post", !.run = r, !.stale = w]
  <2>1. c \in Calls /\ c.pc = "post" /\ c.run = r
    BY <1>1, Fields DEF IInv, Calls, Pcs
  <2>2. call' = [call EXCEPT ![d] = c]
    BY <1>5
  <2>3. AllFresh => Claims = {}
    BY <1>5, LatestStands DEF Honoured, AllFresh
  <2> HIDE DEF c
  <2>4. QuietCalls
    BY <1>1, <1>2, <2>1, <2>2, <2>3, OneCallQuiet DEF Posting
  <2>5. QED
    BY <1>5, <2>4, SameAnswersQuiet
<1>6. \A i \in DOMAIN thread : thread[i].run \in Runs
  BY Fields DEF IInv
<1>7. QuietCalls /\ QuietAnswers
  BY <1>1, <1>3, <1>4, <1>5, <1>6 DEF Ask
<1>8. QED
  BY <1>1, <1>7, QuietStep

LEMMA AssignKeeps ==
  ASSUME IInv, Benign, NEW d \in Daemons, CheckAssignee(d) \/ AssignIfUnassigned(d)
  PROVE  IInv'
<1>1. TypeOK' /\ SameMarkers
  BY AssignTyped, StillMarkers DEF IInv, CheckAssignee, AssignIfUnassigned
<1>2. "assign" \notin faults
  BY DEF Benign
<1>3. /\ call[d].pc \in Posting /\ UNCHANGED answer
      /\ \E p \in {"assign", "reread"} : call' = [call EXCEPT ![d].pc = p]
  BY <1>2 DEF CheckAssignee, AssignIfUnassigned, Goto, Posting
<1>4. PICK p \in {"assign", "reread"} : call' = [call EXCEPT ![d].pc = p]
  BY <1>3
<1> DEFINE c == [call[d] EXCEPT !.pc = p]
<1>5. c \in Calls /\ c.pc = p /\ c.run = call[d].run /\ c.mine = call[d].mine
  BY <1>4, Fields DEF IInv, Calls, Pcs
<1>6. call' = [call EXCEPT ![d] = c]
  BY <1>4
<1>7. Home[call[d].run] = d
  BY <1>3 DEF IInv, CallsHaveClaims, Posting
<1> HIDE DEF c
<1>8. QuietCalls
  BY <1>3, <1>5, <1>6, <1>7, OneCallQuiet DEF Posting
<1>9. QED
  BY <1>1, <1>3, <1>8, SameAnswersQuiet, QuietStep

LEMMA RereadKeeps ==
  ASSUME IInv, Benign, NEW d \in Daemons, Reread(d)
  PROVE  IInv'
<1> DEFINE r == call[d].run
<1>1. TypeOK' /\ SameMarkers /\ Page = DOMAIN thread /\ r \in Runs
  BY RereadTyped, StillMarkers, WholePage, Fields DEF IInv, Reread
<1>2. "reread" \notin faults /\ call[d].pc \in Posting
  BY DEF Benign, Reread, Posting
<1>3. ASSUME NEW i \in DOMAIN thread, UNCHANGED answer,
             earliestForeignClaimBefore(DOMAIN thread, r, call[d].mine, i),
             call' = [call EXCEPT ![d].pc = "yield", ![d].to = thread[i].run]
      PROVE  QuietCalls /\ QuietAnswers
  <2> DEFINE c == [call[d] EXCEPT !.pc = "yield", !.to = thread[i].run]
  <2>1. c \in Calls /\ c.pc = "yield" /\ c.run = r /\ c.mine = call[d].mine
    BY Fields DEF IInv, Calls, Pcs
  <2>2. call' = [call EXCEPT ![d] = c]
    BY <1>3
  <2>3. i \in Claims /\ thread[i].run # r /\ thread[i].at < call[d].mine
    BY <1>3, MarkedClaims DEF earliestForeignClaimBefore, EarlierClaims
  <2>4. Home[r] = d
    BY <1>2 DEF IInv, CallsHaveClaims, Posting
  <2> HIDE DEF c
  <2>5. QuietCalls
    BY <1>2, <2>1, <2>2, <2>3, <2>4, OneCallQuiet DEF Posting
  <2>6. QED
    BY <1>3, <2>5, SameAnswersQuiet
<1>4. ASSUME \A i \in DOMAIN thread :
               earliestForeignClaimBefore(DOMAIN thread, r, call[d].mine, i) =>
                 ~Honoured(d, i, call[d].stale),
             Return(d, r, "claimed", r)
      PROVE  QuietCalls /\ QuietAnswers
  <2>1. PICK k \in Claims : thread[k].run = r /\ thread[k].at = call[d].mine
    BY <1>2 DEF IInv, CallsHaveClaims
  <2>2. PICK f \in Claims : First(f)
    BY <2>1, FirstExists DEF IInv
  <2>3. ASSUME AllFresh PROVE thread[f].run = r
    <3> SUFFICES ASSUME thread[f].run # r PROVE FALSE
      OBVIOUS
    <3>1. f < k /\ f \in DOMAIN thread
      BY <2>1, <2>2, Fields DEF First, IInv, Claims, Posted
    <3>2. thread[f].at < call[d].mine
      BY <2>1, <3>1 DEF IInv, DatedInOrder
    <3>3. f \in EarlierClaims(DOMAIN thread, r, call[d].mine)
      BY <3>1, <3>2, MarkedClaims DEF EarlierClaims
    <3> DEFINE S == EarlierClaims(DOMAIN thread, r, call[d].mine)
    <3>4. S \subseteq Claims /\ S \in SUBSET DOMAIN thread /\ \A j \in S : j \in Nat
      BY MarkedClaims, Fields DEF EarlierClaims, IInv
    <3>5. PICK i \in S : earliestForeignClaimBefore(DOMAIN thread, r, call[d].mine, i)
      <4>1. PICK m \in S : \A j \in S : j <= m
        BY <3>3, <3>4 DEF IInv, Bounded
      <4>2. PICK l \in S : \A j \in S : l <= j
        BY <3>3, <3>4 DEF IInv, Bounded
      <4>3. \A j \in S : (j = m \/ j < m) /\ (j = l \/ j > l)
        BY <3>4, <4>1, <4>2
      <4>4. CASE Provider = "github"
        BY <4>2, <4>3, <4>4 DEF earliestForeignClaimBefore, Before
      <4>5. CASE Provider # "github"
        BY <4>1, <4>3, <4>5 DEF earliestForeignClaimBefore, Before
      <4>6. QED
        BY <4>4, <4>5
    <3>6. ~Fresh(i, call[d].stale) /\ i \in Claims /\ call[d].stale \in Windows
      BY <1>4, <3>4, <3>5, Fields DEF Honoured, IInv
    <3>7. QED
      BY <2>3, <3>6 DEF AllFresh
  <2>4. \A g \in Claims : First(g) => g = f
    BY <2>2, Fields DEF First, IInv, Claims, Posted
  <2>5. QED
    BY <1>1, <1>4, <2>2, <2>3, <2>4, ReturnQuiet
<1>5. QuietCalls /\ QuietAnswers
  BY <1>1, <1>2, <1>3, <1>4 DEF Reread
<1>6. QED
  BY <1>1, <1>5, QuietStep

\* Writing a comment of the broker, and what becomes of the markers.
LEMMA Writing ==
  ASSUME TypeOK, Bounded, \A i \in DOMAIN thread : thread[i].at <= clock,
         NEW r \in Runs, NEW k \in {"claim", "yield"}, Write(r, k),
         Len(thread) < MaxThread, clock' = clock
  PROVE  LET n == Len(thread) + 1 IN
         /\ n \in Nat /\ \A i \in DOMAIN thread : i \in Nat /\ i < n /\ thread'[i] = thread[i]
         /\ thread'[n].run = r /\ thread'[n].at = clock
         /\ Claims' = Claims \cup (IF k = "claim" THEN {n} ELSE {})
         /\ Posted("yield")' = Posted("yield") \cup (IF k = "yield" THEN {n} ELSE {})
         /\ (AllFresh' => AllFresh) /\ Bounded'
         /\ \A i \in DOMAIN thread' : thread'[i].at <= clock'
<1> DEFINE n == Len(thread) + 1
           c == [run |-> r, kind |-> k, at |-> clock, by |-> "broker"]
<1>1. c \in Comments /\ thread' = Append(thread, c) /\ TypeOK /\ clock \in Nat
  BY WriteTyped, Fields DEF Write
<1>2. /\ n \in Nat /\ DOMAIN thread \subseteq Nat
      /\ DOMAIN thread' = DOMAIN thread \cup {n}
      /\ \A i \in DOMAIN thread : i < n /\ thread'[i] = thread[i]
      /\ thread'[n] = c
  BY <1>1, Appending
<1>3. c.run = r /\ c.kind = k /\ c.at = clock /\ c.by = "broker"
  OBVIOUS
<1> HIDE DEF n, c
<1>4. /\ Claims' = Claims \cup (IF k = "claim" THEN {n} ELSE {})
      /\ Posted("yield")' = Posted("yield") \cup (IF k = "yield" THEN {n} ELSE {})
  BY <1>2, <1>3 DEF Claims, Posted
<1>5. AllFresh' => AllFresh
  BY <1>1, FreshBefore
<1>6. Bounded'
  BY <1>1, BoundedGrows
<1>7. \A i \in DOMAIN thread' : thread'[i].at <= clock'
  BY <1>1, <1>2, <1>3
<1>8. QED
  BY <1>2, <1>3, <1>4, <1>5, <1>6, <1>7 DEF n

LEMMA PostKeeps ==
  ASSUME IInv, Benign, NEW d \in Daemons, Post(d)
  PROVE  IInv'
<1> DEFINE r == call[d].run
           n == Len(thread) + 1
<1>1. TypeOK' /\ r \in Runs /\ call[d].pc = "post" /\ call[d].pc \notin Posting
      /\ Home[r] = d /\ clock \in Nat
  BY PostTyped, Fields DEF IInv, Post, Posting, CallsHaveClaims
<1>2. CASE Return(d, r, "error", r) /\ UNCHANGED thread
  <2>1. SameMarkers
    BY <1>2, StillMarkers DEF Post
  <2>2. QuietCalls /\ QuietAnswers
    BY <1>1, <1>2, ReturnQuiet
  <2>3. QED
    BY <1>1, <2>1, <2>2, QuietStep
<1>3. ASSUME Write(r, "claim"), Len(thread) < MaxThread, UNCHANGED <<clock, answer>>,
             \A i \in Claims : thread[i].at # clock,
             call' = [call EXCEPT ![d].pc = "check", ![d].mine = clock]
      PROVE  IInv'
  <2>1. /\ n \in Nat /\ \A i \in DOMAIN thread : i \in Nat /\ i < n /\ thread'[i] = thread[i]
        /\ thread'[n].run = r /\ thread'[n].at = clock
        /\ Claims' = Claims \cup {n} /\ Posted("yield")' = Posted("yield")
        /\ (AllFresh' => AllFresh) /\ Bounded'
        /\ \A i \in DOMAIN thread' : thread'[i].at <= clock'
    BY <1>1, <1>3, Writing DEF IInv, DatedInOrder
  <2>2. /\ call'[d].pc = "check" /\ call'[d].run = r /\ call'[d].mine = clock
        /\ \A e \in Daemons : e # d => call'[e] = call[e]
    BY <1>3, Fields DEF IInv, TypeOK, Calls
  <2>3. Claims \subseteq DOMAIN thread /\ Posted("yield") \subseteq DOMAIN thread
        /\ \A i \in Claims : i \in Nat /\ i < n /\ thread'[i] = thread[i]
    BY <2>1 DEF Claims, Posted
  <2> HIDE DEF n
  <2>4. DatedInOrder'
    <3>1. \A i \in Claims : thread[i].at < clock
      BY <1>1, <1>3, <2>3, Fields DEF IInv, DatedInOrder
    <3>2. QED
      BY <2>1, <2>3, <3>1 DEF IInv, DatedInOrder
  <2>5. CallsHaveClaims'
    <3> SUFFICES ASSUME NEW e \in Daemons
                 PROVE
          /\ call'[e].pc # "idle" => Home[call'[e].run] = e
          /\ call'[e].pc \in Posting =>
               \E i \in Claims' : thread'[i].run = call'[e].run /\ thread'[i].at = call'[e].mine
      BY DEF CallsHaveClaims
    <3>1. CASE e = d
      BY <1>1, <2>1, <2>2, <3>1
    <3>2. CASE e # d
      BY <2>1, <2>2, <2>3, <3>2 DEF IInv, CallsHaveClaims
    <3>3. QED
      BY <3>1, <3>2
  <2>6. ASSUME AllFresh' PROVE Race'
    <3>1. AllFresh /\ Race
      BY <2>1, <2>6 DEF IInv
    <3>2. \A f \in Claims : First(f) => First(f)'
      BY <2>1, <2>3 DEF First
    <3>3. \A f \in Claims' : First(f)' => (f \in Claims /\ First(f)) \/ (f = n /\ Claims = {})
      BY <2>1, <2>3 DEF First
    <3>4. ClaimedIsFirst'
      BY <1>3, <2>1, <2>3, <3>1, <3>2 DEF Race, ClaimedIsFirst
    <3>5. FirstNeverYields'
      <4> SUFFICES ASSUME NEW f \in Claims', First(f)', NEW j \in Posted("yield")
                   PROVE  thread[j].run # thread'[f].run /\ thread'[j] = thread[j]
        BY <2>1 DEF FirstNeverYields
      <4>1. thread'[j] = thread[j]
        BY <2>1, <2>3
      <4>2. CASE f \in Claims /\ First(f)
        BY <2>3, <3>1, <4>1, <4>2 DEF Race, FirstNeverYields
      <4>3. CASE f = n /\ Claims = {}
        BY <4>3 DEF IInv, YieldsHaveClaims
      <4>4. QED
        BY <3>3, <4>2, <4>3
    <3>6. LosersYield'
      <4> SUFFICES ASSUME NEW f \in Claims', NEW i \in Claims', First(f)',
                          thread'[i].run # thread'[f].run
                   PROVE
            \/ \E j \in Posted("yield")' : j > i /\ thread'[j].run = thread'[i].run
            \/ LET c == call'[Home[thread'[i].run]]
               IN c.pc \in Posting /\ c.run = thread'[i].run
        BY DEF LosersYield
      <4>1. CASE i = n
        BY <1>1, <2>1, <2>2, <4>1 DEF Posting
      <4>2. CASE i \in Claims
        <5>1. f \in Claims /\ First(f)
          BY <3>3, <4>2
        <5>2. thread'[i] = thread[i] /\ thread'[f] = thread[f]
          BY <2>3, <4>2, <5>1
        <5>3. CASE \E j \in Posted("yield") : j > i /\ thread[j].run = thread[i].run
          BY <2>1, <2>3, <5>2, <5>3
        <5>4. CASE LET c == call[Home[thread[i].run]]
                   IN c.pc \in Posting /\ c.run = thread[i].run
          <6>1. Home[thread[i].run] \in Daemons
            BY <2>3, <4>2, Fields, HomeIsADaemon DEF IInv
          <6>2. Home[thread[i].run] # d
            BY <1>1, <5>4
          <6>3. QED
            BY <2>2, <5>2, <5>4, <6>1, <6>2
        <5>5. QED
          BY <3>1, <4>2, <5>1, <5>2, <5>3, <5>4 DEF Race, LosersYield
      <4>3. QED
        BY <2>1, <4>1, <4>2
    <3>7. OneClaimEach'
      <4>1. \A i \in Claims : thread[i].run # r
        BY <1>1, <3>1 DEF Race, OneClaimEach
      <4>2. ASSUME NEW e \in Daemons, call'[e].pc = "post", NEW i \in Claims'
            PROVE  thread'[i].run # call'[e].run
        <5>1. e # d /\ call'[e] = call[e]
          BY <2>2, <4>2
        <5>2. Home[call[e].run] = e
          BY <4>2, <5>1 DEF IInv, CallsHaveClaims
        <5>3. CASE i = n
          BY <1>1, <2>1, <5>1, <5>2, <5>3
        <5>4. CASE i \in Claims
          BY <2>3, <3>1, <4>2, <5>1, <5>4 DEF Race, OneClaimEach
        <5>5. QED
          BY <2>1, <5>3, <5>4
      <4>3. \A i, j \in Claims' : thread'[i].run = thread'[j].run => i = j
        BY <2>1, <2>3, <3>1, <4>1 DEF Race, OneClaimEach
      <4>4. QED
        BY <4>2, <4>3 DEF OneClaimEach
    <3>8. YieldsToEarlier'
      BY <2>1, <2>2, <2>3, <3>1 DEF Race, YieldsToEarlier
    <3>9. QED
      BY <3>4, <3>5, <3>6, <3>7, <3>8 DEF Race
  <2>7. YieldsHaveClaims'
    BY <2>1, <2>3 DEF IInv, YieldsHaveClaims
  <2>8. QED
    BY <1>1, <2>1, <2>4, <2>5, <2>6, <2>7 DEF IInv
<1>4. "lost" \notin faults /\ "tie" \notin faults
  BY DEF Benign
<1>5. \A i \in Claims : i \in DOMAIN thread /\ Marked(i, "claim")
  BY MarkedClaims DEF Claims, Posted
<1>6. QED
  BY <1>2, <1>3, <1>4, <1>5 DEF Post

LEMMA YieldKeeps ==
  ASSUME IInv, Benign, NEW d \in Daemons, Yield(d)
  PROVE  IInv'
<1> DEFINE r == call[d].run
           n == Len(thread) + 1
<1>1. /\ TypeOK' /\ r \in Runs /\ call[d].to \in Runs /\ call[d].pc = "yield"
      /\ call[d].pc \in Posting /\ Home[r] = d
  BY YieldTyped, Fields DEF IInv, Yield, Posting, CallsHaveClaims
<1>2. /\ Write(r, "yield") /\ Len(thread) < MaxThread /\ clock' = clock
      /\ Return(d, r, "refused", call[d].to)
  BY DEF Yield, Benign
<1>3. /\ n \in Nat /\ \A i \in DOMAIN thread : i \in Nat /\ i < n /\ thread'[i] = thread[i]
      /\ thread'[n].run = r
      /\ Claims' = Claims /\ Posted("yield")' = Posted("yield") \cup {n}
      /\ (AllFresh' => AllFresh) /\ Bounded'
      /\ \A i \in DOMAIN thread' : thread'[i].at <= clock'
  BY <1>1, <1>2, Writing DEF IInv, DatedInOrder
<1>4. /\ call'[d].pc = "idle" /\ \A e \in Daemons : e # d => call'[e] = call[e]
      /\ answer'[r].verdict = "refused" /\ \A s \in Runs : s # r => answer'[s] = answer[s]
  BY <1>1, <1>2 DEF Return, Idle, IInv, TypeOK
<1>5. /\ Claims \subseteq DOMAIN thread /\ Posted("yield") \subseteq DOMAIN thread
      /\ \A i \in Claims \cup Posted("yield") : i < n /\ thread'[i] = thread[i]
  BY <1>3 DEF Claims, Posted
<1> HIDE DEF n
<1>6. DatedInOrder'
  BY <1>3, <1>5 DEF IInv, DatedInOrder
<1>7. CallsHaveClaims'
  BY <1>3, <1>4, <1>5 DEF IInv, CallsHaveClaims, Posting
<1>8. YieldsHaveClaims'
  <2>1. \E i \in Claims : thread[i].run = r
    BY <1>1 DEF IInv, CallsHaveClaims
  <2>2. QED
    BY <1>3, <1>5, <2>1 DEF IInv, YieldsHaveClaims
<1>9. ASSUME AllFresh' PROVE Race'
  <2>1. AllFresh /\ Race
    BY <1>3, <1>9 DEF IInv
  <2>2. \A i : First(i)' <=> First(i)
    BY <1>3 DEF First
  <2>3. \A f \in Claims : First(f) => thread[f].run # r
    <3> SUFFICES ASSUME NEW f \in Claims, First(f), thread[f].run = r PROVE FALSE
      OBVIOUS
    <3>1. thread[f].at = call[d].mine
      BY <1>1, <2>1 DEF IInv, CallsHaveClaims, Race, OneClaimEach
    <3>2. PICK i \in Claims : thread[i].run # r /\ thread[i].at < thread[f].at
      BY <1>1, <2>1, <3>1 DEF Race, YieldsToEarlier
    <3>3. f < i
      BY <3>2, <1>5, Fields DEF First, IInv
    <3>4. thread[f].at < thread[i].at
      BY <3>3 DEF IInv, DatedInOrder
    <3>5. QED
      BY <3>2, <3>4, <1>5, Fields DEF IInv
  <2>4. ClaimedIsFirst'
    BY <1>3, <1>4, <1>5, <2>1, <2>2 DEF Race, ClaimedIsFirst
  <2>5. FirstNeverYields'
    BY <1>3, <1>5, <2>1, <2>2, <2>3 DEF Race, FirstNeverYields
  <2>6. LosersYield'
    <3> SUFFICES ASSUME NEW f \in Claims, NEW i \in Claims, First(f),
                        thread[i].run # thread[f].run
                 PROVE
          \/ \E j \in Posted("yield")' : j > i /\ thread'[j].run = thread[i].run
          \/ LET c == call'[Home[thread[i].run]]
             IN c.pc \in Posting /\ c.run = thread[i].run
      BY <1>3, <1>5, <2>2 DEF LosersYield
    <3>1. CASE \E j \in Posted("yield") : j > i /\ thread[j].run = thread[i].run
      BY <1>3, <1>5, <3>1
    <3>2. CASE LET c == call[Home[thread[i].run]]
               IN c.pc \in Posting /\ c.run = thread[i].run
      <4>1. Home[thread[i].run] \in Daemons
        BY <1>5, Fields, HomeIsADaemon DEF IInv
      <4>2. CASE Home[thread[i].run] = d
        <5>1. n > i
          BY <1>3, <1>5
        <5>2. QED
          BY <1>3, <3>2, <4>2, <5>1
      <4>3. CASE Home[thread[i].run] # d
        BY <1>4, <3>2, <4>1, <4>3
      <4>4. QED
        BY <4>2, <4>3
    <3>3. QED
      BY <2>1, <3>1, <3>2 DEF Race, LosersYield
  <2>7. OneClaimEach'
    BY <1>3, <1>4, <1>5, <2>1 DEF Race, OneClaimEach
  <2>8. YieldsToEarlier'
    BY <1>3, <1>4, <1>5, <2>1 DEF Race, YieldsToEarlier
  <2>9. QED
    BY <2>4, <2>5, <2>6, <2>7, <2>8 DEF Race
<1>10. QED
  BY <1>1, <1>3, <1>6, <1>7, <1>8, <1>9 DEF IInv

---------------------------------------------------------------------------
(* The rest of the world, and the theorem.                                 *)

LEMMA WorldKeeps ==
  ASSUME IInv, \/ \E r \in Runs : EndRun(r)
               \/ Tick \/ Quote \/ PersonAssigns
  PROVE  IInv'
<1>1. TypeOK'
  BY WorldTyped, QuoteTyped DEF IInv
<1>2. SameMarkers
  <2>1. CASE Tick
    BY <2>1, TickMarkers
  <2>2. CASE Quote
    BY <2>2, QuoteMarkers
  <2>3. CASE PersonAssigns \/ \E r \in Runs : EndRun(r)
    BY <2>3, StillMarkers DEF PersonAssigns, EndRun
  <2>4. QED
    BY <2>1, <2>2, <2>3
<1>3. UNCHANGED <<call, answer>>
  BY DEF Tick, Quote, PersonAssigns, EndRun
<1>4. QED
  BY <1>1, <1>2, <1>3, SameCallsQuiet, QuietStep

LEMMA RestartKeeps ==
  ASSUME IInv, Benign, NEW d \in Daemons, Restart(d)
  PROVE  IInv'
<1>1. TypeOK' /\ SameMarkers /\ call[d].run \in Runs
  BY WorldTyped, StillMarkers, Fields DEF IInv, Restart
<1>2. call[d].pc \notin Posting
  BY DEF Restart, Benign, Posting
<1>3. QuietCalls /\ QuietAnswers
  BY <1>1, <1>2, SameCallsQuiet, ReturnQuiet DEF Restart
<1>4. QED
  BY <1>1, <1>3, QuietStep

LEMMA Initially == Init => IInv
<1> SUFFICES ASSUME Init PROVE IInv
  OBVIOUS
<1>1. TypeOK
  <2>1. thread \in Seq(Comments) /\ Len(thread) <= MaxThread /\ DOMAIN thread = {}
    BY ClaimAssumption DEF Init
  <2>2. call \in [Daemons -> Calls] /\ answer \in [Runs -> Answers]
    BY IdleTyped DEF Init, Answers
  <2>3. QED
    BY <2>1, <2>2, ClaimAssumption DEF Init, TypeOK
<1>2. DOMAIN thread = {} /\ Claims = {} /\ Posted("yield") = {}
  BY DEF Init, Claims, Posted
<1>3. \A d \in Daemons : call[d].pc = "idle"
  BY DEF Init, Idle
<1>4. DatedInOrder /\ Bounded /\ CallsHaveClaims /\ YieldsHaveClaims
  BY <1>2, <1>3 DEF DatedInOrder, Bounded, CallsHaveClaims, YieldsHaveClaims, Posting
<1>5. \A r \in Runs : answer[r].verdict = "none"
  BY DEF Init
<1>6. Race
  BY <1>2, <1>3, <1>5 DEF Race, ClaimedIsFirst, FirstNeverYields, LosersYield,
     OneClaimEach, YieldsToEarlier
<1>7. QED
  BY <1>1, <1>4, <1>6 DEF IInv

LEMMA Inductive == ASSUME Benign PROVE IInv /\ [Next]_vars => IInv'
<1> SUFFICES ASSUME IInv, [Next]_vars PROVE IInv'
  OBVIOUS
<1>1. CASE \E r \in Runs, w \in Windows : Ask(r, w)
  BY <1>1, AskKeeps
<1>2. CASE \E d \in Daemons : Post(d)
  BY <1>2, PostKeeps
<1>3. CASE \E d \in Daemons : CheckAssignee(d) \/ AssignIfUnassigned(d)
  BY <1>3, AssignKeeps
<1>4. CASE \E d \in Daemons : Reread(d)
  BY <1>4, RereadKeeps
<1>5. CASE \E d \in Daemons : Yield(d)
  BY <1>5, YieldKeeps
<1>6. CASE \E d \in Daemons : Restart(d)
  BY <1>6, RestartKeeps
<1>7. CASE Tick \/ Quote \/ PersonAssigns \/ \E r \in Runs : EndRun(r)
  BY <1>7, WorldKeeps
<1>8. CASE UNCHANGED vars
  <2>1. TypeOK'
    BY <1>8 DEF vars, IInv, TypeOK
  <2>2. QED
    BY <1>8, <2>1, StillMarkers, SameCallsQuiet, QuietStep DEF vars
<1>9. QED
  BY <1>1, <1>2, <1>3, <1>4, <1>5, <1>6, <1>7, <1>8 DEF Next

\* What may go wrong does not change.
LEMMA SameEnvironment == [Next]_vars => (Benign' <=> Benign)
BY DEF Next, vars, Benign, Ask, Post, CheckAssignee, AssignIfUnassigned, Reread, Yield,
   EndRun, Restart, Tick, Quote, PersonAssigns

\* For any number of runs, daemons, calls, comments, restarts and quoted
\* markers, and in whichever order the forge lists comments, ClaimTrackerIssue
\* tells one run at most that it holds the issue until the first claim is old
\* enough for a caller to take over, if a read returns every comment, the forge
\* gives claims distinct times and no call fails after its claim is posted.
THEOREM FirstClaimIsAlone == Spec => []FirstClaimWins
<1> DEFINE Inv == Benign => IInv
<1>1. Init => Inv
  BY Initially
<1>2. Inv /\ [Next]_vars => Inv'
  BY Inductive, SameEnvironment
<1>3. Inv => FirstClaimWins
  <2> SUFFICES ASSUME IInv, AllFresh, NEW r \in Runs, NEW s \in Runs,
                      answer[r].verdict = "claimed", answer[s].verdict = "claimed"
               PROVE  r = s
    BY DEF FirstClaimWins, AllFresh
  <2>1. PICK f \in Claims : First(f) /\ thread[f].run = r
    BY DEF IInv, Race, ClaimedIsFirst
  <2>2. PICK g \in Claims : First(g) /\ thread[g].run = s
    BY DEF IInv, Race, ClaimedIsFirst
  <2>3. f \in Nat /\ g \in Nat
    BY Fields DEF IInv, Claims, Posted
  <2>4. f = g
    BY <2>1, <2>2, <2>3 DEF First
  <2>5. QED
    BY <2>1, <2>2, <2>4
<1>4. QED
  BY <1>1, <1>2, <1>3, PTL DEF Spec

---------------------------------------------------------------------------
(* Whatever fails, the first claims are not all yielded, if comments are   *)
(* listed oldest first. Of all the runs that claim, two matter: the run of *)
(* the first claim and the run of the first claim that is not its own. A   *)
(* run yields to the first claim it sees from another run, which is one of *)
(* these two, so that the others never decide. The first run yields only   *)
(* if the second shares its daemon, and the second claims there only after *)
(* the first has left the registry for good and with windows for which the *)
(* first claim is stale, so that it never yields itself.                   *)

OldestFirst == Provider = "github"

\* While no request names a window every call has the default one.
Uniform == OneWindow => \A d \in Daemons : call[d].stale = StaleAfter

Runner(i) == thread[i].run

Second(s) ==
  /\ s \in Claims
  /\ \E f \in Claims : /\ First(f) /\ Runner(f) # Runner(s)
                       /\ \A j \in Claims : Runner(j) # Runner(f) => s <= j

\* The first two claimants share a daemon, whose reads reach both claims.
Neighbours(f, s) == First(f) /\ Second(s) /\ Home[Runner(f)] = Home[Runner(s)] /\ s <= PageSize

\* The run of the claim is not registered and does not register any more.
Gone(f) == Runner(f) \notin registered /\ answer[Runner(f)].verdict # "none"

\* Run r has not yielded and is not about to.
Keeps(r) ==
  /\ \A j \in Posted("yield") : Runner(j) # r
  /\ \A d \in Daemons : call[d].pc = "yield" => call[d].run # r

\* A call with window w gives the run of the first claim no reason to yield,
\* but to a neighbour.
Settled(f, w) ==
  \/ f > PageSize
  \/ \E s \in Claims : Second(s) /\ (Home[Runner(f)] = Home[Runner(s)] \/ ~Fresh(s, w))

\* A claim that its run never yields.
Champion(i) ==
  \/ /\ First(i)
     /\ \E s \in Claims : Second(s) /\ (Home[Runner(i)] # Home[Runner(s)] \/ s > PageSize)
  \/ \E f \in Claims : Neighbours(f, i)

\* Comments are dated in order; claims may share a time.
DatedUpward ==
  /\ \A i \in DOMAIN thread : thread[i].at <= clock
  /\ \A i, j \in Claims : i < j => thread[i].at <= thread[j].at

\* A run with a claim has had an answer, or waits for it.
Answered ==
  \A i \in Claims : \/ answer[Runner(i)].verdict # "none"
                    \/ LET c == call[Home[Runner(i)]] IN c.pc \in Posting /\ c.run = Runner(i)

FirstKeeps ==
  \A f \in Claims : First(f) => Keeps(Runner(f)) \/ \E s \in Claims : Neighbours(f, s)

\* The steps of a call from its claim to its second read.
Waiting == {"check", "assign", "reread"}

\* No call of run r that has posted honours the claim in comment f for its age.
NoneHonours(f, r) ==
  \A d \in Daemons :
    call[d].run = r /\ call[d].pc \in Waiting => ~Fresh(f, call[d].stale)

NeighbourKeeps ==
  \A f, s \in Claims : Neighbours(f, s) =>
    /\ Gone(f) /\ Keeps(Runner(s)) /\ NoneHonours(f, Runner(s))
    /\ OneWindow => ~Fresh(f, StaleAfter)

\* What the first read of a call of run r that goes on to post finds: its own
\* first claim is settled; or the first claim, a neighbour's, counts no more, or
\* the call does not decide who the second claimant is.
Found(d, r, w) ==
  \A f \in Claims : First(f) =>
    /\ r = Runner(f) => Settled(f, w)
    /\ r # Runner(f) /\ Home[Runner(f)] = d /\ f <= PageSize =>
         \/ Gone(f) /\ ~Fresh(f, w)
         \/ \E s \in Claims : Second(s) /\ (Runner(s) # r \/ s > PageSize)

ReadBeforePost ==
  \A d \in Daemons : call[d].pc = "post" => Found(d, call[d].run, call[d].stale)

\* A call of the first claimant that has posted: it posted the first claim, or
\* one after its first was settled.
FirstAgain ==
  \A d \in Daemons, f \in Claims :
    First(f) /\ call[d].run = Runner(f) /\ call[d].pc \in Waiting =>
      Settled(f, call[d].stale) \/ call[d].mine <= thread[f].at

YieldsToChampion ==
  OneWindow => \A d \in Daemons : call[d].pc = "yield" =>
    \E i \in Claims : Runner(i) = call[d].to /\ Champion(i)

Contest == /\ FirstKeeps /\ NeighbourKeeps /\ ReadBeforePost /\ FirstAgain /\ YieldsToChampion

Base == TypeOK /\ DatedUpward /\ Bounded /\ CallsHaveClaims /\ YieldsHaveClaims /\ Answered

---------------------------------------------------------------------------
(* What every step leaves of the claims.                                   *)

\* Claims are kept and come in order, time passes, the environment stays, answers
\* stay answers and only a run that was never answered registers.
Grows ==
  /\ Claims \subseteq Claims'
  /\ \A i \in Claims : thread'[i] = thread[i] /\ \A j \in Claims' \ Claims : i < j
  /\ clock <= clock' /\ faults' = faults
  /\ \A r \in Runs : answer'[r].verdict = "none" => answer[r].verdict = "none"
  /\ \A r \in registered' \ registered : answer[r].verdict = "none"

LEMMA ClaimFields ==
  ASSUME TypeOK, NEW i \in Claims
  PROVE  i \in Nat /\ i \in DOMAIN thread /\ Runner(i) \in Runs /\ thread[i].at \in Nat
BY Fields DEF Claims, Posted, Runner

LEMMA NextClaimFields ==
  ASSUME TypeOK'
  PROVE  (\A i \in Claims' : i \in Nat) /\ clock' \in Nat
<1>1. DOMAIN thread' \subseteq Nat /\ clock' \in Nat
  BY ClaimAssumption DEF TypeOK
<1> QED
  BY <1>1 DEF Claims, Posted

LEMMA FirstIsOne ==
  ASSUME TypeOK, NEW f \in Claims, NEW g \in Claims, First(f), First(g)
  PROVE  f = g
BY ClaimFields DEF First

LEMMA SecondIsOne ==
  ASSUME TypeOK, NEW s \in Claims, NEW t \in Claims, Second(s), Second(t)
  PROVE  s = t
<1>1. PICK f \in Claims : /\ First(f) /\ Runner(f) # Runner(s)
                          /\ \A j \in Claims : Runner(j) # Runner(f) => s <= j
  BY DEF Second
<1>2. PICK g \in Claims : /\ First(g) /\ Runner(g) # Runner(t)
                          /\ \A j \in Claims : Runner(j) # Runner(g) => t <= j
  BY DEF Second
<1>3. f = g
  BY <1>1, <1>2, FirstIsOne
<1> QED
  BY <1>1, <1>2, <1>3, ClaimFields

\* A claim that is not the first run's makes some claim the second.
LEMMA SecondExists ==
  ASSUME TypeOK, Bounded, NEW f \in Claims, First(f), NEW l \in Claims, Runner(l) # Runner(f)
  PROVE  \E s \in Claims : Second(s) /\ s <= l
<1> DEFINE S == {j \in Claims : Runner(j) # Runner(f)}
<1>1. S \in SUBSET DOMAIN thread /\ l \in S
  BY DEF Claims, Posted
<1>2. PICK s \in S : \A j \in S : s <= j
  BY <1>1 DEF Bounded
<1> QED
  BY <1>1, <1>2 DEF Second

\* What holds of the first and the second claim holds for good.
LEMMA Persist ==
  ASSUME TypeOK, TypeOK', Grows
  PROVE  /\ \A f \in Claims : First(f) => First(f)'
         /\ \A f \in Claims : \A g : First(f) /\ First(g)' => f = g
         /\ \A s \in Claims : Second(s) => Second(s)'
         /\ \A f \in Claims, s \in Claims : Neighbours(f, s) => Neighbours(f, s)'
         /\ \A i \in Claims : Champion(i) => Champion(i)'
         /\ \A s \in Claims, w \in Windows : Fresh(s, w)' => Fresh(s, w)
         /\ \A f \in Claims, w \in Windows : Settled(f, w) => Settled(f, w)'
         /\ \A f \in Claims : Gone(f) => Gone(f)'
<1>0. /\ \A i \in Claims : i \in Nat /\ Runner(i) \in Runs /\ thread[i].at \in Nat
      /\ \A i \in Claims' : i \in Nat
      /\ \A i \in Claims : i \in Claims' /\ Runner(i)' = Runner(i)
      /\ clock \in Nat /\ clock' \in Nat /\ clock <= clock'
  BY ClaimFields, NextClaimFields, Fields DEF Grows, Runner
<1>1. ASSUME NEW f \in Claims, First(f) PROVE First(f)'
  BY <1>0, <1>1 DEF First, Grows
<1>2. ASSUME NEW f \in Claims, NEW g, First(f), First(g)' PROVE f = g
  BY <1>0, <1>1, <1>2 DEF First
<1>3. ASSUME NEW s \in Claims, Second(s) PROVE Second(s)'
  <2>1. PICK f \in Claims : /\ First(f) /\ Runner(f) # Runner(s)
                            /\ \A j \in Claims : Runner(j) # Runner(f) => s <= j
    BY <1>3 DEF Second
  <2>2. \A j \in Claims' : Runner(j)' # Runner(f)' => s <= j
    BY <1>0, <2>1 DEF Grows
  <2>3. First(f)' /\ Runner(f)' # Runner(s)' /\ s \in Claims' /\ f \in Claims'
    BY <1>0, <1>1, <2>1
  <2> QED
    BY <2>2, <2>3 DEF Second
<1>4. ASSUME NEW f \in Claims, NEW s \in Claims, Neighbours(f, s) PROVE Neighbours(f, s)'
  BY <1>0, <1>1, <1>3, <1>4 DEF Neighbours
<1>5. ASSUME NEW i \in Claims, Champion(i) PROVE Champion(i)'
  <2>1. CASE /\ First(i)
             /\ \E s \in Claims : Second(s) /\ (Home[Runner(i)] # Home[Runner(s)] \/ s > PageSize)
    BY <1>0, <1>1, <1>3, <2>1 DEF Champion
  <2>2. CASE \E f \in Claims : Neighbours(f, i)
    BY <1>0, <1>4, <2>2 DEF Champion
  <2> QED
    BY <1>5, <2>1, <2>2 DEF Champion
<1>6. ASSUME NEW s \in Claims, NEW w \in Windows, Fresh(s, w)' PROVE Fresh(s, w)
  BY <1>0, <1>6, ClaimAssumption DEF Fresh, Grows
<1>7. ASSUME NEW f \in Claims, NEW w \in Windows, Settled(f, w) PROVE Settled(f, w)'
  BY <1>0, <1>3, <1>6, <1>7 DEF Settled
<1>8. ASSUME NEW f \in Claims, Gone(f) PROVE Gone(f)'
  BY <1>0, <1>8 DEF Gone, Grows
<1> QED
  BY <1>1, <1>2, <1>3, <1>4, <1>5, <1>6, <1>7, <1>8

LEMMA Windowed ==
  ASSUME TypeOK, TypeOK', NEW e \in Daemons
  PROVE  call[e].stale \in Windows /\ call'[e].stale \in Windows
BY DEF TypeOK, Calls

\* Run r is not one of those that must not yield.
MayYield(r) ==
  /\ \A f \in Claims : First(f) /\ Runner(f) = r => \E s \in Claims : Neighbours(f, s)
  /\ \A f, s \in Claims : Neighbours(f, s) => Runner(s) # r

\* A step that posts no claim: only runs that may start to yield, and a call
\* goes on from what it has found.
LEMMA ContestFrame ==
  ASSUME TypeOK, TypeOK', Grows, Contest, Claims' = Claims,
         \A r \in Runs : Keeps(r) => Keeps(r)' \/ MayYield(r),
         \A e \in Daemons :
           /\ call'[e].pc = "post" =>
                call'[e] = call[e] \/ Found(e, call'[e].run, call'[e].stale)
           /\ call'[e].pc \in Waiting =>
                /\ call[e].pc \in Waiting /\ call'[e].run = call[e].run
                /\ call'[e].mine = call[e].mine /\ call'[e].stale = call[e].stale
           /\ OneWindow /\ call'[e].pc = "yield" =>
                \/ call'[e] = call[e]
                \/ \E i \in Claims : Runner(i) = call'[e].to /\ Champion(i)
  PROVE  Contest'
<1>0. \A e \in Daemons : call[e].stale \in Windows /\ call'[e].stale \in Windows
  BY Windowed
<1>f. OneWindow' <=> OneWindow
  BY DEF Grows, OneWindow
<1>1. /\ \A i \in Claims : Runner(i)' = Runner(i) /\ Runner(i) \in Runs /\ thread'[i] = thread[i]
  BY ClaimFields DEF Grows, Runner
<1>2. \A i \in Claims : First(i)' <=> First(i)
  BY DEF First
<1>3. \A s \in Claims : Second(s)' <=> Second(s)
  BY <1>1, <1>2 DEF Second
<1>4. \A f \in Claims, s \in Claims : Neighbours(f, s)' <=> Neighbours(f, s)
  BY <1>1, <1>2, <1>3 DEF Neighbours
<1>5. FirstKeeps'
  <2>1. ASSUME NEW f \in Claims, First(f), NEW r \in Runs, r = Runner(f)
        PROVE  Keeps(r)' \/ \E s \in Claims : Neighbours(f, s)
    BY <2>1 DEF Contest, FirstKeeps, MayYield
  <2> QED
    BY <1>1, <1>2, <1>4, <2>1 DEF FirstKeeps
<1>6. NeighbourKeeps'
  <2>1. ASSUME NEW f \in Claims, NEW s \in Claims, Neighbours(f, s), NEW r \in Runs, r = Runner(s)
        PROVE  /\ Gone(f)' /\ Keeps(r)' /\ NoneHonours(f, r)'
               /\ OneWindow' => ~Fresh(f, StaleAfter)'
    <3>1. Gone(f)' /\ Keeps(r)' /\ NoneHonours(f, r)
      BY <2>1, Persist DEF Contest, NeighbourKeeps, MayYield
    <3>2. OneWindow' => ~Fresh(f, StaleAfter)'
      BY <1>f, <2>1, Persist, ClaimAssumption DEF Contest, NeighbourKeeps
    <3>3. ASSUME NEW e \in Daemons, call'[e].run = r, call'[e].pc \in Waiting,
                 NEW w \in Windows, w = call'[e].stale
          PROVE  ~Fresh(f, w)'
      BY <2>1, <3>1, <3>3, Persist DEF NoneHonours
    <3>4. NoneHonours(f, r)'
      BY <1>0, <3>3 DEF NoneHonours
    <3> QED
      BY <3>1, <3>2, <3>4
  <2> QED
    BY <1>1, <1>4, <2>1 DEF NeighbourKeeps
<1>7. ReadBeforePost'
  <2>1. ASSUME NEW e \in Daemons, NEW r, NEW w \in Windows, Found(e, r, w) PROVE Found(e, r, w)'
    BY <1>1, <1>2, <1>3, <2>1, Persist DEF Found
  <2>2. ASSUME NEW e \in Daemons, call'[e].pc = "post" PROVE Found(e, call'[e].run, call'[e].stale)
    BY <2>2 DEF Contest, ReadBeforePost
  <2>3. ASSUME NEW e \in Daemons, call'[e].pc = "post", NEW r, r = call'[e].run,
               NEW w \in Windows, w = call'[e].stale
        PROVE  Found(e, r, w)'
    BY <2>1, <2>2, <2>3
  <2> QED
    BY <1>0, <2>3 DEF ReadBeforePost
<1>8. FirstAgain'
  <2>1. ASSUME NEW e \in Daemons, NEW f \in Claims, First(f), call'[e].run = Runner(f),
               call'[e].pc \in Waiting, NEW w \in Windows, w = call'[e].stale
        PROVE  Settled(f, w)' \/ call'[e].mine <= thread[f].at
    BY <2>1, Persist DEF Contest, FirstAgain
  <2> QED
    BY <1>0, <1>1, <1>2, <2>1 DEF FirstAgain
<1>9. YieldsToChampion'
  BY <1>f, <1>1, Persist DEF Contest, YieldsToChampion
<1> QED
  BY <1>5, <1>6, <1>7, <1>8, <1>9 DEF Contest

---------------------------------------------------------------------------
(* Each step keeps the contest.                                            *)

LEMMA OneCall ==
  ASSUME TypeOK, NEW d \in Daemons, NEW c, call' = [call EXCEPT ![d] = c]
  PROVE  call'[d] = c /\ \A e \in Daemons \ {d} : call'[e] = call[e]
BY DEF TypeOK

\* Calls that go on, or return an answer, without a new comment.
LEMMA BaseFrame ==
  ASSUME Base, TypeOK', DatedUpward', Bounded',
         Claims' = Claims, \A i \in Claims : thread'[i] = thread[i],
         \A j \in Posted("yield")' : \/ j \in Posted("yield") /\ thread'[j] = thread[j]
                                     \/ \E i \in Claims : thread[i].run = thread'[j].run,
         \A r \in Runs : answer'[r].verdict = "none" => answer[r].verdict = "none",
         \A e \in Daemons :
           /\ call'[e].pc # "idle" => Home[call'[e].run] = e
           /\ call'[e].pc \in Posting =>
                call[e].pc \in Posting /\ call'[e].run = call[e].run /\ call'[e].mine = call[e].mine
           /\ call[e].pc \in Posting /\ call'[e].pc \notin Posting => answer'[call[e].run].verdict # "none"
  PROVE  Base'
<1>1. CallsHaveClaims'
  BY DEF Base, CallsHaveClaims
<1>2. YieldsHaveClaims'
  BY DEF Base, YieldsHaveClaims
<1>3. Answered'
  <2>1. \A i \in Claims : Runner(i)' = Runner(i) /\ Runner(i) \in Runs /\ Home[Runner(i)] \in Daemons
    BY ClaimFields, HomeIsADaemon DEF Base, Runner
  <2> QED
    BY <2>1 DEF Base, Answered
<1> QED
  BY <1>1, <1>2, <1>3 DEF Base

\* One call moves and posts nothing.
LEMMA StillStep ==
  ASSUME Base, Contest, TypeOK', UNCHANGED <<thread, clock, faults>>,
         NEW d \in Daemons, NEW c \in Calls, call' = [call EXCEPT ![d] = c],
         c.pc = "idle" \/ Home[c.run] = d,
         c.pc = "post" => Found(d, c.run, c.stale),
         c.pc \in Posting => /\ call[d].pc \in Waiting /\ c.run = call[d].run
                             /\ c.mine = call[d].mine /\ c.stale = call[d].stale,
         c.pc = "yield" => MayYield(c.run),
         OneWindow /\ c.pc = "yield" => \E i \in Claims : Runner(i) = c.to /\ Champion(i),
         \A r \in Runs : answer'[r].verdict = "none" => answer[r].verdict = "none",
         call[d].pc \in Posting /\ c.pc \notin Posting => answer'[call[d].run].verdict # "none",
         \A r \in registered' \ registered : answer[r].verdict = "none"
  PROVE  (Base /\ Contest)'
<1>1. Claims' = Claims /\ Posted("yield")' = Posted("yield")
  BY DEF Claims, Posted
<1>2. TypeOK /\ clock \in Nat
  BY Fields DEF Base
<1>3. call'[d] = c /\ \A e \in Daemons \ {d} : call'[e] = call[e]
  BY <1>2, OneCall
<1>4. Waiting \subseteq Posting /\ "post" \notin Posting /\ "idle" \notin Posting /\ "yield" \in Posting
      /\ "yield" \notin Waiting /\ Posting = Waiting \cup {"yield"}
  BY DEF Waiting, Posting
<1>5. Grows
  BY <1>1, <1>2 DEF Grows
<1>6. DatedUpward' /\ Bounded'
  BY <1>1 DEF Base, DatedUpward, Bounded
<1>7. \A e \in Daemons :
        /\ call'[e].pc # "idle" => Home[call'[e].run] = e
        /\ call'[e].pc \in Posting =>
             call[e].pc \in Posting /\ call'[e].run = call[e].run /\ call'[e].mine = call[e].mine
        /\ call[e].pc \in Posting /\ call'[e].pc \notin Posting => answer'[call[e].run].verdict # "none"
  BY <1>3, <1>4 DEF Base, CallsHaveClaims
<1>8. Base'
  BY <1>1, <1>6, <1>7, BaseFrame
<1>9. \A r \in Runs : Keeps(r) => Keeps(r)' \/ MayYield(r)
  BY <1>1, <1>3 DEF Keeps, Runner
<1>10. \A e \in Daemons :
         /\ call'[e].pc = "post" => call'[e] = call[e] \/ Found(e, call'[e].run, call'[e].stale)
         /\ call'[e].pc \in Waiting =>
              /\ call[e].pc \in Waiting /\ call'[e].run = call[e].run
              /\ call'[e].mine = call[e].mine /\ call'[e].stale = call[e].stale
         /\ OneWindow /\ call'[e].pc = "yield" =>
              \/ call'[e] = call[e]
              \/ \E i \in Claims : Runner(i) = call'[e].to /\ Champion(i)
  BY <1>3, <1>4
<1>11. Contest'
  BY <1>1, <1>2, <1>5, <1>9, <1>10, ContestFrame
<1> QED
  BY <1>8, <1>11

LEMMA IdleIsIdle == Idle \in Calls /\ Idle.pc = "idle" /\ "idle" \notin Posting
BY IdleTyped DEF Idle, Posting

\* A call returns an answer and posts nothing.
LEMMA StillReturn ==
  ASSUME Base, Contest, TypeOK', UNCHANGED <<thread, clock, faults>>, registered' \subseteq registered,
         NEW d \in Daemons, NEW v \in {"claimed", "refused", "error"}, NEW h,
         Return(d, call[d].run, v, h)
  PROVE  (Base /\ Contest)'
<1>1. call[d].run \in Runs /\ TypeOK
  BY Fields DEF Base
<1>2. answer'[call[d].run].verdict # "none" /\ \A s \in Runs : s # call[d].run => answer'[s] = answer[s]
  BY <1>1 DEF Return, TypeOK
<1> QED
  BY <1>2, IdleIsIdle, StillStep DEF Return

\* A claim that some read returns and that its run keeps puts the latest claim
\* there or after it.
LEMMA LatestFrom ==
  ASSUME OldestFirst, Base, NEW k \in Claims, k <= PageSize,
         \A j \in Posted("yield") : Runner(j) # Runner(k)
  PROVE  \E l \in Claims : l \in Page /\ latestClaim(Page, l) /\ k <= l
<1>1. TypeOK /\ Bounded /\ k \in DOMAIN thread /\ k \in Page /\ Page \subseteq DOMAIN thread
      /\ DOMAIN thread \subseteq Nat
  BY ClaimFields DEF Base, Page, OldestFirst, TypeOK
<1>2. k \in Standing(Page)
  BY <1>1, MarkedClaims DEF Standing, Runner
<1>3. Standing(Page) \in SUBSET DOMAIN thread /\ Standing(Page) \subseteq Claims \cap Page
  BY <1>1, MarkedClaims DEF Standing
<1>4. PICK l \in Standing(Page) : \A j \in Standing(Page) : j <= l
  BY <1>1, <1>2, <1>3 DEF Bounded
<1>5. \A j \in Standing(Page) : j = l \/ j < l
  BY <1>1, <1>3, <1>4
<1> QED
  BY <1>2, <1>3, <1>4, <1>5 DEF latestClaim, Before, OldestFirst

\* A claim is as stale as a later one.
LEMMA OlderIsStale ==
  ASSUME Base, NEW i \in Claims, NEW l \in Claims, i <= l, NEW w \in Windows, ~Fresh(l, w)
  PROVE  ~Fresh(i, w)
<1>1. /\ i \in Nat /\ l \in Nat /\ thread[i].at \in Nat /\ thread[l].at \in Nat
      /\ clock \in Nat /\ w \in Nat
  BY ClaimFields, Fields, ClaimAssumption DEF Base
<1>2. thread[i].at <= thread[l].at
  BY <1>1 DEF Base, DatedUpward
<1> QED
  BY <1>1, <1>2 DEF Fresh

\* The first read: a call posts only if the first claim is settled or counts no
\* more.
LEMMA AskFinds ==
  ASSUME OldestFirst, Base, Contest, NEW r \in Runs, NEW d \in Daemons, d = Home[r],
         call[d].pc = "idle", NEW w \in Windows,
         \A i \in Page : latestClaim(Page, i) => thread[i].run # r /\ ~Honoured(d, i, w)
  PROVE  Found(d, r, w)
<1> SUFFICES ASSUME NEW f \in Claims, First(f), f <= PageSize
             PROVE  /\ r = Runner(f) => Settled(f, w)
                    /\ r # Runner(f) /\ Home[Runner(f)] = d =>
                         \/ Gone(f) /\ ~Fresh(f, w)
                         \/ \E s \in Claims : Second(s) /\ (Runner(s) # r \/ s > PageSize)
  <2>1. \A f \in Claims : f > PageSize \/ f <= PageSize
    BY ClaimFields, ClaimAssumption DEF Base
  <2> QED
    BY <2>1 DEF Found, Settled
<1>0. TypeOK /\ Bounded /\ Runner(f) \in Runs /\ \A i \in Claims : i \in Nat /\ Runner(i) \in Runs
  BY ClaimFields DEF Base
<1>1. ASSUME NEW s \in Claims, Neighbours(f, s)
      PROVE  /\ Settled(f, w)
             /\ Runner(s) = r => Gone(f) /\ ~Fresh(f, w)
  <2>1. Settled(f, w)
    BY <1>1 DEF Neighbours, Settled
  <2>2. ASSUME Runner(s) = r PROVE Gone(f) /\ ~Fresh(f, w)
    <3>1. Gone(f) /\ Keeps(Runner(s)) /\ s <= PageSize
      BY <1>1 DEF Contest, NeighbourKeeps, Neighbours
    <3>2. PICK l \in Claims : l \in Page /\ latestClaim(Page, l) /\ s <= l
      BY <3>1, LatestFrom DEF Keeps
    <3>3. ~Fresh(l, w) /\ f <= l
      BY <3>2 DEF Honoured, First
    <3> QED
      BY <3>1, <3>2, <3>3, OlderIsStale
  <2> QED
    BY <2>1, <2>2
<1>2. CASE \E s \in Claims : Neighbours(f, s)
  BY <1>1, <1>2 DEF Neighbours
<1>3. CASE ~\E s \in Claims : Neighbours(f, s)
  <2>1. \A j \in Posted("yield") : Runner(j) # Runner(f)
    BY <1>3 DEF Contest, FirstKeeps, Keeps
  <2>2. PICK l \in Claims : l \in Page /\ latestClaim(Page, l) /\ f <= l
    BY <2>1, LatestFrom
  <2>3. Runner(l) # r /\ ~Honoured(d, l, w) /\ ~Fresh(l, w) /\ l <= PageSize
    BY <2>2 DEF Honoured, Runner, Page, OldestFirst
  <2>4. CASE Runner(l) # Runner(f)
    <3>1. PICK s \in Claims : Second(s) /\ s <= l
      BY <1>0, <2>4, SecondExists
    <3>2. ~Fresh(s, w) /\ s <= PageSize
      BY <1>0, <2>3, <3>1, OlderIsStale, ClaimAssumption
    <3>3. Home[Runner(f)] # Home[Runner(s)]
      BY <1>3, <3>1, <3>2 DEF Neighbours
    <3> QED
      BY <3>1, <3>2, <3>3 DEF Settled
  <2>5. CASE Runner(l) = Runner(f)
    <3>1. ASSUME Home[Runner(f)] = d PROVE Gone(f)
      <4>1. Runner(f) \notin registered
        BY <2>3, <2>5, <3>1 DEF Honoured, Live, Runner
      <4>2. answer[Runner(f)].verdict # "none"
        BY <3>1, IdleIsIdle DEF Base, Answered
      <4> QED
        BY <4>1, <4>2 DEF Gone
    <3>2. ~Fresh(f, w)
      BY <2>2, <2>3, OlderIsStale
    <3> QED
      BY <2>3, <2>5, <3>1, <3>2
  <2> QED
    BY <2>4, <2>5
<1> QED
  BY <1>2, <1>3

LEMMA AskContest ==
  ASSUME OldestFirst, Base, Contest, NEW r \in Runs, NEW w \in Windows, Ask(r, w)
  PROVE  (Base /\ Contest)'
<1> DEFINE d == Home[r]
<1>1. d \in Daemons /\ TypeOK' /\ TypeOK /\ call[d].pc = "idle" /\ UNCHANGED <<thread, clock, faults>>
  BY HomeIsADaemon, AskTyped DEF Base, Ask
<1>2. \A s \in registered' \ registered : answer[s].verdict = "none"
  BY DEF Ask
<1>3. "idle" \notin Posting /\ "post" \notin Posting
  BY DEF Posting
<1> HIDE DEF d
<1>4. ASSUME NEW v \in {"claimed", "refused", "error"}, NEW h, Return(d, r, v, h)
      PROVE  (Base /\ Contest)'
  <2>1. answer'[r].verdict # "none" /\ \A s \in Runs : s # r => answer'[s] = answer[s]
    BY <1>1, <1>4 DEF Return, TypeOK
  <2>2. call' = [call EXCEPT ![d] = Idle]
    BY <1>4 DEF Return
  <2> QED
    BY <1>1, <1>2, <1>3, <2>1, <2>2, IdleIsIdle, StillStep
<1>5. ASSUME \A i \in Page : latestClaim(Page, i) => thread[i].run # r /\ ~Honoured(d, i, w),
             call' = [call EXCEPT ![d].pc = "post", ![d].run = r, ![d].stale = w], UNCHANGED answer
      PROVE  (Base /\ Contest)'
  <2>1. PICK c \in Calls : c = [call[d] EXCEPT !.pc = "post", !.run = r, !.stale = w]
    BY <1>1 DEF TypeOK, Calls, Pcs
  <2>2. c.pc = "post" /\ c.run = r /\ c.stale = w /\ call' = [call EXCEPT ![d] = c]
    BY <1>1, <1>5, <2>1 DEF TypeOK, Calls
  <2>3. Found(d, r, w) /\ Home[r] = d
    BY <1>1, <1>5, AskFinds DEF d
  <2> QED
    <3>1. c \in Calls /\ call' = [call EXCEPT ![d] = c]
      BY <2>1, <2>2
    <3>2. c.pc \notin Posting /\ c.pc # "yield" /\ call[d].pc \notin Posting /\ Home[c.run] = d
          /\ Found(d, c.run, c.stale)
      BY <1>1, <1>3, <2>2, <2>3
    <3>3. \A s \in Runs : answer'[s].verdict = "none" => answer[s].verdict = "none"
      BY <1>5
    <3> QED
      BY <1>1, <1>2, <3>1, <3>2, <3>3, StillStep
<1> QED
  BY <1>4, <1>5 DEF Ask, d

LEMMA AssignContest ==
  ASSUME Base, Contest, NEW d \in Daemons, CheckAssignee(d) \/ AssignIfUnassigned(d)
  PROVE  (Base /\ Contest)'
<1>1. /\ TypeOK /\ TypeOK' /\ call[d] \in Calls /\ call[d].pc \in Waiting
      /\ UNCHANGED <<thread, clock, registered, faults>>
  BY AssignTyped, Fields DEF Base, CheckAssignee, AssignIfUnassigned, Waiting
<1>2. ASSUME NEW p \in {"assign", "reread"}, Goto(d, p) PROVE (Base /\ Contest)'
  <2>1. PICK c \in Calls : c = [call[d] EXCEPT !.pc = p]
    BY <1>1 DEF Calls, Pcs
  <2>2. c \in Calls /\ c.pc = p /\ c.run = call[d].run /\ c.mine = call[d].mine
        /\ c.stale = call[d].stale /\ call' = [call EXCEPT ![d] = c]
    BY <1>1, <1>2, <2>1 DEF Goto, TypeOK, Calls
  <2>3. c.pc # "yield" /\ c.pc # "post" /\ c.pc # "idle" /\ c.pc \in Posting /\ call[d].pc # "idle"
    BY <1>1, <2>2 DEF Posting, Waiting
  <2>4. Home[c.run] = d
    BY <2>2, <2>3 DEF Base, CallsHaveClaims
  <2>5. UNCHANGED answer
    BY <1>2 DEF Goto
  <2> QED
    BY <1>1, <2>2, <2>3, <2>4, <2>5, StillStep
<1>3. CASE Return(d, call[d].run, "error", call[d].run)
  BY <1>1, <1>3, StillReturn
<1> QED
  BY <1>2, <1>3 DEF CheckAssignee, AssignIfUnassigned

\* The second read: a run that must not yield does not, and if there is but one
\* window a run yields only to a champion.
LEMMA RereadFinds ==
  ASSUME OldestFirst, Base, Contest, Uniform,
         NEW d \in Daemons, call[d].pc = "reread", NEW i \in Page,
         earliestForeignClaimBefore(Page, call[d].run, call[d].mine, i),
         Honoured(d, i, call[d].stale)
  PROVE  MayYield(call[d].run) /\ (OneWindow => Champion(i)) /\ i \in Claims
<1> DEFINE r == call[d].run
           m == call[d].mine
           w == call[d].stale
<1>1. /\ TypeOK /\ Bounded /\ Home[r] = d /\ m \in Nat /\ r \in Runs /\ w \in Windows
      /\ \A j \in Claims : j \in Nat /\ thread[j].at \in Nat /\ Runner(j) \in Runs
  BY Fields, ClaimFields DEF Base, CallsHaveClaims
<1>2. \A j \in Claims : j <= PageSize /\ Runner(j) # r /\ thread[j].at < m => i = j \/ i < j
  BY MarkedClaims, ClaimFields
     DEF earliestForeignClaimBefore, EarlierClaims, Page, Base, Runner, Before, OldestFirst
<1>3. i \in Claims /\ i <= PageSize /\ Runner(i) # r /\ thread[i].at < m
  BY MarkedClaims DEF earliestForeignClaimBefore, EarlierClaims, Page, Runner, OldestFirst
<1>4. PICK f \in Claims : First(f)
  BY <1>1, <1>3, FirstExists
<1>5. ASSUME NEW j \in Claims, j <= i, Runner(j) # r PROVE j = i
  <2>1. thread[j].at <= thread[i].at
    BY <1>1, <1>3, <1>5 DEF Base, DatedUpward
  <2>2. j <= PageSize /\ thread[j].at < m
    BY <1>1, <1>3, <1>5, <2>1, ClaimAssumption
  <2> QED
    BY <1>1, <1>2, <1>3, <1>5, <2>2
<1>6. f <= i /\ f <= PageSize
  BY <1>1, <1>3, <1>4, ClaimAssumption DEF First
<1>7. CASE r = Runner(f)
  <2>1. thread[f].at < m
    <3>1. thread[f].at <= thread[i].at
      BY <1>1, <1>3, <1>6 DEF Base, DatedUpward
    <3> QED
      BY <1>1, <1>3, <3>1
  <2>2. Settled(f, w)
    BY <1>1, <1>4, <1>7, <2>1 DEF Contest, FirstAgain, Waiting
  <2>3. PICK s \in Claims : Second(s) /\ (Home[Runner(f)] = Home[Runner(s)] \/ ~Fresh(s, w))
    BY <1>1, <1>6, <2>2, ClaimAssumption DEF Settled
  <2>4. s <= i /\ Runner(s) # Runner(f)
    BY <1>1, <1>3, <1>4, <1>7, <2>3, FirstIsOne DEF Second
  <2>5. s = i
    BY <1>5, <1>7, <2>4
  <2>6. Home[Runner(f)] = Home[Runner(s)]
    BY <1>1, <1>7, <2>3, <2>5 DEF Honoured, Live, Runner
  <2>7. Neighbours(f, i)
    BY <1>3, <1>4, <2>3, <2>5, <2>6 DEF Neighbours
  <2>8. \A g, t \in Claims : Neighbours(g, t) => Runner(t) # r
    BY <1>1, <1>4, <1>7, <2>3, <2>4, FirstIsOne, SecondIsOne DEF Neighbours
  <2>9. \A g \in Claims : First(g) /\ Runner(g) = r => Neighbours(g, i)
    BY <1>1, <1>4, <2>7, FirstIsOne
  <2> QED
    BY <1>3, <2>7, <2>8, <2>9 DEF MayYield, Champion
<1>8. CASE r # Runner(f)
  <2>1. f = i
    BY <1>5, <1>6, <1>8
  <2>2. ~Gone(f) \/ Fresh(f, w)
    BY <2>1 DEF Gone, Honoured, Live, Runner
  <2>3. ASSUME NEW g \in Claims, NEW t \in Claims, Neighbours(g, t)
        PROVE  Runner(t) # r /\ ~OneWindow
    <3>1. g = f
      BY <1>1, <1>4, <2>3, FirstIsOne DEF Neighbours
    <3>2. /\ Gone(f) /\ NoneHonours(f, Runner(t))
          /\ OneWindow => ~Fresh(f, StaleAfter)
      BY <2>3, <3>1 DEF Contest, NeighbourKeeps
    <3>3. ~OneWindow
      BY <1>1, <2>2, <3>2 DEF Uniform
    <3>4. Runner(t) # r
      BY <2>2, <3>2 DEF NoneHonours, Waiting
    <3> QED
      BY <3>3, <3>4
  <2>4. PICK l \in Claims : Runner(l) = r
    BY DEF Base, CallsHaveClaims, Posting, Runner
  <2>5. PICK s \in Claims : Second(s)
    BY <1>1, <1>4, <1>8, <2>4, SecondExists
  <2>6. OneWindow => Home[Runner(f)] # Home[Runner(s)] \/ s > PageSize
    BY <1>1, <1>4, <2>3, <2>5, ClaimAssumption DEF Neighbours
  <2>7. \A g \in Claims : First(g) => Runner(g) # r
    BY <1>1, <1>4, <1>8, FirstIsOne
  <2> QED
    BY <1>3, <1>4, <2>1, <2>3, <2>5, <2>6, <2>7 DEF MayYield, Champion
<1> QED
  BY <1>7, <1>8

LEMMA RereadContest ==
  ASSUME OldestFirst, Base, Contest, Uniform, NEW d \in Daemons, Reread(d)
  PROVE  (Base /\ Contest)'
<1>1. /\ TypeOK /\ TypeOK' /\ call[d] \in Calls /\ call[d].pc = "reread"
      /\ UNCHANGED <<thread, clock, registered, faults>>
  BY RereadTyped, Fields DEF Base, Reread
<1>2. ASSUME NEW i \in Page, earliestForeignClaimBefore(Page, call[d].run, call[d].mine, i),
             Honoured(d, i, call[d].stale),
             call' = [call EXCEPT ![d].pc = "yield", ![d].to = thread[i].run], UNCHANGED answer
      PROVE  (Base /\ Contest)'
  <2>1. MayYield(call[d].run) /\ (OneWindow => Champion(i)) /\ i \in Claims
    BY <1>1, <1>2, RereadFinds
  <2>2. Runner(i) \in Runs
    BY <1>1, <2>1, ClaimFields
  <2>3. PICK c \in Calls : c = [call[d] EXCEPT !.pc = "yield", !.to = Runner(i)]
    BY <1>1, <2>2 DEF Calls, Pcs
  <2>4. c \in Calls /\ c.pc = "yield" /\ c.run = call[d].run /\ c.mine = call[d].mine /\ c.to = Runner(i)
        /\ c.stale = call[d].stale /\ call' = [call EXCEPT ![d] = c]
    BY <1>1, <1>2, <2>3 DEF TypeOK, Calls, Runner
  <2>5. Home[c.run] = d
    BY <1>1, <2>4 DEF Base, CallsHaveClaims
  <2>6. call[d].pc \in Waiting /\ c.pc \in Posting /\ c.pc # "post"
    BY <1>1, <2>4 DEF Waiting, Posting
  <2> QED
    BY <1>1, <1>2, <2>1, <2>4, <2>5, <2>6, StillStep
<1>3. ASSUME NEW v \in {"claimed", "error"}, Return(d, call[d].run, v, call[d].run) PROVE (Base /\ Contest)'
  BY <1>1, <1>3, StillReturn
<1> QED
  BY <1>2, <1>3 DEF Reread

\* The yield: the run that posts it was about to.
LEMMA YieldContest == ASSUME Base, Contest, NEW d \in Daemons, Yield(d) PROVE (Base /\ Contest)'
<1> DEFINE r == call[d].run
           n == Len(thread) + 1
<1>1. /\ TypeOK /\ TypeOK' /\ r \in Runs /\ call[d].pc = "yield" /\ clock \in Nat
      /\ Return(d, r, "refused", call[d].to) /\ UNCHANGED <<clock, registered, faults>>
  BY YieldTyped, Fields DEF Base, Yield
<1>2. CASE UNCHANGED thread
  BY <1>1, <1>2, StillReturn
<1>3. CASE Len(thread) < MaxThread /\ Write(r, "yield")
  <2>1. /\ n \in Nat /\ \A i \in DOMAIN thread : i \in Nat /\ i < n /\ thread'[i] = thread[i]
        /\ thread'[n].run = r
        /\ Claims' = Claims /\ Posted("yield")' = Posted("yield") \cup {n}
        /\ Bounded' /\ \A i \in DOMAIN thread' : thread'[i].at <= clock'
    BY <1>1, <1>3, Writing DEF Base, DatedUpward
  <2> HIDE DEF n
  <2>2. \A i \in Claims \cup Posted("yield") : thread'[i] = thread[i]
    BY <2>1 DEF Claims, Posted
  <2>3. DatedUpward'
    BY <2>1, <2>2 DEF Base, DatedUpward
  <2>4. PICK i \in Claims : thread[i].run = r
    BY <1>1 DEF Base, CallsHaveClaims, Posting
  <2>5. /\ call'[d] = Idle /\ \A e \in Daemons \ {d} : call'[e] = call[e]
        /\ answer'[r].verdict # "none" /\ \A s \in Runs : s # r => answer'[s] = answer[s]
    BY <1>1 DEF Return, TypeOK
  <2>6. \A s \in Runs : answer'[s].verdict = "none" => answer[s].verdict = "none"
    BY <2>5
  <2>7. Grows
    BY <1>1, <2>1, <2>2, <2>6 DEF Grows
  <2>8. \A e \in Daemons :
          /\ call'[e].pc # "idle" => Home[call'[e].run] = e
          /\ call'[e].pc \in Posting =>
               call[e].pc \in Posting /\ call'[e].run = call[e].run /\ call'[e].mine = call[e].mine
          /\ call[e].pc \in Posting /\ call'[e].pc \notin Posting => answer'[call[e].run].verdict # "none"
    BY <2>5, IdleIsIdle DEF Base, CallsHaveClaims
  <2>9. Base'
    BY <1>1, <2>1, <2>2, <2>3, <2>4, <2>6, <2>8, BaseFrame
  <2>10. \A s \in Runs : Keeps(s) => Keeps(s)'
    <3>1. SUFFICES ASSUME NEW s \in Runs, Keeps(s) PROVE Keeps(s)'
      OBVIOUS
    <3>2. s # r
      BY <1>1, <3>1 DEF Keeps
    <3>3. \A j \in Posted("yield")' : thread'[j].run # s
      BY <2>1, <2>2, <3>1, <3>2 DEF Keeps, Runner
    <3>4. \A e \in Daemons : call'[e].pc = "yield" => call'[e].run # s
      BY <2>5, <3>1, IdleIsIdle DEF Keeps
    <3> QED
      BY <3>3, <3>4 DEF Keeps, Runner
  <2>11. \A e \in Daemons :
           /\ call'[e].pc = "post" => call'[e] = call[e] \/ Found(e, call'[e].run, call'[e].stale)
           /\ call'[e].pc \in Waiting =>
                /\ call[e].pc \in Waiting /\ call'[e].run = call[e].run
                /\ call'[e].mine = call[e].mine /\ call'[e].stale = call[e].stale
           /\ OneWindow /\ call'[e].pc = "yield" =>
                \/ call'[e] = call[e]
                \/ \E j \in Claims : Runner(j) = call'[e].to /\ Champion(j)
    BY <2>5, IdleIsIdle DEF Waiting
  <2>12. Contest'
    BY <1>1, <2>1, <2>7, <2>10, <2>11, ContestFrame
  <2> QED
    BY <2>9, <2>12
<1> QED
  BY <1>2, <1>3 DEF Yield

\* A claim is posted: the first, the second, or one that decides nothing.
LEMMA PostedContest ==
  ASSUME Base, Contest, Uniform, TypeOK', NEW d \in Daemons, call[d].pc = "post",
         Len(thread) < MaxThread, Write(call[d].run, "claim"), UNCHANGED <<clock, registered, faults>>,
         \A e \in Daemons \ {d} : call'[e] = call[e],
         \A s \in Runs : s # call[d].run => answer'[s] = answer[s],
         \/ /\ call'[d].pc = "check" /\ call'[d].run = call[d].run /\ call'[d].mine = clock
            /\ call'[d].stale = call[d].stale /\ UNCHANGED answer
         \/ call'[d].pc = "idle" /\ answer'[call[d].run].verdict # "none"
  PROVE  (Base /\ Contest)'
<1>r. PICK r \in Runs : r = call[d].run
  BY Fields DEF Base
<1>n. PICK n \in Nat : n = Len(thread) + 1
  BY DEF Base, TypeOK
<1>w. PICK w \in Windows : w = call[d].stale
  BY Fields DEF Base
<1>0. \A e \in Daemons : call[e].stale \in Windows /\ call'[e].stale \in Windows
  BY Windowed DEF Base
<1>1. TypeOK /\ r \in Runs /\ Home[r] = d /\ clock \in Nat
  BY <1>r, Fields DEF Base, CallsHaveClaims
<1>2. /\ n \in Nat /\ \A i \in DOMAIN thread : i \in Nat /\ i < n /\ thread'[i] = thread[i]
      /\ thread'[n].run = r /\ thread'[n].at = clock
      /\ Claims' = Claims \cup {n} /\ Posted("yield")' = Posted("yield")
      /\ Bounded' /\ \A i \in DOMAIN thread' : thread'[i].at <= clock'
  BY <1>1, <1>r, <1>n, Writing DEF Base, DatedUpward
<1>3. /\ \A i \in Claims \cup Posted("yield") : thread'[i] = thread[i]
      /\ \A i \in Claims : i < n /\ i \in Nat /\ thread[i].at <= clock /\ thread[i].at \in Nat
                           /\ Runner(i) \in Runs /\ Runner(i)' = Runner(i)
      /\ Runner(n)' = r /\ n \notin Claims
  BY <1>1, <1>2, ClaimFields DEF Claims, Posted, Runner, Base, DatedUpward
<1>4. \A s \in Runs : answer'[s].verdict = "none" => answer[s].verdict = "none"
  OBVIOUS
<1>5. Grows
  BY <1>1, <1>2, <1>3, <1>4 DEF Grows
<1>f. (OneWindow' <=> OneWindow) /\ (OneWindow => w = StaleAfter)
  BY <1>w DEF OneWindow, Uniform
<1>6. DatedUpward'
  BY <1>1, <1>2, <1>3 DEF Base, DatedUpward
<1>7. /\ call'[d].pc # "post" /\ call'[d].pc # "yield"
      /\ call'[d].pc # "idle" => call'[d].run = r /\ call'[d].mine = clock /\ call'[d].stale = w
      /\ call[d].pc \notin Posting
  BY <1>r, <1>w DEF Posting
<1>8. CallsHaveClaims'
  BY <1>1, <1>2, <1>3, <1>7 DEF Base, CallsHaveClaims, Posting
<1>9. YieldsHaveClaims'
  BY <1>2, <1>3 DEF Base, YieldsHaveClaims
<1>10. Answered'
  <2>1. ASSUME NEW i \in Claims, NEW q \in Runs, q = Runner(i), NEW e \in Daemons, e = Home[q]
        PROVE  answer'[q].verdict # "none" \/ (call'[e].pc \in Posting /\ call'[e].run = q)
    BY <1>r, <1>4, <1>7, <2>1 DEF Base, Answered
  <2>2. answer'[r].verdict # "none" \/ (call'[d].pc \in Posting /\ call'[d].run = r)
    BY <1>r DEF Posting
  <2>3. ASSUME NEW i \in Claims', NEW q, q = Runner(i)'
        PROVE  answer'[q].verdict # "none" \/ (call'[Home[q]].pc \in Posting /\ call'[Home[q]].run = q)
    BY <1>1, <1>2, <1>3, <2>1, <2>2, <2>3, HomeIsADaemon
  <2> QED
    BY <2>3 DEF Answered
<1>11. \A q \in Runs : Keeps(q) => Keeps(q)'
  <2>1. SUFFICES ASSUME NEW q \in Runs, Keeps(q) PROVE Keeps(q)'
    OBVIOUS
  <2>2. \A j \in Posted("yield")' : thread'[j].run # q
    BY <1>2, <1>3, <2>1 DEF Keeps, Runner
  <2>3. \A e \in Daemons : call'[e].pc = "yield" => call'[e].run # q
    BY <1>7, <2>1 DEF Keeps
  <2> QED
    BY <2>2, <2>3 DEF Keeps, Runner
<1>12. ASSUME \A i \in Claims : Runner(i) # r PROVE Keeps(r)
  <2>1. \A j \in Posted("yield") : Runner(j) # r
    BY <1>12 DEF Base, YieldsHaveClaims, Runner
  <2>2. \A e \in Daemons : call[e].pc = "yield" => call[e].run # r
    BY <1>12 DEF Base, CallsHaveClaims, Posting, Runner
  <2> QED
    BY <2>1, <2>2 DEF Keeps
<1>13. CASE Claims = {}
  <2>1. Claims' = {n} /\ \A i, q : i \in Claims' /\ q \in Claims' => i = q
    BY <1>2, <1>13
  <2>2. \A s \in Claims' : ~Second(s)'
    BY <2>1 DEF Second
  <2>3. Keeps(r)'
    BY <1>1, <1>11, <1>12, <1>13
  <2>4. FirstKeeps'
    BY <1>3, <2>1, <2>3 DEF FirstKeeps
  <2>5. NeighbourKeeps'
    BY <2>2 DEF NeighbourKeeps, Neighbours
  <2>6. \A e \in Daemons : call[e].pc \notin Posting
    BY <1>13 DEF Base, CallsHaveClaims
  <2>7. ReadBeforePost'
    <3>1. ASSUME NEW e \in Daemons, call'[e].pc = "post" PROVE e # d /\ Home[call'[e].run] = e
      BY <1>7, <3>1 DEF Base, CallsHaveClaims
    <3>2. ASSUME NEW e \in Daemons, NEW q, NEW v, e # d, Home[q] = e PROVE Found(e, q, v)'
      BY <1>1, <1>3, <2>1, <3>2 DEF Found
    <3>3. ASSUME NEW e \in Daemons, call'[e].pc = "post", NEW q, q = call'[e].run,
                 NEW v, v = call'[e].stale
          PROVE  Found(e, q, v)'
      BY <3>1, <3>2, <3>3
    <3> QED
      BY <3>3 DEF ReadBeforePost
  <2>8. FirstAgain'
    <3>1. \A e \in Daemons : call'[e].pc \in Waiting => call'[e].mine <= thread'[n].at
      BY <1>1, <1>2, <1>7, <2>6 DEF Waiting, Posting
    <3> QED
      BY <2>1, <3>1 DEF FirstAgain
  <2>9. YieldsToChampion'
    BY <1>7, <2>6 DEF YieldsToChampion, Posting
  <2> QED
    BY <1>2, <1>6, <1>8, <1>9, <1>10, <2>4, <2>5, <2>7, <2>8, <2>9 DEF Base, Contest
<1>14. CASE Claims # {}
  <2>1. PICK f \in Claims : First(f)
    BY <1>14, FirstExists DEF Base
  <2>2. \A g \in Claims' : First(g)' => g = f
    BY <1>1, <1>5, <2>1, Persist
  <2>3. FirstKeeps'
    <3>1. ASSUME NEW q \in Runs, q = Runner(f) PROVE Keeps(q)' \/ \E s \in Claims' : Neighbours(f, s)'
      BY <1>1, <1>2, <1>5, <1>11, <2>1, <3>1, Persist DEF Contest, FirstKeeps
    <3> QED
      BY <1>3, <2>1, <2>2, <3>1 DEF FirstKeeps
  <2>4. ASSUME NEW s \in Claims', Second(s)', ~Second(s) PROVE s = n /\ (~\E t \in Claims : Second(t))
    <3>1. ASSUME NEW t \in Claims, Second(t) PROVE s = t
      <4>1. /\ t \in Claims' /\ First(f)' /\ Second(t)'
        BY <1>1, <1>2, <1>5, <2>1, <3>1, Persist
      <4>2. \A i \in Claims' : i \in Nat
        BY <1>2, <1>3
      <4> QED
        BY <2>2, <2>4, <4>1, <4>2 DEF Second
    <3>2. ~\E t \in Claims : Second(t)
      BY <2>4, <3>1
    <3>3. s \notin Claims
      <4>1. PICK g \in Claims' : First(g)' /\ Runner(g)' # Runner(s)'
        BY <2>4 DEF Second
      <4>2. Runner(f)' # Runner(s)' /\ Runner(f)' = Runner(f)
        BY <1>3, <2>2, <4>1
      <4> QED
        BY <1>1, <1>3, <2>1, <3>2, <4>2, SecondExists DEF Base
    <3> QED
      BY <1>2, <3>2, <3>3
  <2>5. \A v \in Windows : ~Fresh(f, v) => ~Fresh(f, v)'
    BY <1>1, <1>5, <2>1, Persist
  <2>f. Found(d, r, w)
    BY <1>r, <1>w DEF Contest, ReadBeforePost
  <2>6. NeighbourKeeps'
    <3>1. ASSUME NEW s \in Claims', Neighbours(f, s)', NEW q, q = Runner(s)'
          PROVE  /\ Gone(f)' /\ Keeps(q)' /\ NoneHonours(f, q)'
                 /\ OneWindow' => ~Fresh(f, StaleAfter)'
      <4>1. Second(s)' /\ Home[Runner(f)] = Home[q] /\ s <= PageSize
        BY <1>3, <2>1, <3>1 DEF Neighbours
      <4>2. f <= PageSize
        BY <1>1, <1>2, <1>3, <2>1, <4>1, ClaimAssumption, Persist, <1>5 DEF First
      <4>3. CASE Second(s)
        <5>1. s \in Claims /\ q = Runner(s) /\ q \in Runs
          BY <1>3, <3>1, <4>3 DEF Second
        <5>2. Neighbours(f, s)
          BY <2>1, <4>1, <4>3, <5>1 DEF Neighbours
        <5>3. /\ Gone(f)' /\ Keeps(q)' /\ NoneHonours(f, q)
              /\ OneWindow' => ~Fresh(f, StaleAfter)'
          BY <1>f, <1>1, <1>5, <1>11, <2>1, <2>5, <5>1, <5>2, Persist, ClaimAssumption
             DEF Contest, NeighbourKeeps
        <5>4. ASSUME NEW e \in Daemons, call'[e].run = q, call'[e].pc \in Waiting,
                     NEW v \in Windows, v = call'[e].stale
              PROVE  ~Fresh(f, v)'
          <6>1. CASE e # d
            BY <2>5, <5>3, <5>4, <6>1 DEF NoneHonours
          <6>2. CASE e = d
            <7>1. q = r /\ v = w /\ Runner(s) = r
              BY <1>7, <5>1, <5>4, <6>2 DEF Waiting
            <7>2. Runner(f) # r
              BY <1>1, <2>1, <5>2, <7>1, FirstIsOne DEF Neighbours, Second
            <7>3. \A t \in Claims : Second(t) => t = s
              BY <1>1, <4>3, <5>1, SecondIsOne
            <7>4. Home[Runner(f)] = d /\ s \in Nat
              BY <1>1, <1>3, <4>1, <5>1, <7>1
            <7>5. ~Fresh(f, w)
              BY <2>1, <2>f, <4>1, <4>2, <7>1, <7>2, <7>3, <7>4, ClaimAssumption DEF Found
            <7> QED
              BY <2>5, <7>1, <7>5
          <6> QED
            BY <6>1, <6>2
        <5>5. NoneHonours(f, q)'
          BY <1>0, <5>4 DEF NoneHonours
        <5> QED
          BY <5>3, <5>5
      <4>4. CASE ~Second(s)
        <5>1. q = r /\ ~\E t \in Claims : Second(t)
          BY <1>3, <2>4, <3>1, <4>1, <4>4
        <5>2. \A i \in Claims : Runner(i) = Runner(f)
          BY <1>1, <2>1, <5>1, SecondExists DEF Base
        <5>3. Runner(f) # r
          <6>1. PICK g \in Claims' : First(g)' /\ Runner(g)' # Runner(s)'
            BY <4>1 DEF Second
          <6> QED
            BY <1>3, <2>1, <2>2, <3>1, <5>1, <6>1
        <5>4. Gone(f) /\ ~Fresh(f, w)
          BY <1>1, <2>1, <2>f, <4>1, <4>2, <5>1, <5>3 DEF Found
        <5>5. Keeps(r)' /\ Gone(f)' /\ ~Fresh(f, w)'
          BY <1>1, <1>5, <1>11, <1>12, <2>1, <2>5, <5>2, <5>3, <5>4, Persist
        <5>6. ASSUME NEW e \in Daemons, call'[e].run = r, call'[e].pc \in Waiting
              PROVE  call'[e].stale = w
          <6>1. e = d
            BY <1>1, <5>6, <1>8 DEF CallsHaveClaims, Waiting
          <6> QED
            BY <1>7, <5>6, <6>1 DEF Waiting
        <5>7. NoneHonours(f, r)'
          <6>1. ASSUME NEW e \in Daemons, call'[e].run = r, call'[e].pc \in Waiting,
                       NEW v, v = call'[e].stale
                PROVE  ~Fresh(f, v)'
            BY <5>5, <5>6, <6>1
          <6> QED
            BY <6>1 DEF NoneHonours
        <5>8. OneWindow' => ~Fresh(f, StaleAfter)'
          BY <1>f, <5>5
        <5> QED
          BY <5>1, <5>5, <5>7, <5>8
      <4> QED
        BY <4>3, <4>4
    <3>2. \A g, s \in Claims' : Neighbours(g, s)' => g = f
      BY <2>2 DEF Neighbours
    <3> QED
      BY <3>1, <3>2 DEF NeighbourKeeps
  <2>7. ReadBeforePost'
    <3>1. ASSUME NEW e \in Daemons, NEW q, NEW v \in Windows, Found(e, q, v) PROVE Found(e, q, v)'
      <4>1. ASSUME NEW g \in Claims', First(g)'
            PROVE  /\ q = Runner(g)' => Settled(g, v)'
                   /\ q # Runner(g)' /\ Home[Runner(g)'] = e /\ g <= PageSize =>
                        \/ Gone(g)' /\ ~Fresh(g, v)'
                        \/ \E s \in Claims' : Second(s)' /\ (Runner(s)' # q \/ s > PageSize)
        BY <1>1, <1>2, <1>3, <1>5, <2>1, <2>2, <3>1, <4>1, Persist DEF Found
      <4> QED
        BY <4>1 DEF Found
    <3>2. ASSUME NEW e \in Daemons, call'[e].pc = "post", NEW q, q = call'[e].run,
                 NEW v \in Windows, v = call'[e].stale
          PROVE  Found(e, q, v)'
      BY <1>7, <3>1, <3>2 DEF Contest, ReadBeforePost
    <3> QED
      BY <1>0, <3>2 DEF ReadBeforePost
  <2>8. FirstAgain'
    <3>1. ASSUME NEW e \in Daemons, call'[e].run = Runner(f), call'[e].pc \in Waiting,
                 NEW v \in Windows, v = call'[e].stale
          PROVE  Settled(f, v)' \/ call'[e].mine <= thread'[f].at
      <4>1. CASE e = d
        <5>1. r = Runner(f) /\ v = w
          BY <1>7, <3>1, <4>1 DEF Waiting
        <5> QED
          BY <1>1, <1>5, <2>1, <2>f, <5>1, Persist DEF Found
      <4>2. CASE e # d
        BY <1>1, <1>3, <1>5, <2>1, <3>1, <4>2, Persist DEF Contest, FirstAgain
      <4> QED
        BY <4>1, <4>2
    <3> QED
      BY <1>0, <1>3, <2>1, <2>2, <3>1 DEF FirstAgain
  <2>9. YieldsToChampion'
    BY <1>f, <1>1, <1>2, <1>3, <1>5, <1>7, Persist DEF Contest, YieldsToChampion
  <2> QED
    BY <1>2, <1>6, <1>8, <1>9, <1>10, <2>3, <2>6, <2>7, <2>8, <2>9 DEF Base, Contest
<1> QED
  BY <1>13, <1>14

LEMMA PostContest == ASSUME Base, Contest, Uniform, NEW d \in Daemons, Post(d) PROVE (Base /\ Contest)'
<1>1. /\ TypeOK /\ TypeOK' /\ call[d].pc = "post" /\ call[d].run \in Runs /\ call[d] \in Calls
      /\ UNCHANGED <<clock, registered, faults>>
  BY PostTyped, Fields DEF Base, Post
<1>2. CASE Return(d, call[d].run, "error", call[d].run)
  <2>1. CASE UNCHANGED thread
    BY <1>1, <1>2, <2>1, StillReturn
  <2>2. CASE Len(thread) < MaxThread /\ Write(call[d].run, "claim")
    <3>1. /\ call'[d] = Idle /\ \A e \in Daemons \ {d} : call'[e] = call[e]
          /\ answer'[call[d].run].verdict # "none"
          /\ \A s \in Runs : s # call[d].run => answer'[s] = answer[s]
      BY <1>1, <1>2 DEF Return, TypeOK
    <3> QED
      BY <1>1, <2>2, <3>1, IdleIsIdle, PostedContest
  <2> QED
    BY <2>1, <2>2 DEF Post
<1>3. CASE /\ Len(thread) < MaxThread /\ Write(call[d].run, "claim") /\ UNCHANGED answer
           /\ call' = [call EXCEPT ![d].pc = "check", ![d].mine = clock]
  <2>1. /\ call'[d].pc = "check" /\ call'[d].run = call[d].run /\ call'[d].mine = clock
        /\ call'[d].stale = call[d].stale
        /\ \A e \in Daemons \ {d} : call'[e] = call[e]
    BY <1>1, <1>3 DEF TypeOK, Calls
  <2> QED
    BY <1>1, <1>3, <2>1, PostedContest
<1> QED
  BY <1>2, <1>3 DEF Post

\* Restarts end calls; the rest of the world moves none.
LEMMA RestartContest == ASSUME Base, Contest, NEW d \in Daemons, Restart(d) PROVE (Base /\ Contest)'
<1>1. TypeOK /\ TypeOK' /\ UNCHANGED <<thread, clock, faults>> /\ registered' \subseteq registered
      /\ call[d] \in Calls
  BY WorldTyped, Fields DEF Base, Restart
<1>2. CASE Return(d, call[d].run, "error", call[d].run)
  BY <1>1, <1>2, StillReturn
<1>3. CASE call[d].pc = "idle" /\ UNCHANGED <<call, answer>>
  <2>1. call' = [call EXCEPT ![d] = call[d]]
    BY <1>1, <1>3 DEF TypeOK
  <2> QED
    BY <1>1, <1>3, <2>1, StillStep DEF Posting
<1> QED
  BY <1>2, <1>3 DEF Restart

LEMMA WorldContest ==
  ASSUME Base, Contest, \/ \E r \in Runs : EndRun(r)
                        \/ Tick \/ Quote \/ PersonAssigns \/ UNCHANGED vars
  PROVE  (Base /\ Contest)'
<1>1. TypeOK /\ clock \in Nat /\ UNCHANGED <<call, answer, faults>> /\ registered' \subseteq registered
  BY Fields DEF Base, EndRun, Tick, Quote, PersonAssigns, vars
<1>2. TypeOK'
  <2>1. CASE UNCHANGED vars
    BY <1>1, <2>1 DEF vars, TypeOK
  <2> QED
    BY <1>1, <2>1, WorldTyped, QuoteTyped
<1>3. /\ Claims' = Claims /\ Posted("yield")' = Posted("yield")
      /\ \A i \in Claims \cup Posted("yield") : thread'[i] = thread[i]
      /\ Bounded' /\ clock <= clock'
      /\ \A i \in DOMAIN thread' : thread'[i].at <= clock'
  <2>1. CASE Quote
    <3>1. PICK c \in Comments : c.by = "person" /\ c.at = clock /\ thread' = Append(thread, c)
      BY <1>1, <2>1, QuoteTyped
    <3>2. /\ DOMAIN thread' = DOMAIN thread \cup {Len(thread) + 1}
          /\ \A i \in DOMAIN thread : thread'[i] = thread[i]
          /\ thread'[Len(thread) + 1] = c
      BY <1>1, <3>1, Appending
    <3>3. Claims' = Claims /\ Posted("yield")' = Posted("yield")
      BY <3>1, <3>2 DEF Claims, Posted
    <3>4. \A i \in Claims \cup Posted("yield") : thread'[i] = thread[i]
      BY <3>2 DEF Claims, Posted
    <3>5. Bounded' /\ clock' = clock
      BY <1>1, <2>1, <3>1, BoundedGrows DEF Base, Quote
    <3>6. \A i \in DOMAIN thread' : thread'[i].at <= clock'
      BY <1>1, <3>1, <3>2, <3>5 DEF Base, DatedUpward
    <3> QED
      BY <1>1, <3>3, <3>4, <3>5, <3>6
  <2>2. CASE UNCHANGED thread
    <3>1. Claims' = Claims /\ Posted("yield")' = Posted("yield") /\ Bounded'
      BY <2>2 DEF Claims, Posted, Base, Bounded
    <3>2. clock <= clock' /\ clock' \in Nat
      <4>1. clock' = clock \/ clock' = clock + 1
        BY DEF EndRun, Tick, Quote, PersonAssigns, vars
      <4> QED
        BY <1>1, <4>1
    <3>3. \A i \in DOMAIN thread : thread[i].at <= clock /\ thread[i].at \in Nat
      BY <1>1, Fields DEF Base, DatedUpward
    <3>4. \A i \in DOMAIN thread' : thread'[i].at <= clock'
      BY <1>1, <2>2, <3>2, <3>3
    <3> QED
      BY <2>2, <3>1, <3>2, <3>4
  <2> QED
    BY <2>1, <2>2 DEF EndRun, Tick, PersonAssigns, vars
<1>4. DatedUpward'
  BY <1>3 DEF Base, DatedUpward
<1>5. Grows
  BY <1>1, <1>3 DEF Grows
<1>6. Base'
  BY <1>1, <1>2, <1>3, <1>4, BaseFrame DEF Base, CallsHaveClaims
<1>7. \A r \in Runs : Keeps(r) => Keeps(r)'
  BY <1>1, <1>3 DEF Keeps, Runner
<1>8. Contest'
  BY <1>1, <1>2, <1>3, <1>5, <1>7, ContestFrame
<1> QED
  BY <1>6, <1>8

LEMMA ContestInit == Init => Base /\ Contest
<1> SUFFICES ASSUME Init PROVE Base /\ Contest
  OBVIOUS
<1>1. TypeOK /\ Bounded /\ CallsHaveClaims /\ YieldsHaveClaims
  BY Initially DEF IInv
<1>2. DOMAIN thread = {} /\ Claims = {}
  BY DEF Init, Claims, Posted
<1>3. \A d \in Daemons : call[d].pc = "idle"
  BY DEF Init, Idle
<1> QED
  BY <1>1, <1>2, <1>3 DEF Base, Contest, DatedUpward, Answered, FirstKeeps, NeighbourKeeps,
     ReadBeforePost, FirstAgain, YieldsToChampion

LEMMA UniformInit == Init => Uniform
BY DEF Init, Uniform, Idle

LEMMA UniformNext == TypeOK /\ Uniform /\ [Next]_vars => Uniform'
<1> SUFFICES ASSUME TypeOK, Uniform, [Next]_vars, OneWindow', NEW e \in Daemons
             PROVE  call'[e].stale = StaleAfter
  BY DEF Uniform
<1>1. faults' = faults /\ OneWindow /\ call[e].stale = StaleAfter
  <2>1. faults' = faults
    BY DEF Next, Ask, Post, CheckAssignee, AssignIfUnassigned, Reread, Yield, EndRun, Restart,
       Tick, Quote, PersonAssigns, vars
  <2> QED
    BY <2>1 DEF OneWindow, Uniform
<1>2. ASSUME NEW d, NEW r, NEW v, NEW h, Return(d, r, v, h) PROVE call'[e].stale = StaleAfter
  BY <1>1, <1>2 DEF Return, Idle, TypeOK
<1>3. ASSUME NEW d, NEW p, Goto(d, p) PROVE call'[e].stale = StaleAfter
  BY <1>1, <1>3 DEF Goto, TypeOK, Calls
<1>4. ASSUME NEW r \in Runs, NEW w \in Windows, Ask(r, w) PROVE call'[e].stale = StaleAfter
  <2>1. w = StaleAfter
    BY <1>1, <1>4 DEF Ask
  <2>2. CASE call' = [call EXCEPT ![Home[r]].pc = "post", ![Home[r]].run = r, ![Home[r]].stale = w]
    BY <1>1, <2>1, <2>2 DEF TypeOK, Calls
  <2> QED
    BY <1>2, <1>4, <2>2 DEF Ask
<1>5. ASSUME NEW d \in Daemons, Post(d) PROVE call'[e].stale = StaleAfter
  <2>1. CASE call' = [call EXCEPT ![d].pc = "check", ![d].mine = clock]
    BY <1>1, <2>1 DEF TypeOK, Calls
  <2> QED
    BY <1>2, <1>5, <2>1 DEF Post
<1>6. ASSUME NEW d \in Daemons, Reread(d) PROVE call'[e].stale = StaleAfter
  <2>1. ASSUME NEW i, call' = [call EXCEPT ![d].pc = "yield", ![d].to = thread[i].run]
        PROVE  call'[e].stale = StaleAfter
    BY <1>1, <2>1 DEF TypeOK, Calls
  <2> QED
    BY <1>2, <1>6, <2>1 DEF Reread
<1>7. ASSUME NEW d \in Daemons, CheckAssignee(d) \/ AssignIfUnassigned(d) \/ Yield(d) \/ Restart(d)
      PROVE  call'[e].stale = StaleAfter
  BY <1>1, <1>2, <1>3, <1>7 DEF CheckAssignee, AssignIfUnassigned, Yield, Restart
<1>8. CASE \/ \E r \in Runs : EndRun(r)
           \/ Tick \/ Quote \/ PersonAssigns \/ UNCHANGED vars
  BY <1>1, <1>8 DEF EndRun, Tick, Quote, PersonAssigns, vars
<1> QED
  BY <1>4, <1>5, <1>6, <1>7, <1>8 DEF Next

LEMMA ContestNext ==
  ASSUME OldestFirst
  PROVE  Base /\ Contest /\ Uniform /\ [Next]_vars => (Base /\ Contest)'
<1> SUFFICES ASSUME Base, Contest, Uniform, [Next]_vars PROVE (Base /\ Contest)'
  OBVIOUS
<1>1. ASSUME NEW r \in Runs, NEW w \in Windows, Ask(r, w) PROVE (Base /\ Contest)'
  BY <1>1, AskContest
<1>2. ASSUME NEW d \in Daemons, Post(d) \/ CheckAssignee(d) \/ AssignIfUnassigned(d) \/ Reread(d) \/ Yield(d)
      PROVE  (Base /\ Contest)'
  BY <1>2, PostContest, AssignContest, RereadContest, YieldContest
<1>3. ASSUME NEW d \in Daemons, Restart(d) PROVE (Base /\ Contest)'
  BY <1>3, RestartContest
<1>4. CASE \/ \E r \in Runs : EndRun(r)
           \/ Tick \/ Quote \/ PersonAssigns \/ UNCHANGED vars
  BY <1>4, WorldContest
<1> QED
  BY <1>1, <1>2, <1>3, <1>4 DEF Next

LEMMA ContestAlways == ASSUME OldestFirst PROVE Spec => [](Base /\ Contest)
<1>1. Base => TypeOK
  BY DEF Base
<1> QED
  BY <1>1, ContestInit, ContestNext, UniformInit, UniformNext, PTL DEF Spec

\* A run with a claim that keeps it has a claim that stands.
LEMMA KeepersStand ==
  ASSUME NEW i \in Claims, Keeps(Runner(i))
  PROVE  Stands(Runner(i))
BY DEF Keeps, Stands, Runner

\* On a forge that lists comments oldest first, however many runs claim the
\* issue at once, whatever calls fail, replies are lost, daemons restart, claims
\* tie or grow old, whatever windows the callers of ClaimTrackerIssue ask with
\* and however few comments a read returns, the runs do not all yield.
THEOREM ClaimantsNeverAllYield == ASSUME Provider = "github" PROVE Spec => []SomebodyWins
<1>0. OldestFirst
  BY DEF OldestFirst
<1>1. Base /\ Contest => SomebodyWins
  <2> SUFFICES ASSUME Base, Contest, Claims # {} PROVE \E r \in Runs : Stands(r)
    BY DEF SomebodyWins
  <2>1. PICK f \in Claims : First(f)
    BY FirstExists DEF Base
  <2>2. PICK i \in Claims : Keeps(Runner(i))
    BY <2>1 DEF Contest, FirstKeeps, NeighbourKeeps
  <2> QED
    BY <2>2, KeepersStand, ClaimFields DEF Base
<1> QED
  BY <1>0, <1>1, ContestAlways, PTL

\* The claim of a champion stands.
LEMMA ChampionStands ==
  ASSUME Base, Contest, NEW i \in Claims, Champion(i)
  PROVE  Stands(Runner(i))
<1>1. CASE /\ First(i)
           /\ \E s \in Claims : Second(s) /\ (Home[Runner(i)] # Home[Runner(s)] \/ s > PageSize)
  <2>1. ~\E s \in Claims : Neighbours(i, s)
    BY <1>1, SecondIsOne, ClaimFields, ClaimAssumption DEF Base, Neighbours
  <2> QED
    BY <1>1, <2>1, KeepersStand DEF Contest, FirstKeeps
<1>2. CASE \E f \in Claims : Neighbours(f, i)
  BY <1>2, KeepersStand DEF Contest, NeighbourKeeps
<1> QED
  BY <1>1, <1>2 DEF Champion

\* One step turns a run away only for a run whose claim stands.
LEMMA RefusalStep ==
  ASSUME OldestFirst, OneWindow, PageSize >= MaxThread, Base, Contest, [Next]_vars, NEW r \in Runs,
         answer'[r] # answer[r], answer'[r].verdict = "refused"
  PROVE  Stands(answer'[r].holder)
<1>1. TypeOK
  BY DEF Base
<1>2. ASSUME NEW d, NEW q \in Runs, NEW v, NEW h, Return(d, q, v, h)
      PROVE  v = "refused" /\ answer'[r].holder = h
  <2>1. answer'[q] = [verdict |-> v, holder |-> h] /\ \A s \in Runs \ {q} : answer'[s] = answer[s]
    BY <1>1, <1>2 DEF Return, TypeOK
  <2> QED
    BY <2>1
<1>3. ASSUME NEW q \in Runs, NEW w \in Windows, Ask(q, w) PROVE Stands(answer'[r].holder)
  <2>1. PICK i \in Page : latestClaim(Page, i) /\ answer'[r].holder = thread[i].run
    BY <1>2, <1>3 DEF Ask
  <2>2. Page = DOMAIN thread
    <3>1. DOMAIN thread = 1..Len(thread) /\ Len(thread) \in Nat /\ Len(thread) <= MaxThread
      BY <1>1 DEF TypeOK
    <3> QED
      BY <3>1, ClaimAssumption DEF Page, OldestFirst
  <2>3. i \in Claims /\ \A j \in Posted("yield") : j > i => thread[j].run # thread[i].run
    <3>1. Posted("yield") \subseteq DOMAIN thread
      BY DEF Posted
    <3> QED
      BY <2>1, <2>2, <3>1, MarkedClaims DEF latestClaim, Standing, Before, OldestFirst
  <2> QED
    BY <2>1, <2>3 DEF Stands
<1>4. ASSUME NEW d \in Daemons, Yield(d) PROVE Stands(answer'[r].holder)
  <2>1. answer'[r].holder = call[d].to /\ call[d].pc = "yield"
    BY <1>1, <1>2, <1>4, Fields DEF Yield
  <2>2. PICK i \in Claims : Runner(i) = call[d].to /\ Champion(i)
    BY <2>1 DEF Contest, YieldsToChampion
  <2> QED
    BY <2>1, <2>2, ChampionStands
<1>5. ASSUME NEW d \in Daemons, \/ Post(d) \/ CheckAssignee(d) \/ AssignIfUnassigned(d)
                               \/ Reread(d) \/ Restart(d)
      PROVE  FALSE
  <2>1. call[d].run \in Runs
    BY <1>1, Fields
  <2> QED
    BY <1>2, <1>5, <2>1 DEF Post, CheckAssignee, AssignIfUnassigned, Reread, Restart, Goto
<1>6. CASE \/ \E q \in Runs : EndRun(q)
           \/ Tick \/ Quote \/ PersonAssigns \/ UNCHANGED vars
  BY <1>6 DEF EndRun, Tick, Quote, PersonAssigns, vars
<1> QED
  BY <1>3, <1>4, <1>5, <1>6 DEF Next

\* On a forge that lists comments oldest first, when a read returns every
\* comment and the requests leave stale_after_seconds unset, ClaimTrackerIssue
\* turns a run away only for a run whose own claim stands at that moment,
\* whatever fails: also at the end of a call whose yield was decided long before
\* it was posted, and although the second read does not look at yields.
THEOREM RefusalsHaveCause ==
  ASSUME Provider = "github", PageSize >= MaxThread
  PROVE  Spec => RefusedForCause
<1>0. OldestFirst
  BY DEF OldestFirst
<1>1. Base /\ Contest /\ [Next]_vars =>
        [OneWindow => \A r \in Runs : answer'[r] # answer[r] /\ answer'[r].verdict = "refused" =>
           Stands(answer'[r].holder)]_vars
  BY <1>0, RefusalStep
<1> QED
  BY <1>0, <1>1, ContestAlways, PTL DEF Spec, RefusedForCause
=============================================================================
