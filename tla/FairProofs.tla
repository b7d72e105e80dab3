------------------------------ MODULE FairProofs ------------------------------
(***************************************************************************)
(* What the event feed and the size of a memory promise at every moment,    *)
(* whatever the constants: the safety half of MCFair.                       *)
(***************************************************************************)
EXTENDS MCFair, TLAPS

-----------------------------------------------------------------------------
(***************************************************************************)
(* The size of a memory.  Every replacement is matched by one invalidation, *)
(* so the generation counts the contents there have been; a walk of the      *)
(* current generation can only have seen the content that is there.          *)
(***************************************************************************)
WalkRecs == [generation : Nat, seen : Nat]

Counted ==
    /\ measuring => content = generation + 2
    /\ ~measuring => content = generation + 1
    /\ content <= MaxReplaced + 1

WalksFit ==
    \A w \in walks :
        /\ w.generation <= generation /\ w.seen <= content
        /\ w.generation = generation /\ ~measuring => w.seen \in {0, content}

Flags == measuring \in BOOLEAN /\ fresh \in BOOLEAN /\ walking \in BOOLEAN /\ rewalk \in BOOLEAN

StatsInv ==
    /\ content \in Nat /\ memo \in Nat /\ generation \in Nat
    /\ Flags
    /\ walks \subseteq WalkRecs
    /\ Counted
    /\ memo <= content
    /\ WalksFit
    /\ FreshIsCurrent
    /\ OneWalkAtATime

LEMMA StatsInvGives == StatsInv => StatsTypeOK /\ FreshIsCurrent /\ OneWalkAtATime
<1> SUFFICES ASSUME StatsInv PROVE StatsTypeOK
    BY DEF StatsInv
<1>1. {measuring, fresh, walking, rewalk} \subseteq BOOLEAN
    BY Zenon DEF StatsInv, Flags
<1>2. content \in 1..(MaxReplaced + 1) /\ memo \in 0..content /\ generation \in 0..MaxReplaced
    BY StatsAssumption DEF StatsAssumption, StatsInv, Counted
<1> QED BY <1>1, <1>2, Zenon DEF StatsTypeOK

LEMMA StatsStarts == StatsInit => StatsInv
<1> SUFFICES ASSUME StatsInit PROVE StatsInv OBVIOUS
<1>1. Flags
    BY Zenon DEF StatsInit, Flags
<1>2. /\ content = 1 /\ memo = 0 /\ generation = 0 /\ walks = {}
      /\ measuring = FALSE /\ fresh = FALSE /\ walking = FALSE /\ rewalk = FALSE
    BY DEF StatsInit
<1>3. Counted /\ WalksFit /\ FreshIsCurrent /\ OneWalkAtATime /\ walks \subseteq WalkRecs
    BY <1>2, StatsAssumption
    DEF StatsAssumption, Counted, WalksFit, FreshIsCurrent, OneWalkAtATime
<1> QED BY <1>1, <1>2, <1>3 DEF StatsInv, Flags

LEMMA AskKeeps == StatsInv /\ Ask => StatsInv'
<1> SUFFICES ASSUME StatsInv, Ask PROVE StatsInv' OBVIOUS
<1>1. /\ walks = {} /\ walks' = {[generation |-> generation, seen |-> 0]}
      /\ walking' = TRUE
      /\ content' = content /\ measuring' = measuring /\ memo' = memo
      /\ fresh' = fresh /\ generation' = generation /\ rewalk' = rewalk
    BY DEF Ask, StartWalk, StatsInv, OneWalkAtATime
<1>2. Flags'
    BY <1>1, Zenon DEF StatsInv, Flags
<1> QED BY <1>1, <1>2
    DEF StatsInv, WalkRecs, Counted, WalksFit, FreshIsCurrent, OneWalkAtATime

LEMMA ExpireKeeps == StatsInv /\ Expire => StatsInv'
<1> SUFFICES ASSUME StatsInv, Expire PROVE StatsInv' OBVIOUS
<1>1. Flags'
    BY Zenon DEF Expire, StatsInv, Flags
<1>2. /\ content' = content /\ measuring' = measuring /\ memo' = memo /\ fresh' = FALSE
      /\ generation' = generation /\ walking' = walking /\ rewalk' = rewalk /\ walks' = walks
    BY DEF Expire
<1> QED BY <1>1, <1>2 DEF StatsInv, Counted, WalksFit, FreshIsCurrent, OneWalkAtATime

LEMMA ReplaceKeeps == StatsInv /\ Replace => StatsInv'
<1> SUFFICES ASSUME StatsInv, Replace PROVE StatsInv' OBVIOUS
<1>1. Flags'
    BY Zenon DEF Replace, StatsInv, Flags
<1>2. /\ content' = content + 1 /\ content <= MaxReplaced /\ measuring = FALSE /\ measuring' = TRUE
      /\ memo' = memo /\ fresh' = fresh /\ generation' = generation
      /\ walking' = walking /\ rewalk' = rewalk /\ walks' = walks
    BY DEF Replace, StatsInv, Flags
<1> QED BY <1>1, <1>2, StatsAssumption
    DEF StatsAssumption, StatsInv, WalkRecs, Counted, WalksFit, FreshIsCurrent, OneWalkAtATime

LEMMA InvalidateKeeps == StatsInv /\ Invalidate => StatsInv'
<1> SUFFICES ASSUME StatsInv, Invalidate PROVE StatsInv' OBVIOUS
<1>1. /\ measuring = TRUE /\ measuring' = FALSE /\ fresh' = FALSE
      /\ generation' = generation + 1 /\ content' = content /\ memo' = memo
    BY DEF Invalidate, StatsInv
<1>2. content = generation + 2 /\ \A w \in walks : w.generation <= generation /\ w.seen <= content
    BY <1>1 DEF StatsInv, Counted, WalksFit
<1>3. CASE walking
  <2>1. walking' = TRUE /\ rewalk' = TRUE /\ walks' = walks /\ walking = TRUE
      BY <1>3 DEF Invalidate, StatsInv
  <2>2. Flags'
      BY <1>1, <2>1, Zenon DEF Flags
  <2>3. Counted' /\ WalksFit' /\ FreshIsCurrent' /\ OneWalkAtATime' /\ walks' \subseteq WalkRecs
      BY <1>1, <1>2, <2>1
      DEF StatsInv, WalkRecs, Counted, WalksFit, FreshIsCurrent, OneWalkAtATime
  <2> QED BY <1>1, <2>2, <2>3 DEF StatsInv
<1>4. CASE ~walking /\ memo # 0
  <2>1. /\ walking' = TRUE /\ rewalk' = FALSE /\ walks = {}
        /\ walks' = {[generation |-> generation + 1, seen |-> 0]}
      BY <1>4 DEF Invalidate, Watched, StartWalk, StatsInv, OneWalkAtATime
  <2>2. Flags'
      BY <1>1, <2>1, Zenon DEF Flags
  <2>3. Counted' /\ WalksFit' /\ FreshIsCurrent' /\ OneWalkAtATime' /\ walks' \subseteq WalkRecs
      BY <1>1, <1>2, <2>1
      DEF StatsInv, WalkRecs, Counted, WalksFit, FreshIsCurrent, OneWalkAtATime
  <2> QED BY <1>1, <2>2, <2>3 DEF StatsInv
<1>5. CASE ~walking /\ memo = 0
  <2>1. walking' = FALSE /\ rewalk' = FALSE /\ walks = {} /\ walks' = {}
      BY <1>5 DEF Invalidate, Watched, StatsInv, OneWalkAtATime
  <2>2. Flags'
      BY <1>1, <2>1, Zenon DEF Flags
  <2>3. Counted' /\ WalksFit' /\ FreshIsCurrent' /\ OneWalkAtATime' /\ walks' \subseteq WalkRecs
      BY <1>1, <1>2, <2>1
      DEF StatsInv, WalkRecs, Counted, WalksFit, FreshIsCurrent, OneWalkAtATime
  <2> QED BY <1>1, <2>2, <2>3 DEF StatsInv
<1> QED BY <1>3, <1>4, <1>5

LEMMA ReadKeeps == \A w \in walks : StatsInv /\ Read(w) => StatsInv'
<1> SUFFICES ASSUME NEW w \in walks, StatsInv, Read(w) PROVE StatsInv' OBVIOUS
<1>1. /\ walks = {w} /\ w \in WalkRecs /\ w.generation <= generation
      /\ w.seen = 0 /\ walking = TRUE
    BY DEF StatsInv, OneWalkAtATime, WalksFit, Read
<1>2. walks' = {[w EXCEPT !.seen = content]}
    BY <1>1 DEF Read
<1>3. [w EXCEPT !.seen = content] = [generation |-> w.generation, seen |-> content]
    BY <1>1 DEF WalkRecs
<1>4. /\ content' = content /\ measuring' = measuring /\ memo' = memo /\ fresh' = fresh
      /\ generation' = generation /\ walking' = walking /\ rewalk' = rewalk
    BY DEF Read
<1>5. Flags'
    BY <1>4, Zenon DEF StatsInv, Flags
<1> QED BY <1>1, <1>2, <1>3, <1>4, <1>5
    DEF StatsInv, WalkRecs, Counted, WalksFit, FreshIsCurrent, OneWalkAtATime

\* A walk that ends leaves none behind it, or one that has seen nothing yet.
LEMMA LeaveFits ==
  ASSUME StatsInv, NEW w \in walks, Leave(w),
         content' = content, generation' = generation, measuring' = measuring
  PROVE  /\ walks' \subseteq WalkRecs /\ WalksFit' /\ OneWalkAtATime'
         /\ walking' \in BOOLEAN /\ rewalk' = FALSE
<1>1. walks = {w} /\ walking = TRUE
    BY DEF StatsInv, OneWalkAtATime
<1>2. CASE rewalk
  <2>1. walks' = {[generation |-> generation, seen |-> 0]} /\ walking' = TRUE /\ rewalk' = FALSE
      BY <1>1, <1>2 DEF Leave, StatsInv
  <2> QED BY <2>1 DEF StatsInv, WalkRecs, WalksFit, OneWalkAtATime
<1>3. CASE ~rewalk
  <2>1. walks' = {} /\ walking' = FALSE /\ rewalk' = FALSE
      BY <1>1, <1>3 DEF Leave, StatsInv
  <2> QED BY <2>1 DEF StatsInv, WalkRecs, WalksFit, OneWalkAtATime
<1> QED BY <1>2, <1>3

LEMMA LandKeeps == \A w \in walks : StatsInv /\ Land(w) => StatsInv'
<1> SUFFICES ASSUME NEW w \in walks, StatsInv, Land(w) PROVE StatsInv' OBVIOUS
<1>1. content' = content /\ generation' = generation /\ measuring' = measuring /\ Leave(w)
    BY DEF Land
<1>2. /\ walks' \subseteq WalkRecs /\ WalksFit' /\ OneWalkAtATime'
      /\ walking' \in BOOLEAN /\ rewalk' = FALSE
    BY <1>1, LeaveFits
<1>3. w \in WalkRecs /\ w.seen <= content
    BY DEF StatsInv, WalksFit
<1>4. (memo' = memo /\ fresh' = fresh) \/ (memo' = w.seen /\ fresh' = TRUE)
    BY DEF Land
<1>5. memo' \in Nat /\ memo' <= content
    BY <1>3, <1>4 DEF StatsInv, WalkRecs
<1>7. Flags'
    BY <1>1, <1>2, <1>4, Zenon DEF StatsInv, Flags
<1>6. FreshIsCurrent'
  <2>1. CASE w.generation = generation
    <3>1. memo' = w.seen /\ w.seen # 0
        BY <2>1 DEF Land, Current
    <3>2. ~measuring => w.seen = content
        BY <2>1, <3>1 DEF StatsInv, WalksFit
    <3> QED BY <1>1, <3>1, <3>2 DEF FreshIsCurrent
  <2>2. CASE w.generation # generation
    <3>1. memo' = memo /\ fresh' = fresh
        BY <2>2 DEF Land, Current
    <3> QED BY <1>1, <3>1 DEF StatsInv, FreshIsCurrent
  <2> QED BY <2>1, <2>2
<1> QED BY <1>1, <1>2, <1>5, <1>6, <1>7 DEF StatsInv, Counted

LEMMA FailKeeps == \A w \in walks : StatsInv /\ Fail(w) => StatsInv'
<1> SUFFICES ASSUME NEW w \in walks, StatsInv, Fail(w) PROVE StatsInv' OBVIOUS
<1>1. /\ content' = content /\ generation' = generation /\ measuring' = measuring
      /\ memo' = memo /\ fresh' = fresh /\ Leave(w)
    BY DEF Fail
<1>2. /\ walks' \subseteq WalkRecs /\ WalksFit' /\ OneWalkAtATime'
      /\ walking' \in BOOLEAN /\ rewalk' = FALSE
    BY <1>1, LeaveFits
<1>3. Flags'
    BY <1>1, <1>2, Zenon DEF StatsInv, Flags
<1> QED BY <1>1, <1>2, <1>3 DEF StatsInv, Counted, FreshIsCurrent

LEMMA StatsKeeps == StatsInv /\ [StatsNext]_statsVars => StatsInv'
<1> SUFFICES ASSUME StatsInv, [StatsNext]_statsVars PROVE StatsInv' OBVIOUS
<1>1. CASE StatsNext
    BY <1>1, AskKeeps, ExpireKeeps, ReplaceKeeps, InvalidateKeeps, ReadKeeps, LandKeeps, FailKeeps
    DEF StatsNext, Walk
<1>2. CASE UNCHANGED statsVars
  <2>1. Flags'
      BY <1>2, Zenon DEF statsVars, StatsInv, Flags
  <2> QED BY <1>2, <2>1
      DEF statsVars, StatsInv, Counted, WalksFit, FreshIsCurrent, OneWalkAtATime
<1> QED BY <1>1, <1>2

-----------------------------------------------------------------------------
(***************************************************************************)
(* Sequences of events.                                                     *)
(***************************************************************************)
LEMMA Sums ==
  \A v, q, p, n \in Nat : v + q + p = n => n - p + 1 = v + (q + 1)
  OBVIOUS

LEMMA Shorter ==
  \A n, m \in Nat : n # 0 /\ n # 1 /\ m = n - 1 => m \in 1..m /\ m + 1 = n /\ m # 0
  OBVIOUS

LEMMA AppendAt ==
  ASSUME NEW s \in Seq(Nat), NEW e \in Nat
  PROVE  /\ Append(s, e) \in Seq(Nat) /\ Len(Append(s, e)) = Len(s) + 1
         /\ \A i \in 1..Len(s) : Append(s, e)[i] = s[i]
         /\ Append(s, e)[Len(s) + 1] = e
  OBVIOUS

LEMMA TailAt ==
  ASSUME NEW s \in Seq(Nat), s # <<>>
  PROVE  /\ Len(s) \in Nat \ {0} /\ Head(s) = s[1] /\ s[1] \in Nat
         /\ Tail(s) \in Seq(Nat) /\ Len(Tail(s)) = Len(s) - 1
         /\ \A i \in 1..(Len(s) - 1) : Tail(s)[i] = s[i + 1]
  OBVIOUS

LEMMA CatAt ==
  ASSUME NEW s \in Seq(Nat), NEW t \in Seq(Nat)
  PROVE  /\ DOMAIN (s \o t) = 1..(Len(s) + Len(t))
         /\ \A i \in 1..Len(s) : (s \o t)[i] = s[i]
         /\ \A i \in (Len(s) + 1)..(Len(s) + Len(t)) : (s \o t)[i] = t[i - Len(s)]
  OBVIOUS

-----------------------------------------------------------------------------
(***************************************************************************)
(* The event hub.  What the loop has still to fan out are the last events    *)
(* published; what a subscribed client has seen, what is queued for it and   *)
(* what is pending make up all of them; and a client that is no longer fed   *)
(* finds the sentinel at the end of its queue.                               *)
(***************************************************************************)
Pumps == {"off", "waiting", "sending", "ended"}

PendingFits ==
  /\ published \in Nat /\ pending \in Seq(Nat) /\ Len(pending) <= published
  /\ \A i \in 1..Len(pending) : pending[i] = published - Len(pending) + i

HubTypes ==
  /\ subs \subseteq Clients
  /\ qs \in [Clients -> Seq(Nat)] /\ view \in [Clients -> Nat]
  /\ sock \in [Clients -> {"open", "closed"}] /\ pump \in [Clients -> Pumps]
  /\ DOMAIN gap = Clients

Bounded(c) ==
  /\ Len(qs[c]) <= QueueMax /\ view[c] <= published
  /\ \A i \in 1..Len(qs[c]) : qs[c][i] <= published

Upto(c) ==
  /\ pump[c] # "off" /\ gap[c] = FALSE
  /\ view[c] + Len(qs[c]) + Len(pending) = published
  /\ \A i \in 1..Len(qs[c]) : qs[c][i] = view[c] + i

Poisoned(c) == pump[c] = "ended" \/ (qs[c] # <<>> /\ qs[c][Len(qs[c])] = 0)

ClientFits(c) ==
  /\ Bounded(c)
  /\ c \in subs => Upto(c)
  /\ c \notin subs /\ sock[c] = "open" /\ pump[c] # "off" => Poisoned(c)

HubInv == PendingFits /\ HubTypes /\ \A c \in Clients : ClientFits(c)

LEMMA HubInvGives == HubInv => HubTypeOK /\ LostMeansCutOff /\ GoneIsUnsubscribed
<1> SUFFICES ASSUME HubInv PROVE HubTypeOK /\ LostMeansCutOff /\ GoneIsUnsubscribed
    OBVIOUS
<1>1. HubTypeOK
    BY DEF HubInv, HubTypes, PendingFits, ClientFits, Bounded, HubTypeOK
<1>2. GoneIsUnsubscribed
    BY DEF HubInv, ClientFits, Upto, GoneIsUnsubscribed
<1>3. LostMeansCutOff
  <2> SUFFICES ASSUME NEW c \in Clients, sock[c] = "open", pump[c] # "off"
               PROVE  IF c \in subs THEN Contiguous(c) /\ ~gap[c] ELSE Poisoned(c)
      BY DEF LostMeansCutOff, Poisoned, Overflow
  <2>1. CASE c \in subs
    <3>1. Upto(c) /\ qs[c] \in Seq(Nat) /\ pending \in Seq(Nat) /\ view[c] \in Nat
        BY <2>1 DEF HubInv, ClientFits, HubTypes, PendingFits
    <3> DEFINE rest == qs[c] \o pending
    <3>2. ASSUME NEW i \in DOMAIN rest PROVE rest[i] = view[c] + i
      <4>1. i \in 1..(Len(qs[c]) + Len(pending)) /\ Len(qs[c]) \in Nat /\ Len(pending) \in Nat
          BY <3>1, CatAt
      <4>2. CASE i <= Len(qs[c])
          BY <3>1, <4>1, <4>2, CatAt DEF Upto
      <4>3. CASE i > Len(qs[c])
        <5>1. \A j \in (Len(qs[c]) + 1)..(Len(qs[c]) + Len(pending)) :
                  (qs[c] \o pending)[j] = pending[j - Len(qs[c])]
            BY <3>1, CatAt
        <5>2. i \in (Len(qs[c]) + 1)..(Len(qs[c]) + Len(pending)) /\ i - Len(qs[c]) \in 1..Len(pending)
            BY <4>1, <4>3
        <5>3. rest[i] = pending[i - Len(qs[c])]
            BY <5>1, <5>2
        <5>4. pending[i - Len(qs[c])] = published - Len(pending) + (i - Len(qs[c]))
            BY <5>2 DEF HubInv, PendingFits
        <5>5. view[c] + Len(qs[c]) + Len(pending) = published
            BY <3>1 DEF Upto
        <5> HIDE DEF rest
        <5>6. view[c] \in Nat /\ Len(qs[c]) \in Nat /\ Len(pending) \in Nat
              /\ published \in Nat /\ i \in Nat
            BY <3>1, <4>1 DEF HubInv, PendingFits
        <5>7. published - Len(pending) + (i - Len(qs[c])) = view[c] + i
            BY <5>5, <5>6, SMT
        <5> QED BY <5>3, <5>4, <5>7
      <4> QED BY <4>1, <4>2, <4>3
    <3>3. Contiguous(c)
        BY <3>2, Zenon DEF Contiguous
    <3>4. ~gap[c]
        BY <3>1 DEF Upto
    <3> QED BY <2>1, <3>3, <3>4
  <2>2. CASE c \notin subs
      BY <2>2 DEF HubInv, ClientFits
  <2> QED BY <2>1, <2>2
<1> QED BY <1>1, <1>2, <1>3

LEMMA HubStarts == HubInit => HubInv
<1> SUFFICES ASSUME HubInit PROVE HubInv OBVIOUS
<1>1. PendingFits
    BY DEF HubInit, PendingFits
<1>2. HubTypes
    BY DEF HubInit, HubTypes, Pumps
<1>3. ASSUME NEW c \in Clients PROVE ClientFits(c)
  <2>1. qs[c] = <<>> /\ view[c] = 0 /\ pump[c] = "off" /\ published = 0 /\ subs = {}
      BY DEF HubInit
  <2> QED BY <2>1, HubAssumption DEF HubAssumption, ClientFits, Bounded
<1> QED BY <1>1, <1>2, <1>3 DEF HubInv

\* A step that leaves a client's queue alone keeps what is true of that client.
LEMMA SameClient ==
  ASSUME NEW c \in Clients, ClientFits(c), qs'[c] = qs[c], view'[c] = view[c], gap'[c] = gap[c],
         published' = published, pending' = pending,
         c \in subs' <=> c \in subs,
         c \in subs => pump'[c] # "off",
         sock'[c] = "open" /\ pump'[c] # "off" =>
             sock[c] = "open" /\ pump[c] # "off" /\ (pump[c] = "ended" => pump'[c] = "ended")
  PROVE  ClientFits(c)'
<1>1. Bounded(c)'
    BY DEF ClientFits, Bounded
<1>2. c \in subs' => Upto(c)'
    BY DEF ClientFits, Upto
<1>3. c \notin subs' /\ sock'[c] = "open" /\ pump'[c] # "off" => Poisoned(c)'
    BY DEF ClientFits, Poisoned
<1> QED BY <1>1, <1>2, <1>3 DEF ClientFits

LEMMA ConnectKeeps == \A c \in Clients : HubInv /\ Connect(c) => HubInv'
<1> SUFFICES ASSUME NEW c \in Clients, HubInv, Connect(c) PROVE HubInv' OBVIOUS
<1>1. PendingFits'
    BY DEF HubInv, PendingFits, Connect
<1>2. published - Len(pending) \in Nat /\ published - Len(pending) <= published
      /\ Len(pending) \in Nat /\ published \in Nat
    BY DEF HubInv, PendingFits
<1>3. HubTypes'
    BY <1>2 DEF HubInv, HubTypes, Connect, Pumps
<1>4. ClientFits(c)'
  <2>1. /\ qs'[c] = <<>> /\ view'[c] = published - Len(pending) /\ gap'[c] = FALSE
        /\ pump'[c] = "waiting" /\ c \in subs' /\ published' = published /\ pending' = pending
      BY DEF HubInv, HubTypes, Connect
  <2> QED BY <1>2, <2>1, HubAssumption DEF HubAssumption, ClientFits, Bounded, Upto
<1>5. ASSUME NEW d \in Clients, d # c PROVE ClientFits(d)'
  <2>1. /\ qs'[d] = qs[d] /\ view'[d] = view[d] /\ gap'[d] = gap[d] /\ pump'[d] = pump[d]
        /\ sock'[d] = sock[d] /\ published' = published /\ pending' = pending
        /\ (d \in subs' <=> d \in subs)
      BY <1>5 DEF HubInv, HubTypes, Connect
  <2>2. ClientFits(d) /\ (d \in subs => pump[d] # "off")
      BY DEF HubInv, ClientFits, Upto
  <2> QED BY <2>1, <2>2, SameClient
<1> QED BY <1>1, <1>3, <1>4, <1>5 DEF HubInv

LEMMA PublishKeeps == HubInv /\ Publish => HubInv'
<1> SUFFICES ASSUME HubInv, Publish PROVE HubInv' OBVIOUS
<1>1. published \in Nat /\ pending \in Seq(Nat) /\ Len(pending) \in Nat
    BY DEF HubInv, PendingFits
<1>2. published' = published + 1 /\ pending' = Append(pending, published + 1)
    BY DEF Publish
<1>3. /\ pending' \in Seq(Nat) /\ Len(pending') = Len(pending) + 1
      /\ \A i \in 1..Len(pending) : pending'[i] = pending[i]
      /\ pending'[Len(pending) + 1] = published + 1
    BY <1>1, <1>2, AppendAt
<1>4. PendingFits'
    BY <1>1, <1>2, <1>3 DEF HubInv, PendingFits
<1>5. HubTypes'
    BY DEF HubInv, HubTypes, Publish
<1>6. ASSUME NEW c \in Clients PROVE ClientFits(c)'
  <2>1. ClientFits(c) /\ qs[c] \in Seq(Nat) /\ view[c] \in Nat
      BY DEF HubInv, HubTypes
  <2>2. UNCHANGED <<qs, view, gap, pump, sock, subs>>
      BY DEF Publish
  <2>3. Bounded(c)'
      BY <1>1, <1>2, <2>1, <2>2 DEF ClientFits, Bounded
  <2>4. ASSUME c \in subs PROVE Upto(c)'
    <3>1. /\ pump[c] # "off" /\ gap[c] = FALSE /\ view[c] + Len(qs[c]) + Len(pending) = published
          /\ \A i \in 1..Len(qs[c]) : qs[c][i] = view[c] + i
        BY <2>1, <2>4 DEF ClientFits, Upto
    <3>2. Len(qs[c]) \in Nat
        BY <2>1
    <3>3. view[c] + Len(qs[c]) + Len(pending') = published'
      <4>2. view[c] \in Nat /\ Len(qs[c]) \in Nat /\ Len(pending) \in Nat /\ published \in Nat
          BY <1>1, <2>1, <3>2
      <4>3. view[c] + Len(qs[c]) + Len(pending) = published
          BY <3>1
      <4>1. view[c] + Len(qs[c]) + (Len(pending) + 1) = published + 1
          BY <4>2, <4>3, SMT
      <4> QED BY <1>2, <1>3, <4>1
    <3> QED BY <2>2, <3>1, <3>3 DEF Upto
  <2>5. c \notin subs' /\ sock'[c] = "open" /\ pump'[c] # "off" => Poisoned(c)'
      BY <2>1, <2>2 DEF ClientFits, Poisoned
  <2> QED BY <2>2, <2>3, <2>4, <2>5 DEF ClientFits
<1> QED BY <1>4, <1>5, <1>6 DEF HubInv

LEMMA FanoutKeeps == HubInv /\ Fanout => HubInv'
<1> SUFFICES ASSUME HubInv, Fanout PROVE HubInv' OBVIOUS
<1>1. /\ published \in Nat /\ pending \in Seq(Nat) /\ pending # <<>>
      /\ published' = published /\ pending' = Tail(pending)
      /\ Len(pending) <= published
      /\ \A i \in 1..Len(pending) : pending[i] = published - Len(pending) + i
    BY DEF HubInv, PendingFits, Fanout
<1>2. /\ Len(pending) \in Nat \ {0} /\ Head(pending) = pending[1]
      /\ pending' \in Seq(Nat) /\ Len(pending') = Len(pending) - 1
      /\ \A i \in 1..(Len(pending) - 1) : pending'[i] = pending[i + 1]
    BY <1>1, TailAt
<1>3. Head(pending) = published - Len(pending) + 1 /\ Head(pending) \in Nat
      /\ Head(pending) <= published
    BY <1>1, <1>2
<1>4. PendingFits'
    BY <1>1, <1>2 DEF PendingFits
<1>5. /\ \A c \in Clients : qs'[c] = IF c \in subs THEN Fed(c) ELSE qs[c]
      /\ DOMAIN qs' = Clients /\ qs' = [c \in Clients |-> qs'[c]]
      /\ subs' = {c \in subs : ~Full(c)}
      /\ UNCHANGED <<view, gap, pump, sock>>
    BY DEF Fanout
<1>6. ASSUME NEW c \in Clients PROVE ClientFits(c)' /\ qs'[c] \in Seq(Nat)
  <2>1. ClientFits(c) /\ qs[c] \in Seq(Nat) /\ view[c] \in Nat /\ Len(qs[c]) \in Nat
      BY DEF HubInv, HubTypes
  <2>2. CASE c \notin subs
    <3>1. qs'[c] = qs[c] /\ c \notin subs'
        BY <1>5, <2>2
    <3>2. Bounded(c)'
        BY <1>1, <1>5, <2>1, <3>1 DEF ClientFits, Bounded
    <3>3. sock'[c] = "open" /\ pump'[c] # "off" => Poisoned(c)'
        BY <1>5, <2>1, <2>2, <3>1 DEF ClientFits, Poisoned
    <3> QED BY <2>1, <3>1, <3>2, <3>3 DEF ClientFits
  <2>3. CASE c \in subs /\ Full(c)
    <3>1. qs'[c] = Append(Tail(qs[c]), 0) /\ c \notin subs' /\ qs[c] # <<>> /\ Len(qs[c]) = QueueMax
        BY <1>5, <2>1, <2>3, HubAssumption DEF HubAssumption, Fed, Full, Overflow
    <3>2. /\ Tail(qs[c]) \in Seq(Nat) /\ Len(Tail(qs[c])) = Len(qs[c]) - 1
          /\ \A i \in 1..(Len(qs[c]) - 1) : Tail(qs[c])[i] = qs[c][i + 1]
        BY <2>1, <3>1, TailAt
    <3>3. /\ qs'[c] \in Seq(Nat) /\ Len(qs'[c]) = QueueMax /\ QueueMax \in Nat \ {0}
          /\ \A i \in 1..(QueueMax - 1) : qs'[c][i] = qs[c][i + 1]
          /\ qs'[c][QueueMax] = 0
        BY <3>1, <3>2, AppendAt, HubAssumption DEF HubAssumption
    <3>4. \A i \in 1..QueueMax : qs'[c][i] <= published
      <4> SUFFICES ASSUME NEW i \in 1..QueueMax PROVE qs'[c][i] <= published OBVIOUS
      <4>1. CASE i = QueueMax
          BY <1>1, <3>3, <4>1
      <4>2. CASE i # QueueMax
        <5>1. i \in 1..(QueueMax - 1) /\ i + 1 \in 1..Len(qs[c])
            BY <3>1, <3>3, <4>2
        <5> QED BY <2>1, <3>3, <5>1 DEF ClientFits, Bounded
      <4> QED BY <4>1, <4>2
    <3>5. Bounded(c)'
        BY <1>1, <1>5, <2>1, <3>3, <3>4 DEF ClientFits, Bounded
    <3>6. Poisoned(c)'
        BY <3>3 DEF Poisoned
    <3> QED BY <3>1, <3>3, <3>5, <3>6 DEF ClientFits
  <2>4. CASE c \in subs /\ ~Full(c)
    <3>1. qs'[c] = Append(qs[c], Head(pending)) /\ c \in subs' /\ Len(qs[c]) # QueueMax
        BY <1>5, <2>4 DEF Fed, Full
    <3>2. /\ qs'[c] \in Seq(Nat) /\ Len(qs'[c]) = Len(qs[c]) + 1
          /\ \A i \in 1..Len(qs[c]) : qs'[c][i] = qs[c][i]
          /\ qs'[c][Len(qs[c]) + 1] = Head(pending)
        BY <1>3, <2>1, <3>1, AppendAt
    <3>3. /\ view[c] + Len(qs[c]) + Len(pending) = published /\ pump[c] # "off" /\ gap[c] = FALSE
          /\ \A i \in 1..Len(qs[c]) : qs[c][i] = view[c] + i
          /\ Len(qs[c]) <= QueueMax /\ view[c] <= published
          /\ \A i \in 1..Len(qs[c]) : qs[c][i] <= published
        BY <2>1, <2>4 DEF ClientFits, Upto, Bounded
    <3>4. ASSUME NEW i \in 1..Len(qs'[c]) PROVE qs'[c][i] = view[c] + i /\ qs'[c][i] <= published
      <4>1. CASE i = Len(qs[c]) + 1
        <5>1. published - Len(pending) + 1 = view[c] + (Len(qs[c]) + 1)
            BY <1>1, <1>2, <2>1, <3>3, Sums
        <5>2. qs'[c][i] = Head(pending)
            BY <3>2, <4>1
        <5>3. Head(pending) = view[c] + i
            BY <1>3, <4>1, <5>1
        <5> QED BY <1>3, <5>2, <5>3
      <4>2. CASE i # Len(qs[c]) + 1
        <5>1. i \in 1..Len(qs[c])
            BY <2>1, <3>2, <4>2
        <5> QED BY <3>2, <3>3, <5>1
      <4> QED BY <4>1, <4>2
    <3>7. Len(qs'[c]) <= QueueMax
        BY <2>1, <3>1, <3>2, <3>3, HubAssumption DEF HubAssumption
    <3>8. view'[c] = view[c] /\ published' = published
        BY <1>1, <1>5
    <3>5. Bounded(c)'
        BY <3>3, <3>4, <3>7, <3>8 DEF Bounded
    <3>6. Upto(c)'
        BY <1>1, <1>2, <1>5, <2>1, <3>2, <3>3, <3>4 DEF Upto
    <3> QED BY <3>1, <3>2, <3>5, <3>6 DEF ClientFits
  <2> QED BY <2>2, <2>3, <2>4
<1>7. HubTypes'
    BY <1>5, <1>6 DEF HubInv, HubTypes
<1> QED BY <1>4, <1>6, <1>7 DEF HubInv

LEMMA TakeKeeps == \A c \in Clients : HubInv /\ Take(c) => HubInv'
<1> SUFFICES ASSUME NEW c \in Clients, HubInv, Take(c) PROVE HubInv' OBVIOUS
<1>1. /\ qs[c] \in Seq(Nat) /\ qs[c] # <<>> /\ pump[c] = "waiting" /\ ClientFits(c)
      /\ view[c] \in Nat /\ published \in Nat /\ Len(pending) \in Nat
    BY DEF HubInv, HubTypes, PendingFits, Take
<1>2. /\ Len(qs[c]) \in Nat \ {0} /\ Head(qs[c]) = qs[c][1] /\ qs[c][1] \in Nat
      /\ Tail(qs[c]) \in Seq(Nat) /\ Len(Tail(qs[c])) = Len(qs[c]) - 1
      /\ \A i \in 1..(Len(qs[c]) - 1) : Tail(qs[c])[i] = qs[c][i + 1]
    BY <1>1, TailAt
<1>3. /\ qs' = [qs EXCEPT ![c] = Tail(qs[c])] /\ UNCHANGED <<published, pending, subs>>
    BY DEF Take
<1>4. /\ qs'[c] = Tail(qs[c])
      /\ \A i \in 1..Len(qs'[c]) : i + 1 \in 1..Len(qs[c]) /\ qs'[c][i] = qs[c][i + 1]
    BY <1>2, <1>3 DEF HubInv, HubTypes
<1>5. PendingFits'
    BY <1>3 DEF HubInv, PendingFits
<1>6. /\ Len(qs[c]) <= QueueMax /\ view[c] <= published
      /\ \A i \in 1..Len(qs[c]) : qs[c][i] <= published
    BY <1>1 DEF ClientFits, Bounded
<1>7. Len(qs'[c]) <= QueueMax /\ \A i \in 1..Len(qs'[c]) : qs'[c][i] <= published'
    BY <1>2, <1>3, <1>4, <1>6, HubAssumption DEF HubAssumption
<1>8. CASE qs[c][1] = 0
  <2>1. /\ pump' = [pump EXCEPT ![c] = "ended"] /\ sock' = [sock EXCEPT ![c] = "closed"]
        /\ UNCHANGED <<view, gap>>
      BY <1>2, <1>8 DEF Take, Overflow, CutsOff
  <2>2. HubTypes'
      BY <1>2, <1>3, <2>1 DEF HubInv, HubTypes, Pumps
  <2>3. c \notin subs
    <3> SUFFICES ASSUME c \in subs PROVE FALSE OBVIOUS
    <3>1. qs[c][1] = view[c] + 1
        BY <1>1, <1>2 DEF ClientFits, Upto
    <3> QED BY <1>1, <1>8, <3>1
  <2>4. ClientFits(c)'
    <3>1. Bounded(c)'
        BY <1>3, <1>6, <1>7, <2>1 DEF Bounded
    <3>2. sock'[c] = "closed" /\ c \notin subs'
        BY <1>3, <2>1, <2>3 DEF HubInv, HubTypes
    <3> QED BY <3>1, <3>2 DEF ClientFits
  <2>5. ASSUME NEW d \in Clients, d # c PROVE ClientFits(d)'
    <3>1. /\ qs'[d] = qs[d] /\ view'[d] = view[d] /\ gap'[d] = gap[d] /\ pump'[d] = pump[d]
          /\ sock'[d] = sock[d] /\ published' = published /\ pending' = pending
          /\ (d \in subs' <=> d \in subs)
        BY <1>3, <2>1, <2>5 DEF HubInv, HubTypes
    <3>2. ClientFits(d) /\ (d \in subs => pump[d] # "off")
        BY DEF HubInv, ClientFits, Upto
    <3> QED BY <3>1, <3>2, SameClient
  <2> QED BY <1>5, <2>2, <2>4, <2>5 DEF HubInv
<1>9. CASE qs[c][1] # 0
  <2>1. /\ pump' = [pump EXCEPT ![c] = "sending"] /\ UNCHANGED sock
        /\ view' = [view EXCEPT ![c] = qs[c][1]]
        /\ gap' = [gap EXCEPT ![c] = gap[c] \/ qs[c][1] > view[c] + 1]
      BY <1>2, <1>9 DEF Take, Overflow
  <2>2. HubTypes'
      BY <1>2, <1>3, <2>1 DEF HubInv, HubTypes, Pumps
  <2>3. pump'[c] = "sending" /\ view'[c] = qs[c][1] /\ gap'[c] = (gap[c] \/ qs[c][1] > view[c] + 1)
      BY <2>1 DEF HubInv, HubTypes
  <2>4. Bounded(c)'
      BY <1>2, <1>3, <1>6, <1>7, <2>3 DEF Bounded
  <2>5. ASSUME c \in subs PROVE Upto(c)'
    <3>1. /\ gap[c] = FALSE /\ view[c] + Len(qs[c]) + Len(pending) = published
          /\ \A i \in 1..Len(qs[c]) : qs[c][i] = view[c] + i
        BY <1>1, <2>5 DEF ClientFits, Upto
    <3>2. view'[c] = view[c] + 1 /\ ~(qs[c][1] > view[c] + 1)
        BY <1>1, <1>2, <2>3, <3>1
    <3>3. gap'[c] = FALSE
        BY <2>3, <3>1, <3>2
    <3>4. view'[c] + Len(qs'[c]) + Len(pending') = published'
        BY <1>1, <1>2, <1>3, <1>4, <3>1, <3>2
    <3>5. \A i \in 1..Len(qs'[c]) : qs'[c][i] = view'[c] + i
      <4> SUFFICES ASSUME NEW i \in 1..Len(qs'[c]) PROVE qs'[c][i] = view'[c] + i OBVIOUS
      <4>1. qs'[c][i] = view[c] + (i + 1)
          BY <1>4, <3>1
      <4> QED BY <1>1, <3>2, <4>1
    <3> QED BY <2>3, <3>3, <3>4, <3>5 DEF Upto
  <2>6. ASSUME c \notin subs, sock'[c] = "open" PROVE Poisoned(c)'
    <3>1. qs[c][Len(qs[c])] = 0
        BY <1>1, <2>1, <2>6 DEF ClientFits, Poisoned
    <3>2. Len(qs[c]) # 1
        BY <1>9, <3>1
    <3>3. /\ Len(qs'[c]) \in 1..Len(qs'[c]) /\ Len(qs'[c]) + 1 = Len(qs[c])
          /\ Len(qs'[c]) # 0
      <4>1. Len(qs'[c]) = Len(qs[c]) - 1 /\ Len(qs'[c]) \in Nat
          BY <1>2, <1>4
      <4>2. Len(qs[c]) \in Nat /\ Len(qs[c]) # 0
          BY <1>2
      <4> QED BY <3>2, <4>1, <4>2, Shorter, Zenon
    <3>4. qs'[c][Len(qs'[c])] = qs[c][Len(qs[c])]
      <4>1. qs'[c][Len(qs'[c])] = qs[c][Len(qs'[c]) + 1]
          BY <1>4, <3>3
      <4> QED BY <3>3, <4>1, Zenon
    <3>5. qs'[c] # <<>>
        BY <1>2, <1>4, <3>3
    <3> QED BY <3>1, <3>4, <3>5 DEF Poisoned
  <2>7. ClientFits(c)'
      BY <1>3, <2>4, <2>5, <2>6 DEF ClientFits
  <2>8. ASSUME NEW d \in Clients, d # c PROVE ClientFits(d)'
    <3>1. /\ qs'[d] = qs[d] /\ view'[d] = view[d] /\ gap'[d] = gap[d] /\ pump'[d] = pump[d]
          /\ sock'[d] = sock[d] /\ published' = published /\ pending' = pending
          /\ (d \in subs' <=> d \in subs)
        BY <1>3, <2>1, <2>8 DEF HubInv, HubTypes
    <3>2. ClientFits(d) /\ (d \in subs => pump[d] # "off")
        BY DEF HubInv, ClientFits, Upto
    <3> QED BY <3>1, <3>2, SameClient
  <2> QED BY <1>5, <2>2, <2>7, <2>8 DEF HubInv
<1> QED BY <1>8, <1>9

\* The sender, the client and the handler: no queue changes.
LEMMA ServingKeeps ==
  \A c \in Clients : HubInv /\ (Sent(c) \/ SendFails(c) \/ GoesAway(c) \/ HandlerEnds(c)) => HubInv'
<1> SUFFICES ASSUME NEW c \in Clients, HubInv,
                    Sent(c) \/ SendFails(c) \/ GoesAway(c) \/ HandlerEnds(c)
             PROVE  HubInv'
    OBVIOUS
<1>1. UNCHANGED <<published, pending, qs, view, gap>>
    BY DEF Sent, SendFails, GoesAway, HandlerEnds, CutsOff
<1>2. PendingFits'
    BY <1>1 DEF HubInv, PendingFits
<1>3. HubTypes'
    BY <1>1 DEF HubInv, HubTypes, Pumps, Sent, SendFails, GoesAway, HandlerEnds, CutsOff
<1>4. ASSUME NEW d \in Clients PROVE ClientFits(d)'
  <2>1. ClientFits(d) /\ (d \in subs => pump[d] # "off")
      BY DEF HubInv, ClientFits, Upto
  <2>2. CASE HandlerEnds(c) /\ d = c
    <3>1. c \notin subs' /\ pump'[c] = "off"
        BY <2>2 DEF HandlerEnds, HubInv, HubTypes
    <3> QED BY <1>1, <2>1, <2>2, <3>1 DEF ClientFits, Bounded
  <2>3. CASE ~(HandlerEnds(c) /\ d = c)
    <3>1. /\ d \in subs' <=> d \in subs
          /\ d \in subs => pump'[d] # "off"
          /\ sock'[d] = "open" /\ pump'[d] # "off" =>
                 sock[d] = "open" /\ pump[d] # "off" /\ (pump[d] = "ended" => pump'[d] = "ended")
        BY <2>1, <2>3 DEF HubInv, HubTypes, Pumps, Sent, SendFails, GoesAway, HandlerEnds, CutsOff
    <3> QED BY <1>1, <2>1, <3>1, SameClient
  <2> QED BY <2>2, <2>3
<1> QED BY <1>2, <1>3, <1>4 DEF HubInv

LEMMA HubKeeps == HubInv /\ [HubNext]_hubVars => HubInv'
<1> SUFFICES ASSUME HubInv, [HubNext]_hubVars PROVE HubInv' OBVIOUS
<1>1. CASE HubNext
  <2>1. CASE LoopCloses
      BY <2>1 DEF LoopCloses, HubInv, PendingFits, HubTypes, ClientFits, Bounded, Upto, Poisoned
  <2> QED BY <1>1, <2>1, PublishKeeps, FanoutKeeps, ConnectKeeps, TakeKeeps, ServingKeeps
      DEF HubNext, ServesClient
<1>2. CASE UNCHANGED hubVars
    BY <1>2 DEF hubVars, HubInv, PendingFits, HubTypes, ClientFits, Bounded, Upto, Poisoned
<1> QED BY <1>1, <1>2

-----------------------------------------------------------------------------
(* A client of the event feed that stays connected has missed nothing, or is    *)
(* cut off so that it reads the state again, and a memory size that counts as    *)
(* fresh is the size of what is there (events.py:15-75, api.py:3560-3603,         *)
(* storage.py:3408-3518), for any number of clients, of events and of calls.       *)
THEOREM FeedsAlwaysTrue == PartSpec => []FeedsAreTrue
<1> DEFINE FeedsInv == HubInv /\ StatsInv
<1>1. PartInit => FeedsInv
    BY HubStarts, StatsStarts DEF PartInit
<1>2. FeedsInv /\ [PartNext]_allVars => FeedsInv'
  <2> SUFFICES ASSUME FeedsInv, [PartNext]_allVars PROVE FeedsInv' OBVIOUS
  <2>1. [HubNext]_hubVars
      BY DEF PartNext, Still, allVars
  <2>2. [StatsNext]_statsVars
      BY DEF PartNext, Still, allVars
  <2> QED BY <2>1, <2>2, HubKeeps, StatsKeeps
<1>3. FeedsInv => FeedsAreTrue
    BY HubInvGives, StatsInvGives DEF FeedsAreTrue
<1> QED BY <1>1, <1>2, <1>3, PTL DEF PartSpec
==============================================================================
