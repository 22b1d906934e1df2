------------------------------ MODULE SummonProofs ------------------------------
(***************************************************************************)
(* Theorems about SummonBroker, for any number of players, signs, claims   *)
(* and placements, any time-outs, and either mode.                         *)
(***************************************************************************)
EXTENDS SummonBroker, TLAPS

\* The placement of a claimed record is the claimant's.
Theirs(r) ==
    r.state \in {"Claimed", "Delivered"} /\ r.placement # NoPlacement =>
        r.placement.from = r.claim.user

\* The inductive invariant.
IInv ==
    /\ TypeOK
    /\ DeliveryIsCurrent
    /\ PlacementIsTheClaimants
    /\ \A k \in DOMAIN records : Theirs(records[k])

---------------------------------------------------------------------------
(* One record                                                              *)

\* What a record's life leaves in force: its type and whose placement it has.
RecordInv(r) == RecordOK(r) /\ Theirs(r)

\* A new advertisement makes a good record, which is nobody's.
LEMMA NewRecordInv ==
    ASSUME NEW sign \in Signs
    PROVE  /\ RecordInv(NewRecord(sign))
           /\ NewRecord(sign).sign = sign /\ NewRecord(sign).state = "Advertised"
  BY TtlAssumption
  DEF RecordInv, RecordOK, Theirs, NewRecord, Record, States, OldAge

\* A renewal keeps the claim, and a claim that was delivered stays delivered.
LEMMA RenewedInv ==
    ASSUME NEW r, RecordInv(r), NEW sign \in Signs, r.state # "Consumed"
    PROVE  LET n == Renewed(r, sign) IN
           /\ RecordInv(n) /\ n.sign = sign
           /\ n.claim = r.claim /\ n.placement = r.placement
           /\ n.state \in {"Claimed", "Delivered"} <=> r.state \in {"Claimed", "Delivered"}
           /\ r.state = "Delivered" => n.state = "Delivered"
  <1>1. r \in Record /\ 0 \in 0..OldAge
    BY TtlAssumption DEF RecordInv, RecordOK, OldAge
  <1>2. \A s \in States :
          LET n == [r EXCEPT !.sign = sign, !.age = 0] IN
          /\ n \in Record /\ [n EXCEPT !.state = s] \in Record
          /\ n.state = r.state /\ [n EXCEPT !.state = s].state = s
          /\ n.claim = r.claim /\ [n EXCEPT !.state = s].claim = r.claim
          /\ n.placement = r.placement /\ [n EXCEPT !.state = s].placement = r.placement
          /\ n.sign = sign /\ [n EXCEPT !.state = s].sign = sign
    BY <1>1 DEF Record
  <1>3. "Advertised" \in States /\ "Delivered" \in States
    BY DEF States
  <1> QED
    BY <1>1, <1>2, <1>3 DEF RecordInv, RecordOK, Theirs, Renewed

\* Only a delivered claim is told, with its placement.
LEMMA AnswerInv ==
    ASSUME NEW r, RecordInv(r)
    PROVE  LET a == AnswerFor(r) IN
           /\ a \in Answer
           /\ r.state = "Delivered" => a = [claim |-> r.claim, placement |-> r.placement]
           /\ a.claim # NoClaim => r.state = "Delivered"
  BY DEF RecordInv, RecordOK, Record, AnswerFor, Answer, NoAnswer

\* Sending a free guest somewhere leaves a good record, which is nobody's.
LEMMA PreparedInv ==
    ASSUME NEW r, RecordInv(r), r.state = "Advertised",
           NEW p \in Placements \cup {NoPlacement}, HostPlacementMap(p) # None
    PROVE  /\ RecordInv(Prepared(r, p))
           /\ Prepared(r, p).sign = r.sign /\ Prepared(r, p).state = "Preparing"
  <1>1. r \in Record /\ 0 \in 0..OldAge /\ "Preparing" \in States /\ r.claim = NoClaim
    BY TtlAssumption DEF RecordInv, RecordOK, OldAge, States
  <1>2. LET n == Prepared(r, p) IN
        /\ n \in Record /\ n.sign = r.sign /\ n.state = "Preparing"
        /\ n.claim = NoClaim /\ n.placement = p
    BY <1>1 DEF Record, Prepared
  <1> QED
    BY <1>2 DEF RecordInv, RecordOK, Theirs

\* A claim is recorded with a placement of its own or none.
LEMMA ClaimedInv ==
    ASSUME NEW r, RecordInv(r), NEW c \in Claims, NEW p \in From(c.user)
    PROVE  LET n == Claimed(r, c, p) IN
           /\ RecordInv(n) /\ n.sign = r.sign /\ n.state = "Claimed" /\ n.claim = c
  <1>1. r \in Record /\ 0 \in 0..OldAge /\ "Claimed" \in States
    BY TtlAssumption DEF RecordInv, RecordOK, OldAge, States
  <1>2. p \in Placements \cup {NoPlacement} /\ (p # NoPlacement => p.from = c.user)
    BY DEF From
  <1>3. c # NoClaim
    BY AbsenceAssumption
  <1>4. \A x \in Placements \cup {NoPlacement} :
          LET n == [r EXCEPT !.state = "Claimed", !.claim = c, !.age = 0, !.placement = x] IN
          /\ n \in Record /\ n.sign = r.sign /\ n.state = "Claimed"
          /\ n.claim = c /\ n.placement = x
    BY <1>1 DEF Record
  <1> QED
    BY <1>2, <1>3, <1>4 DEF RecordInv, RecordOK, Theirs, Claimed

---------------------------------------------------------------------------
(* All records                                                             *)

\* Purging leaves records as they are.
LEMMA LiveIsPart ==
    /\ DOMAIN Live = {k \in DOMAIN records : records[k].age <= TtlOf(records[k])}
    /\ \A k \in DOMAIN Live : Live[k] = records[k]
  BY DEF Live

\* The invariant, record by record.
LEMMA IInvByRecord ==
    IInv <=> /\ seamless \in BOOLEAN
             /\ DOMAIN records \subseteq Keys
             /\ answers \in [Keys -> Answer]
             /\ \A k \in DOMAIN records :
                 /\ RecordInv(records[k]) /\ RecordKey(records[k].sign) = k
                 /\ records[k].state = "Delivered" =>
                      answers[k] = [claim |-> records[k].claim,
                                    placement |-> records[k].placement]
             /\ PlacementIsTheClaimants
  BY DEF IInv, TypeOK, DeliveryIsCurrent, RecordInv

\* A step that leaves the answers alone keeps the invariant if the records it
\* leaves are good, and those that are delivered were so.
LEMMA SilentStep ==
    ASSUME IInv, seamless' \in BOOLEAN, UNCHANGED answers,
           DOMAIN records' \subseteq DOMAIN records,
           \A k \in DOMAIN records' :
              /\ RecordInv(records'[k]) /\ records'[k].sign = records[k].sign
              /\ records'[k].state = "Delivered" =>
                   /\ records[k].state = "Delivered" /\ records'[k].claim = records[k].claim
                   /\ records'[k].placement = records[k].placement
    PROVE  IInv'
  <1>1. PlacementIsTheClaimants'
    BY IInvByRecord DEF PlacementIsTheClaimants
  <1>2. ASSUME NEW k \in DOMAIN records'
        PROVE  /\ RecordInv(records'[k]) /\ RecordKey(records'[k].sign) = k
               /\ records'[k].state = "Delivered" =>
                    answers'[k] = [claim |-> records'[k].claim,
                                   placement |-> records'[k].placement]
    BY IInvByRecord, <1>2 DEF RecordKey
  <1>3. DOMAIN records' \subseteq Keys /\ answers' \in [Keys -> Answer]
    BY IInvByRecord
  <1> QED
    BY <1>1, <1>2, <1>3
    DEF IInv, TypeOK, DeliveryIsCurrent, RecordInv

\* An advertisement answers one player and touches his record only.
LEMMA AdvertiseStep ==
    ASSUME IInv, NEW sign \in Signs, Advertise(sign)
    PROVE  IInv'
  <1> DEFINE k == RecordKey(sign)
             r == IF k \in DOMAIN Live /\ Live[k].state # "Consumed"
                  THEN Renewed(Live[k], sign) ELSE NewRecord(sign)
  <1>1. k \in Keys
    BY DEF Keys
  <1>2. RecordInv(r) /\ r.sign = sign
    <2>1. CASE k \in DOMAIN Live /\ Live[k].state # "Consumed"
      <3>1. RecordInv(Live[k])
        BY <2>1, IInvByRecord, LiveIsPart
      <3> QED
        BY <2>1, <3>1, RenewedInv
    <2>2. CASE ~(k \in DOMAIN Live /\ Live[k].state # "Consumed")
      BY <2>2, NewRecordInv
    <2> QED
      BY <2>1, <2>2
  <1> HIDE DEF r, k
  <1>3. /\ records' = [x \in DOMAIN Live \cup {k} |-> IF x = k THEN r ELSE Live[x]]
        /\ answers' = [answers EXCEPT ![k] = AnswerFor(r)]
        /\ UNCHANGED seamless
    BY DEF Advertise, r, k
  <1>4. /\ AnswerFor(r) \in Answer
        /\ r.state = "Delivered" =>
              AnswerFor(r) = [claim |-> r.claim, placement |-> r.placement]
        /\ AnswerFor(r).claim # NoClaim =>
              AnswerFor(r) = [claim |-> r.claim, placement |-> r.placement]
              /\ r.state = "Delivered"
    BY <1>2, AnswerInv
  <1>5. answers' \in [Keys -> Answer] /\ answers'[k] = AnswerFor(r)
    BY <1>1, <1>3, <1>4, IInvByRecord
  <1>6. \A x \in Keys \ {k} : answers'[x] = answers[x]
    BY <1>3, IInvByRecord
  <1>7. DOMAIN records' \subseteq Keys
    BY <1>1, <1>3, LiveIsPart, IInvByRecord
  <1>8. ASSUME NEW x \in DOMAIN records'
        PROVE  /\ RecordInv(records'[x]) /\ RecordKey(records'[x].sign) = x
               /\ records'[x].state = "Delivered" =>
                    answers'[x] = [claim |-> records'[x].claim,
                                   placement |-> records'[x].placement]
    <2>1. CASE x = k
      BY <1>2, <1>3, <1>4, <1>5, <2>1 DEF k
    <2>2. CASE x # k
      <3>1. x \in DOMAIN records /\ records'[x] = records[x] /\ x \in Keys
        BY <1>3, <1>7, <1>8, <2>2, LiveIsPart
      <3> QED
        BY <1>6, <2>2, <3>1, IInvByRecord
    <2> QED
      BY <2>1, <2>2
  <1>9. PlacementIsTheClaimants'
    <2> SUFFICES ASSUME NEW x \in Keys, answers'[x].claim # NoClaim,
                        answers'[x].placement # NoPlacement
                 PROVE  answers'[x].placement.from = answers'[x].claim.user
      BY DEF PlacementIsTheClaimants
    <2>1. CASE x = k
      BY <1>2, <1>4, <1>5, <2>1 DEF RecordInv, Theirs
    <2>2. CASE x # k
      BY <1>6, <2>2, IInvByRecord DEF PlacementIsTheClaimants
    <2> QED
      BY <2>1, <2>2
  <1> QED
    BY <1>3, <1>5, <1>7, <1>8, <1>9
    DEF IInv, TypeOK, DeliveryIsCurrent, RecordInv

\* A search sends free guests on their way and changes nothing else.
LEMMA SearchStep ==
    ASSUME IInv, NEW q \in Searches, NEW p \in From(q.user), Search(q, p)
    PROVE  IInv'
  <1>1. p \in Placements \cup {NoPlacement}
    BY DEF From
  <1>2. DOMAIN records' = DOMAIN Live /\ UNCHANGED <<seamless, answers>>
    BY DEF Search
  <1>3. ASSUME NEW k \in DOMAIN records'
        PROVE  /\ RecordInv(records'[k]) /\ records'[k].sign = records[k].sign
               /\ records'[k].state = "Delivered" =>
                    /\ records[k].state = "Delivered" /\ records'[k].claim = records[k].claim
                    /\ records'[k].placement = records[k].placement
    <2>1. k \in DOMAIN records /\ Live[k] = records[k] /\ RecordInv(records[k])
      BY <1>2, <1>3, LiveIsPart, IInvByRecord
    <2>2. CASE k \in ToPrepare(q, p)
      <3>1. records'[k] = Prepared(records[k], p)
        BY <1>2, <2>1, <2>2 DEF Search
      <3>2. records[k].state = "Advertised" /\ HostPlacementMap(p) # None
        BY <2>1, <2>2 DEF ToPrepare
      <3> QED
        BY <1>1, <2>1, <3>1, <3>2, PreparedInv
    <2>3. CASE k \notin ToPrepare(q, p)
      BY <1>2, <2>1, <2>3 DEF Search
    <2> QED
      BY <2>2, <2>3
  <1> QED
    BY <1>2, <1>3, LiveIsPart, IInvByRecord, SilentStep

\* A claim makes one record good again, and undelivered.
LEMMA ClaimStep ==
    ASSUME IInv, NEW c \in Claims, NEW p \in From(c.user), Claim(c, p)
    PROVE  IInv'
  <1>1. UNCHANGED <<seamless, answers>>
    BY DEF Claim
  <1>2. CASE records' = Live
    BY <1>1, <1>2, LiveIsPart, IInvByRecord, SilentStep
  <1>3. ASSUME NEW k \in Targets(c), records' = [Live EXCEPT ![k] = Claimed(@, c, p)]
        PROVE  IInv'
    <2>1. k \in DOMAIN Live
      BY DEF Targets
    <2>2. DOMAIN records' = DOMAIN Live /\ records'[k] = Claimed(records[k], c, p)
          /\ \A x \in DOMAIN Live \ {k} : records'[x] = records[x]
      BY <1>3, <2>1, LiveIsPart DEF Live
    <2>3. RecordInv(records[k])
      BY <2>1, LiveIsPart, IInvByRecord
    <2>4. RecordInv(Claimed(records[k], c, p))
          /\ Claimed(records[k], c, p).sign = records[k].sign
          /\ Claimed(records[k], c, p).state = "Claimed"
      BY <2>3, ClaimedInv
    <2>5. ASSUME NEW x \in DOMAIN records'
          PROVE  /\ RecordInv(records'[x]) /\ records'[x].sign = records[x].sign
                 /\ records'[x].state = "Delivered" =>
                      /\ records[x].state = "Delivered" /\ records'[x].claim = records[x].claim
                      /\ records'[x].placement = records[x].placement
      BY <2>2, <2>4, <2>5, LiveIsPart, IInvByRecord
    <2> QED
      BY <1>1, <2>2, <2>5, LiveIsPart, IInvByRecord, SilentStep
  <1> QED
    BY <1>2, <1>3 DEF Claim

\* A removal makes records older or leaves nothing of them in force.
LEMMA ConsumeStep ==
    ASSUME IInv, NEW q \in Removals, Consume(q)
    PROVE  IInv'
  <1>1. UNCHANGED <<seamless, answers>> /\ DOMAIN records' = DOMAIN Live
    BY DEF Consume
  <1>2. ASSUME NEW k \in DOMAIN records'
        PROVE  \/ records'[k] = records[k]
               \/ records'[k] = [records[k] EXCEPT !.age = 0]
               \/ records'[k] = [records[k] EXCEPT !.age = 0, !.state = "Consumed"]
    BY <1>1, <1>2, LiveIsPart DEF Consume
  <1>3. ASSUME NEW k \in DOMAIN records'
        PROVE  /\ RecordInv(records'[k]) /\ records'[k].sign = records[k].sign
               /\ records'[k].state = "Delivered" =>
                    /\ records[k].state = "Delivered" /\ records'[k].claim = records[k].claim
                    /\ records'[k].placement = records[k].placement
    <2>1. RecordInv(records[k]) /\ records[k] \in Record
      BY <1>1, <1>3, LiveIsPart, IInvByRecord DEF RecordInv, RecordOK
    <2>2. 0 \in 0..OldAge /\ "Consumed" \in States
      BY TtlAssumption DEF OldAge, States
    <2> QED
      BY <1>2, <1>3, <2>1, <2>2 DEF RecordInv, RecordOK, Theirs, Record
  <1> QED
    BY <1>1, <1>3, LiveIsPart, IInvByRecord, SilentStep

\* Time makes records older only.
LEMMA TickStep ==
    ASSUME IInv, Tick
    PROVE  IInv'
  <1>1. UNCHANGED <<seamless, answers>> /\ DOMAIN records' = DOMAIN records
    BY DEF Tick
  <1>2. ASSUME NEW k \in DOMAIN records'
        PROVE  /\ RecordInv(records'[k]) /\ records'[k].sign = records[k].sign
               /\ records'[k].state = "Delivered" =>
                    /\ records[k].state = "Delivered" /\ records'[k].claim = records[k].claim
                    /\ records'[k].placement = records[k].placement
    <2>1. RecordInv(records[k]) /\ records[k] \in Record
      BY <1>1, <1>2, IInvByRecord DEF RecordInv, RecordOK
    <2> DEFINE age == IF records[k].age < OldAge THEN records[k].age + 1 ELSE records[k].age
    <2>2. age \in 0..OldAge
      BY <2>1, TtlAssumption DEF Record, OldAge
    <2>3. records'[k] = [records[k] EXCEPT !.age = age]
      BY <1>1, <1>2 DEF Tick
    <2> HIDE DEF age
    <2> QED
      BY <2>1, <2>2, <2>3 DEF RecordInv, RecordOK, Theirs, Record
  <1> QED
    BY <1>1, <1>2, IInvByRecord, SilentStep

\* Nothing is left after a restart, and what guests were told is past.
LEMMA RestartStep ==
    ASSUME IInv, Restart
    PROVE  IInv'
  <1>1. seamless' \in BOOLEAN /\ UNCHANGED answers /\ DOMAIN records' = {}
    BY DEF Restart
  <1> QED
    BY <1>1, SilentStep

---------------------------------------------------------------------------
(* The theorems                                                            *)

\* Whatever players ask for, the broker's records and its answers agree.
THEOREM Invariance == Spec => []IInv
  <1>1. Init => IInv
    BY DEF Init, IInv, TypeOK, DeliveryIsCurrent, PlacementIsTheClaimants, Answer, NoAnswer
  <1>2. IInv /\ [Next]_vars => IInv'
    <2> SUFFICES ASSUME IInv, [Next]_vars
                 PROVE  IInv'
      OBVIOUS
    <2>1. CASE UNCHANGED vars
      BY <2>1
      DEF vars, IInv, TypeOK, DeliveryIsCurrent, PlacementIsTheClaimants
    <2>2. CASE Next
      BY <2>2, AdvertiseStep, SearchStep, ClaimStep, ConsumeStep, TickStep, RestartStep
      DEF Next
    <2> QED
      BY <2>1, <2>2
  <1> QED
    BY <1>1, <1>2, PTL DEF Spec

\* Records are well-typed and carry what their state is about (TypeOK).
THEOREM TypeCorrect == Spec => []TypeOK
  <1>1. IInv => TypeOK
    BY DEF IInv
  <1> QED
    BY <1>1, Invariance, PTL

\* A claim that counts as delivered is the one the guest was told.
THEOREM DeliveryAlwaysCurrent == Spec => []DeliveryIsCurrent
  <1>1. IInv => DeliveryIsCurrent
    BY DEF IInv
  <1> QED
    BY <1>1, Invariance, PTL

\* A guest is sent to the host that claimed it and to no other.
THEOREM PlacementAlwaysTheClaimants == Spec => []PlacementIsTheClaimants
  <1>1. IInv => PlacementIsTheClaimants
    BY DEF IInv
  <1> QED
    BY <1>1, Invariance, PTL

---------------------------------------------------------------------------
(* Signs in use                                                            *)

\* A renewal gives up no sign.
LEMMA RenewalKeeps ==
    ASSUME IInv, NEW sign \in Signs, Advertise(sign), NEW k \in DOMAIN Live, InUse(k)
    PROVE  /\ InUse(k)' /\ records'[k].claim = records[k].claim
           /\ records[k].state = "Delivered" => records'[k].state = "Delivered"
  <1> DEFINE x == RecordKey(sign)
             r == IF x \in DOMAIN Live /\ Live[x].state # "Consumed"
                  THEN Renewed(Live[x], sign) ELSE NewRecord(sign)
  <1>1. records' = [y \in DOMAIN Live \cup {x} |-> IF y = x THEN r ELSE Live[y]]
    BY DEF Advertise
  <1>2. Live[k] = records[k] /\ records[k].state \in {"Claimed", "Delivered"}
        /\ RecordInv(records[k])
    BY LiveIsPart, IInvByRecord DEF InUse
  <1>3. CASE k = x
    <2>1. records'[k] = Renewed(records[k], sign)
      BY <1>1, <1>2, <1>3
    <2> QED
      BY <1>1, <1>2, <1>3, <2>1, RenewedInv DEF InUse
  <1>4. CASE k # x
    BY <1>1, <1>2, <1>4 DEF InUse
  <1> QED
    BY <1>3, <1>4

\* No renewal, search or claim gives up a sign that is in use: it ends by a
\* removal, by time or by a restart (HolderKeepsTheSign).
THEOREM HolderAlwaysKeepsTheSign == Spec => HolderKeepsTheSign
  <1> DEFINE Kept(k) == InUse(k) /\ ~InUse(k)' =>
                \/ records[k].age > TtlOf(records[k])
                \/ k \in DOMAIN records' /\ records'[k].state = "Consumed"
                \/ records' = <<>>
  <1>1. ASSUME IInv, [Next]_vars, NEW k \in Keys
        PROVE  Kept(k)
    <2> SUFFICES ASSUME InUse(k), ~InUse(k)',
                        ~(records[k].age > TtlOf(records[k])),
                        ~(k \in DOMAIN records' /\ records'[k].state = "Consumed"),
                        records' # <<>>
                 PROVE  FALSE
      OBVIOUS
    <2>1. k \in DOMAIN Live /\ Live[k] = records[k]
          /\ records[k].state \in {"Claimed", "Delivered"} /\ RecordInv(records[k])
      <3>1. k \in DOMAIN records /\ RecordInv(records[k])
        BY <1>1, IInvByRecord DEF InUse
      <3>2. records[k].age \in Nat /\ TtlOf(records[k]) \in Nat
        BY <3>1, TtlAssumption DEF RecordInv, RecordOK, Record, TtlOf, OldAge
      <3> QED
        BY <3>1, <3>2, LiveIsPart DEF InUse
    <2>2. CASE UNCHANGED vars
      BY <2>2 DEF vars, InUse
    <2>3. ASSUME NEW sign \in Signs, Advertise(sign)
          PROVE  FALSE
      BY <1>1, <2>1, <2>3, RenewalKeeps
    <2>4. ASSUME NEW q \in Searches, NEW p \in From(q.user), Search(q, p)
          PROVE  FALSE
      BY <2>1, <2>4 DEF Search, ToPrepare, InUse
    <2>5. ASSUME NEW c \in Claims, NEW p \in From(c.user), Claim(c, p)
          PROVE  FALSE
      <3>1. CASE records' = Live
        BY <2>1, <3>1 DEF InUse
      <3>2. ASSUME NEW x \in Targets(c), records' = [Live EXCEPT ![x] = Claimed(@, c, p)]
            PROVE  FALSE
        <4>1. k \in DOMAIN records' /\ (k # x => records'[k] = records[k])
              /\ (k = x => records'[k] = Claimed(records[k], c, p))
          BY <2>1, <3>2 DEF Live
        <4>2. Claimed(records[k], c, p).state = "Claimed"
          BY <2>1, ClaimedInv
        <4> QED
          BY <2>1, <4>1, <4>2 DEF InUse
      <3> QED
        BY <2>5, <3>1, <3>2 DEF Claim
    <2>6. ASSUME NEW q \in Removals, Consume(q)
          PROVE  FALSE
      <3>1. k \in DOMAIN records' /\ records'[k].state \in {records[k].state, "Consumed"}
        <4>1. records[k] \in Record
          BY <2>1 DEF RecordInv, RecordOK
        <4>2. \/ records'[k] = records[k]
              \/ records'[k] = [records[k] EXCEPT !.age = 0]
              \/ records'[k] = [records[k] EXCEPT !.age = 0, !.state = "Consumed"]
          BY <2>1, <2>6 DEF Consume
        <4>3. k \in DOMAIN records'
          BY <2>1, <2>6 DEF Consume
        <4> QED
          BY <4>1, <4>2, <4>3 DEF Record
      <3> QED
        BY <2>1, <3>1 DEF InUse
    <2>7. CASE Tick
      <3>1. k \in DOMAIN records' /\ records'[k].state = records[k].state
        <4>1. records[k] \in Record /\ k \in DOMAIN records
          BY <2>1, LiveIsPart DEF RecordInv, RecordOK
        <4> QED
          BY <2>7, <4>1 DEF Tick, Record
      <3> QED
        BY <2>1, <3>1 DEF InUse
    <2>8. CASE Restart
      BY <2>8 DEF Restart
    <2> QED
      BY <1>1, <2>2, <2>3, <2>4, <2>5, <2>6, <2>7, <2>8 DEF Next
  <1>2. IInv /\ [Next]_vars => [\A k \in Keys : Kept(k)]_vars
    BY <1>1
  <1> QED
    BY <1>2, Invariance, PTL DEF Spec, HolderKeepsTheSign

\* What is claimed was heard of within its time (OnlyFreshSignsAreClaimed).
THEOREM OnlyFreshSignsAreEverClaimed == Spec => OnlyFreshSignsAreClaimed
  <1> DEFINE Fresh(k) == InUse(k)' /\ ~InUse(k) =>
                k \in DOMAIN records /\ records[k].age <= (IF seamless THEN SeamlessTtl ELSE Ttl)
  <1>1. ASSUME IInv, [Next]_vars, NEW k \in Keys
        PROVE  Fresh(k)
    <2> SUFFICES ASSUME InUse(k)', ~InUse(k)
                 PROVE  k \in DOMAIN records
                        /\ records[k].age <= (IF seamless THEN SeamlessTtl ELSE Ttl)
      OBVIOUS
    <2>1. ASSUME k \in DOMAIN Live
          PROVE  k \in DOMAIN records
                 /\ records[k].age <= (IF seamless THEN SeamlessTtl ELSE Ttl)
      <3>1. k \in DOMAIN records /\ records[k].age <= TtlOf(records[k])
        BY <2>1, LiveIsPart
      <3>2. records[k] \in Record
        BY <1>1, <3>1, IInvByRecord DEF RecordInv, RecordOK
      <3>3. records[k].age \in Nat
        BY <3>2, TtlAssumption DEF Record, OldAge
      <3> QED
        BY <3>1, <3>3, TtlAssumption DEF TtlOf
    <2>2. CASE UNCHANGED vars
      BY <2>2 DEF vars, InUse
    <2>3. ASSUME NEW sign \in Signs, Advertise(sign)
          PROVE  FALSE
      <3> DEFINE x == RecordKey(sign)
                 r == IF x \in DOMAIN Live /\ Live[x].state # "Consumed"
                      THEN Renewed(Live[x], sign) ELSE NewRecord(sign)
      <3>1. records' = [y \in DOMAIN Live \cup {x} |-> IF y = x THEN r ELSE Live[y]]
        BY <2>3 DEF Advertise
      <3>2. r.state \notin {"Claimed", "Delivered"} \/ (x \in DOMAIN Live /\ InUse(x))
        <4>1. CASE x \in DOMAIN Live /\ Live[x].state # "Consumed"
          <5>1. RecordInv(Live[x]) /\ x \in DOMAIN records /\ Live[x] = records[x]
            BY <1>1, <4>1, IInvByRecord, LiveIsPart
          <5> QED
            BY <4>1, <5>1, RenewedInv DEF InUse
        <4>2. CASE ~(x \in DOMAIN Live /\ Live[x].state # "Consumed")
          BY <4>2, NewRecordInv
        <4> QED
          BY <4>1, <4>2
      <3> HIDE DEF r, x
      <3> QED
        BY <3>1, <3>2, LiveIsPart DEF InUse
    <2>4. ASSUME NEW q \in Searches, NEW p \in From(q.user), Search(q, p)
          PROVE  FALSE
      <3>1. k \in DOMAIN Live /\ Live[k] = records[k] /\ RecordInv(records[k])
            /\ k \in DOMAIN records
        BY <1>1, <2>4, IInvByRecord, LiveIsPart DEF Search, InUse
      <3>2. CASE k \in ToPrepare(q, p)
        <4>1. p \in Placements \cup {NoPlacement} /\ HostPlacementMap(p) # None
              /\ records[k].state = "Advertised"
          BY <3>1, <3>2 DEF From, ToPrepare
        <4>2. records'[k].state = "Preparing"
          BY <2>4, <3>1, <3>2, <4>1, PreparedInv DEF Search
        <4> QED
          BY <4>2 DEF InUse
      <3>3. CASE k \notin ToPrepare(q, p)
        BY <2>4, <3>1, <3>3 DEF Search, InUse
      <3> QED
        BY <3>2, <3>3
    <2>5. ASSUME NEW c \in Claims, NEW p \in From(c.user), Claim(c, p)
          PROVE  k \in DOMAIN Live
      BY <2>5 DEF Claim, InUse, Live
    <2>6. ASSUME NEW q \in Removals, Consume(q)
          PROVE  FALSE
      <3>1. k \in DOMAIN Live /\ Live[k] = records[k] /\ k \in DOMAIN records
            /\ records[k] \in Record
        BY <1>1, <2>6, IInvByRecord, LiveIsPart DEF Consume, InUse, RecordInv, RecordOK
      <3>2. \/ records'[k] = records[k]
            \/ records'[k] = [records[k] EXCEPT !.age = 0]
            \/ records'[k] = [records[k] EXCEPT !.age = 0, !.state = "Consumed"]
        BY <2>6, <3>1 DEF Consume
      <3>3. records'[k].state \in {records[k].state, "Consumed"}
        BY <3>1, <3>2 DEF Record
      <3> QED
        BY <3>1, <3>3 DEF InUse
    <2>7. CASE Tick
      <3>1. k \in DOMAIN records /\ records[k] \in Record
        BY <1>1, <2>7, IInvByRecord DEF Tick, InUse, RecordInv, RecordOK
      <3>2. records'[k].state = records[k].state
        BY <2>7, <3>1 DEF Tick, Record
      <3> QED
        BY <3>1, <3>2 DEF InUse
    <2>8. CASE Restart
      BY <2>8 DEF Restart, InUse
    <2> QED
      BY <1>1, <2>1, <2>2, <2>3, <2>4, <2>5, <2>6, <2>7, <2>8 DEF Next
  <1>2. IInv /\ [Next]_vars => [\A k \in Keys : Fresh(k)]_vars
    BY <1>1
  <1> QED
    BY <1>2, Invariance, PTL DEF Spec, OnlyFreshSignsAreClaimed

---------------------------------------------------------------------------
(* SummonBroker implements Summons                                         *)

\* The claimants are the hosts of the abstract service, and the held signs are
\* the ones in use.
LEMMA HeldIsInUse ==
    ASSUME IInv
    PROVE  /\ Service!Held = {k \in Keys : InUse(k)}
           /\ \A k \in Keys : InUse(k) => records[k].claim \in Claims
                                          /\ holder[k] = records[k].claim.user
                                          /\ holder[k] \in Parties /\ holder[k] # NoClaim
           /\ \A k \in Keys : ~InUse(k) => holder[k] = NoClaim
  <1>1. ASSUME NEW k \in Keys, InUse(k)
        PROVE  records[k].claim \in Claims
    BY <1>1, IInvByRecord DEF InUse, RecordInv, RecordOK
  <1>2. \A k \in Keys : InUse(k) => holder[k] \in Parties /\ holder[k] # NoClaim
    BY <1>1, ClaimsAssumption, AbsenceAssumption DEF holder
  <1> QED
    BY <1>1, <1>2 DEF holder, Service!Held

\* A step that takes nobody's sign and tells nobody lets signs lapse.
LEMMA QuietStep ==
    ASSUME IInv, IInv',
           \A k \in Keys : InUse(k)' =>
              /\ InUse(k) /\ records'[k].claim = records[k].claim
              /\ records'[k].state = records[k].state
    PROVE  Service!Next
  <1> DEFINE gone == {k \in Keys : ~InUse(k)'}
  <1>1. holder' = [k \in Keys |-> IF k \in gone THEN NoClaim ELSE holder[k]]
    BY DEF holder
  <1>2. order' = [k \in Service!Held \ gone |-> order[k]]
    BY HeldIsInUse DEF order
  <1>3. told' = [k \in Keys |-> IF k \in gone THEN FALSE ELSE told[k]]
    BY DEF told
  <1>4. Service!Lapse(gone)
    BY <1>1, <1>2, <1>3 DEF Service!Lapse
  <1> QED
    BY <1>4 DEF Service!Next

\* Renewals tell the guest, or leave the signs that live on as they are.
LEMMA AdvertiseImplements ==
    ASSUME IInv, IInv', NEW sign \in Signs, Advertise(sign)
    PROVE  Service!Next
  <1> DEFINE x == RecordKey(sign)
             r == IF x \in DOMAIN Live /\ Live[x].state # "Consumed"
                  THEN Renewed(Live[x], sign) ELSE NewRecord(sign)
             gone == {k \in Keys : ~InUse(k)'}
  <1>1. x \in Keys /\ records' = [y \in DOMAIN Live \cup {x} |-> IF y = x THEN r ELSE Live[y]]
    BY DEF Advertise, Keys
  <1>2. r.state \in {"Claimed", "Delivered"} =>
            /\ x \in DOMAIN Live /\ InUse(x) /\ r.claim = records[x].claim
            /\ r.state # records[x].state => r.state = "Delivered"
    <2>1. CASE x \in DOMAIN Live /\ Live[x].state # "Consumed"
      <3>1. RecordInv(Live[x]) /\ x \in DOMAIN records /\ Live[x] = records[x]
        BY <2>1, IInvByRecord, LiveIsPart
      <3> QED
        BY <2>1, <3>1, RenewedInv DEF InUse
    <2>2. CASE ~(x \in DOMAIN Live /\ Live[x].state # "Consumed")
      BY <2>2, NewRecordInv
    <2> QED
      BY <2>1, <2>2
  <1> HIDE DEF r, x
  <1>3. \A k \in Keys \ {x} : InUse(k)' =>
            InUse(k) /\ records'[k] = records[k]
    BY <1>1, LiveIsPart DEF InUse
  <1>4. records'[x] = r /\ (InUse(x)' <=> r.state \in {"Claimed", "Delivered"})
    BY <1>1 DEF InUse
  <1>5. CASE r.state # "Delivered"
    BY <1>2, <1>3, <1>4, <1>5, QuietStep
  <1>6. CASE r.state = "Delivered"
    <2>1. InUse(x)' /\ InUse(x) /\ records'[x].claim = records[x].claim
          /\ records'[x].state = "Delivered"
      BY <1>2, <1>4, <1>6
    <2>2. x \in Service!Held \ gone
      BY <1>1, <2>1, HeldIsInUse
    <2>3. holder' = [k \in Keys |-> IF k \in gone THEN NoClaim ELSE holder[k]]
      BY <1>3, <2>1 DEF holder
    <2>4. order' = [k \in Service!Held \ gone |-> order[k]]
      BY <1>3, <2>1, HeldIsInUse DEF order
    <2>5. told' = [k \in Keys |-> k \notin gone /\ (k = x \/ told[k])]
      BY <1>1, <1>3, <2>1 DEF told
    <2>6. Service!Tell(x, gone)
      BY <2>2, <2>3, <2>4, <2>5 DEF Service!Tell
    <2> QED
      BY <1>1, <2>6 DEF Service!Next
  <1> QED
    BY <1>5, <1>6

\* A claim takes the sign for its host, or is refused.
LEMMA ClaimImplements ==
    ASSUME IInv, IInv', NEW c \in Claims, NEW p \in From(c.user), Claim(c, p)
    PROVE  Service!Next
  <1> DEFINE gone == {k \in Keys : k \notin DOMAIN Live /\ InUse(k)}
  <1>1. CASE records' = Live
    BY <1>1, LiveIsPart, QuietStep DEF InUse
  <1>2. ASSUME NEW x \in Targets(c), MayClaim(Live[x], c),
               records' = [Live EXCEPT ![x] = Claimed(@, c, p)]
        PROVE  Service!Next
    <2>1. x \in DOMAIN Live /\ x \in DOMAIN records /\ x \in Keys /\ Live[x] = records[x]
          /\ RecordInv(records[x])
      BY LiveIsPart, IInvByRecord DEF Targets
    <2>2. /\ DOMAIN records' = DOMAIN Live
          /\ records'[x] = Claimed(records[x], c, p)
          /\ \A k \in DOMAIN Live \ {x} : records'[k] = records[k]
      BY <1>2, <2>1, LiveIsPart DEF Live
    <2>3. records'[x].state = "Claimed" /\ records'[x].claim = c
      BY <2>1, <2>2, ClaimedInv
    <2>4. \A k \in Keys \ {x} :
            /\ InUse(k)' <=> InUse(k) /\ k \notin gone
            /\ InUse(k)' => records'[k] = records[k]
      BY <2>2, LiveIsPart DEF InUse
    <2>5. InUse(x)' /\ x \notin gone
      BY <2>1, <2>2, <2>3 DEF InUse
    <2>6. c.user \in Parties
      BY ClaimsAssumption
    <2>7. holder[x] \in {NoClaim, c.user}
      BY <1>2, <2>1, HeldIsInUse DEF MayClaim, InUse
    <2>8. holder' = [k \in Keys |-> IF k = x THEN c.user
                                     ELSE IF k \in gone THEN NoClaim ELSE holder[k]]
      BY <2>1, <2>3, <2>4, <2>5 DEF holder
    <2>9. order' = [k \in (Service!Held \cup {x}) \ gone |-> IF k = x THEN c ELSE order[k]]
      <3>1. {k \in Keys : InUse(k)'} = (Service!Held \cup {x}) \ gone
        BY <2>1, <2>4, <2>5, HeldIsInUse
      <3>2. order' = [k \in {y \in Keys : InUse(y)'} |-> records'[k].claim]
        BY DEF order
      <3>3. \A k \in {y \in Keys : InUse(y)'} :
              records'[k].claim = IF k = x THEN c ELSE order[k]
        BY <2>3, <2>4 DEF order
      <3> QED
        BY <3>1, <3>2, <3>3
    <2>10. told' = [k \in Keys |-> k \notin gone \cup {x} /\ told[k]]
      BY <2>3, <2>4, <2>5 DEF told
    <2>11. Service!Take(x, c.user, c, gone)
      BY <2>5, <2>7, <2>8, <2>9, <2>10 DEF Service!Take
    <2> QED
      BY <2>1, <2>6, <2>11 DEF Service!Next
  <1> QED
    BY <1>1, <1>2 DEF Claim

\* Everything else takes no sign and tells nobody.
LEMMA OthersImplement ==
    ASSUME IInv, IInv',
           \/ \E q \in Searches : \E p \in From(q.user) : Search(q, p)
           \/ \E q \in Removals : Consume(q)
           \/ Tick
           \/ Restart
    PROVE  Service!Next
  <1>1. ASSUME NEW k \in Keys, InUse(k)'
        PROVE  /\ InUse(k) /\ records'[k].claim = records[k].claim
               /\ records'[k].state = records[k].state
    <2>1. ASSUME k \in DOMAIN records
          PROVE  records[k] \in Record /\ RecordInv(records[k])
      BY <2>1, IInvByRecord DEF RecordInv, RecordOK
    <2>2. ASSUME NEW q \in Searches, NEW p \in From(q.user), Search(q, p)
          PROVE  /\ InUse(k) /\ records'[k].claim = records[k].claim
                 /\ records'[k].state = records[k].state
      <3>1. k \in DOMAIN Live /\ k \in DOMAIN records /\ Live[k] = records[k]
        BY <1>1, <2>2, LiveIsPart DEF Search, InUse
      <3>2. CASE k \in ToPrepare(q, p)
        <4>1. p \in Placements \cup {NoPlacement} /\ HostPlacementMap(p) # None
              /\ records[k].state = "Advertised"
          BY <3>1, <3>2 DEF From, ToPrepare
        <4>2. records'[k].state = "Preparing"
          BY <2>1, <2>2, <3>1, <3>2, <4>1, PreparedInv DEF Search
        <4> QED
          BY <1>1, <4>2 DEF InUse
      <3>3. CASE k \notin ToPrepare(q, p)
        BY <1>1, <2>2, <3>1, <3>3 DEF Search, InUse
      <3> QED
        BY <3>2, <3>3
    <2>3. ASSUME NEW q \in Removals, Consume(q)
          PROVE  /\ InUse(k) /\ records'[k].claim = records[k].claim
                 /\ records'[k].state = records[k].state
      <3>1. k \in DOMAIN Live /\ k \in DOMAIN records /\ Live[k] = records[k]
        BY <1>1, <2>3, LiveIsPart DEF Consume, InUse
      <3>2. \/ records'[k] = records[k]
            \/ records'[k] = [records[k] EXCEPT !.age = 0]
            \/ records'[k] = [records[k] EXCEPT !.age = 0, !.state = "Consumed"]
        BY <2>3, <3>1 DEF Consume
      <3>3. records'[k].claim = records[k].claim
            /\ records'[k].state \in {records[k].state, "Consumed"}
        BY <2>1, <3>1, <3>2 DEF Record
      <3> QED
        BY <1>1, <3>1, <3>3 DEF InUse
    <2>4. ASSUME Tick
          PROVE  /\ InUse(k) /\ records'[k].claim = records[k].claim
                 /\ records'[k].state = records[k].state
      <3>1. k \in DOMAIN records
        BY <1>1, <2>4 DEF Tick, InUse
      <3>2. records'[k].claim = records[k].claim /\ records'[k].state = records[k].state
        BY <2>1, <2>4, <3>1 DEF Tick, Record
      <3> QED
        BY <1>1, <3>1, <3>2 DEF InUse
    <2>5. ASSUME Restart
          PROVE  FALSE
      BY <1>1, <2>5 DEF Restart, InUse
    <2> QED
      BY <2>2, <2>3, <2>4, <2>5
  <1> QED
    BY <1>1, QuietStep

\* Through retries, travel, time-outs and restarts one host at a time holds a
\* sign, and the guest is told of its claim only (SummonsSpec).
THEOREM BrokerImplementsSummons == Spec => SummonsSpec
  <1>1. Init => Service!Init
    <2> SUFFICES ASSUME Init
                 PROVE  Service!Init
      OBVIOUS
    <2>1. \A k \in Keys : ~InUse(k)
      BY DEF Init, InUse
    <2>2. holder = [k \in Keys |-> NoClaim] /\ told = [k \in Keys |-> FALSE]
      BY <2>1 DEF holder, told
    <2>3. order = <<>>
      BY <2>1 DEF order
    <2> QED
      BY <2>2, <2>3 DEF Service!Init
  <1>2. IInv /\ IInv' /\ [Next]_vars => [Service!Next]_(Service!vars)
    <2> SUFFICES ASSUME IInv, IInv', [Next]_vars
                 PROVE  [Service!Next]_(Service!vars)
      OBVIOUS
    <2>1. CASE UNCHANGED vars
      BY <2>1 DEF vars, Service!vars, holder, order, told, InUse
    <2>2. CASE Next
      BY <2>2, AdvertiseImplements, ClaimImplements, OthersImplement DEF Next
    <2> QED
      BY <2>1, <2>2
  <1> QED
    BY <1>1, <1>2, Invariance, PTL DEF Spec, SummonsSpec, Service!Spec
================================================================================
