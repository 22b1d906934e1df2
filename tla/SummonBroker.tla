----------------------------- MODULE SummonBroker -----------------------------
(***************************************************************************)
(* The summon broker of src/bloodborne_summon_broker.cpp behind the routes *)
(* of src/webapi_routes_bloodborne.cpp.  A guest puts up a sign and renews *)
(* it by asking again; a host searches for signs and claims one; the guest *)
(* is told of the claim when it next asks.  Every operation runs under one *)
(* mutex, so each is one action; requests come from anybody, at any time,  *)
(* and more than once.                                                     *)
(*                                                                         *)
(* In seamless mode players meet across maps: a search sends a guest that  *)
(* is elsewhere to the host's map first, and a claim survives a removal    *)
(* that is not forced.  (anywhereSummons is on exactly in seamless mode.)  *)
(***************************************************************************)
EXTENDS Integers, FiniteSets

CONSTANTS
    Users,          \* players
    Anonymous,      \* the user of a request that names none, -1 in the code
    None,           \* a field a request does not carry
    Signs,          \* advertisements a guest may send
    Searches,       \* searches a host may send
    Claims,         \* claims a host may send
    Removals,       \* removals a player may send
    Placements,     \* host placement headers
    NoPlacement,    \* a request without that header
    NoClaim,        \* the claim of a record nobody has claimed
    Ttl,            \* how long a sign lives without being renewed
    SeamlessTtl     \* the same for a sign in use, in seamless mode

VARIABLES
    seamless,   \* SummonBroker::m_seamlessCoop, read when the server starts
    records,    \* SummonBroker::m_records, by <<session, user>>
    answers     \* per key, what the last advertisement was answered

vars == <<seamless, records, answers>>

States == {"Advertised", "Preparing", "Claimed", "Delivered", "Consumed"}
Parties == Users \cup {Anonymous}

RecordKey(sign) == <<sign.session, sign.user>>
Keys == {RecordKey(sign) : sign \in Signs}

ASSUME PartiesAssumption == Anonymous \notin Users
ASSUME TtlAssumption ==
    Ttl \in Nat \ {0} /\ SeamlessTtl \in Nat /\ SeamlessTtl >= Ttl
ASSUME AbsenceAssumption ==
    NoPlacement \notin Placements /\ NoClaim \notin Claims \cup Parties
ASSUME ClaimsAssumption == \A c \in Claims : c.user \in Parties
ASSUME SearchesAssumption == \A q \in Searches : q.user \in Parties

\* updatedAtMs is the time since then; older than both limits is just old.
\* preparationRequester, which nothing reads, is left out.
OldAge == SeamlessTtl + 1
Record ==
    [state : States, sign : Signs, claim : Claims \cup {NoClaim},
     placement : Placements \cup {NoPlacement}, age : 0..OldAge]
Answer == [claim : Claims \cup {NoClaim}, placement : Placements \cup {NoPlacement}]
NoAnswer == [claim |-> NoClaim, placement |-> NoPlacement]

---------------------------------------------------------------------------
(* Which signs a search finds                                              *)

SameIfPresent(q, s, field) == q[field] = None \/ q[field] = s[field]

Apart(m, n) == IF m > n THEN m - n ELSE n - m

\* Level and distance limits; an absent level or distance is -1, and the word
\* is "" when there is none.
LevelsMatch(q, s) ==
    q.word = "" /\ q.level >= 0 /\ s.level >= 0 =>
        Apart(q.level, s.level) <= 10 + q.level \div 5

InReach(q, s) ==
    q.distance >= 0 /\ q.pos # None =>
        LET d == [i \in 1..3 |-> q.pos[i] - s.pos[i]]
        IN  d[1] * d[1] + d[2] * d[2] + d[3] * d[3] <= q.distance * q.distance

MatchesSearch(q, s) ==
    /\ s.user # q.user /\ s.session # q.session
    /\ \A field \in {"version", "method"} : SameIfPresent(q, s, field)
    /\ q.types = {} \/ s.type \in q.types
    /\ q.word = "" \/ q.word = s.word
    /\ ~seamless =>
        /\ \A field \in {"area", "region", "channel"} : SameIfPresent(q, s, field)
        /\ LevelsMatch(q, s)
        /\ InReach(q, s)

---------------------------------------------------------------------------
(* Records                                                                 *)

IsSeamlessActiveState(state) == state \in {"Preparing", "Claimed", "Delivered"}

TtlOf(r) == IF seamless /\ IsSeamlessActiveState(r.state) THEN SeamlessTtl ELSE Ttl

\* PurgeExpiredLocked, which every operation calls first.
Live == [k \in {x \in DOMAIN records : records[x].age <= TtlOf(records[x])} |-> records[k]]

\* The map a placement header names, None when it does not parse.
HostPlacementMap(p) == IF p = NoPlacement THEN None ELSE p.map

Elsewhere(r, sign) ==
    HostPlacementMap(r.placement) # None /\ sign.area # HostPlacementMap(r.placement)

NewRecord(sign) ==
    [state |-> "Advertised", sign |-> sign, claim |-> NoClaim,
     placement |-> NoPlacement, age |-> 0]

\* Mutants: a claimed guest is free again when it arrives; a claim that has a
\* placement waits for a guest that is there already.
RenewedAsFree(r, sign) ==
    LET n == [r EXCEPT !.sign = sign, !.age = 0]
    IN  CASE r.state \in {"Preparing", "Claimed"} /\ ~Elsewhere(r, sign)
                 -> [n EXCEPT !.state = "Advertised"]
          [] OTHER -> n

RenewedInPlace(r, sign) ==
    LET n == [r EXCEPT !.sign = sign, !.age = 0]
    IN  CASE r.state = "Preparing" /\ ~Elsewhere(r, sign)
                 -> [n EXCEPT !.state = "Advertised"]
          [] r.state = "Claimed" /\ ~(seamless /\ HostPlacementMap(r.placement) # None)
                 -> [n EXCEPT !.state = "Delivered"]
          [] OTHER -> n

\* What a renewal makes of a record in use: a guest sent to another map is
\* free again when it is there, a claim is delivered unless, in seamless mode,
\* the guest is not there yet.
Renewed(r, sign) ==
    LET n == [r EXCEPT !.sign = sign, !.age = 0]
    IN  CASE r.state = "Preparing" /\ ~Elsewhere(r, sign)
                 -> [n EXCEPT !.state = "Advertised"]
          [] r.state = "Claimed" /\ ~(seamless /\ Elsewhere(r, sign))
                 -> [n EXCEPT !.state = "Delivered"]
          [] OTHER -> n

\* What the guest is told: the claim and where the host is, or only where to go.
AnswerFor(r) ==
    CASE r.state = "Delivered" -> [claim |-> r.claim, placement |-> r.placement]
      [] r.state \in {"Preparing", "Claimed"} -> [claim |-> NoClaim, placement |-> r.placement]
      [] OTHER -> NoAnswer

---------------------------------------------------------------------------
Init ==
    /\ seamless \in BOOLEAN
    /\ records = <<>>
    /\ answers = [k \in Keys |-> NoAnswer]

Advertise(sign) ==
    LET k == RecordKey(sign)
        r == IF k \in DOMAIN Live /\ Live[k].state # "Consumed"
             THEN Renewed(Live[k], sign) ELSE NewRecord(sign)
    IN  /\ records' = [x \in DOMAIN Live \cup {k} |-> IF x = k THEN r ELSE Live[x]]
        /\ answers' = [answers EXCEPT ![k] = AnswerFor(r)]
        /\ UNCHANGED seamless

\* Mutant: the guest is sent on its way before anybody asks where to.
ToPrepareUnplaced(q, p) ==
    {k \in DOMAIN Live :
        /\ seamless /\ q.user # Anonymous
        /\ Live[k].state = "Advertised" /\ MatchesSearch(q, Live[k].sign)
        /\ Live[k].sign.area # HostPlacementMap(p)}

\* A search by q with placement p sends these signs' guests to the host's map.
ToPrepare(q, p) ==
    {k \in DOMAIN Live :
        /\ seamless /\ q.user # Anonymous /\ HostPlacementMap(p) # None
        /\ Live[k].state = "Advertised" /\ MatchesSearch(q, Live[k].sign)
        /\ Live[k].sign.area # HostPlacementMap(p)}

\* The signs a search lists, before GetMaxCount cuts the list.
Found(q, p) ==
    {k \in DOMAIN Live \ ToPrepare(q, p) :
        /\ MatchesSearch(q, Live[k].sign)
        /\ \/ Live[k].state = "Advertised"
           \/ /\ seamless /\ q.user # Anonymous
              /\ IsSeamlessActiveState(Live[k].state)
              /\ Live[k].claim # NoClaim /\ Live[k].claim.user = q.user}

\* GetMaxCount newest, in any order among those of one age.
Results(q, p) ==
    {R \in SUBSET Found(q, p) :
        /\ Cardinality(R) <= q.maxCount
        /\ R # Found(q, p) => Cardinality(R) = q.maxCount
        /\ \A k \in R, x \in Found(q, p) \ R : Live[k].age <= Live[x].age}

Prepared(r, p) == [r EXCEPT !.state = "Preparing", !.placement = p, !.age = 0]

Search(q, p) ==
    /\ records' = [k \in DOMAIN Live |->
                    IF k \in ToPrepare(q, p) THEN Prepared(Live[k], p) ELSE Live[k]]
    /\ UNCHANGED <<seamless, answers>>

\* The record a claim is for: one of the session it names, whoever put it up;
\* else the newest of the user it names.
Targets(c) ==
    LET ofSession == {k \in DOMAIN Live : c.session # None /\ Live[k].sign.session = c.session}
        ofUser    == {k \in DOMAIN Live :
                        /\ c.target # None /\ Live[k].sign.user = c.target
                        /\ c.chara = None \/ Live[k].sign.chara = c.chara}
    IN  IF ofSession # {} THEN ofSession
        ELSE {k \in ofUser : \A x \in ofUser : Live[k].age <= Live[x].age}

\* Mutants: a claim may always be replaced; a guest on its way is taken.
MayClaimAnybody(r, c) ==
    \/ r.state \in {"Advertised", "Preparing"}
    \/ r.state \in {"Claimed", "Delivered"} /\ r.claim # c

MayClaimAdvertised(r, c) ==
    \/ r.state = "Advertised"
    \/ /\ r.state \in {"Claimed", "Delivered"} /\ r.claim # c
       /\ seamless /\ c.user # Anonymous /\ r.claim.user = c.user

\* A claimed sign is not claimed by another; the host that has it may replace
\* its claim, in seamless mode.
MayClaim(r, c) ==
    \/ r.state \in {"Advertised", "Preparing"}
    \/ /\ r.state \in {"Claimed", "Delivered"} /\ r.claim # c
       /\ seamless /\ c.user # Anonymous /\ r.claim.user = c.user

\* Mutants: a replaced claim is not delivered again; the placement that sent
\* the guest on its way stays.
ClaimedAsItWas(r, c, p) ==
    [r EXCEPT !.state = IF @ = "Delivered" THEN @ ELSE "Claimed", !.claim = c, !.age = 0,
              !.placement = IF seamless /\ p # NoPlacement /\ p.fits THEN p ELSE NoPlacement]

ClaimedKeepingPlacement(r, c, p) ==
    [r EXCEPT !.state = "Claimed", !.claim = c, !.age = 0,
              !.placement = IF seamless /\ p # NoPlacement /\ p.fits THEN p ELSE @]

Claimed(r, c, p) ==
    [r EXCEPT !.state = "Claimed", !.claim = c, !.age = 0,
              !.placement = IF seamless /\ p # NoPlacement /\ p.fits THEN p ELSE NoPlacement]

\* A refused claim changes nothing but the purge.
Claim(c, p) ==
    /\ \/ \E k \in Targets(c) :
            /\ MayClaim(Live[k], c)
            /\ records' = [Live EXCEPT ![k] = Claimed(@, c, p)]
       \/ /\ \/ Targets(c) = {}
             \/ \E k \in Targets(c) : ~MayClaim(Live[k], c)
          /\ records' = Live
    /\ UNCHANGED <<seamless, answers>>

\* A removal takes down the signs it names, those in seamless use only if it
\* is forced.
Consume(q) ==
    LET named == {k \in DOMAIN Live :
                    /\ q.session # None \/ q.user # None
                    /\ SameIfPresent(q, Live[k].sign, "session")
                    /\ SameIfPresent(q, Live[k].sign, "user")
                    /\ Live[k].state # "Consumed"}
        kept  == {k \in named : seamless /\ ~q.force /\ IsSeamlessActiveState(Live[k].state)}
    IN  /\ records' = [k \in DOMAIN Live |->
                        IF k \in kept THEN [Live[k] EXCEPT !.age = 0]
                        ELSE IF k \in named
                             THEN [Live[k] EXCEPT !.age = 0, !.state = "Consumed"]
                        ELSE Live[k]]
        /\ UNCHANGED <<seamless, answers>>

Tick ==
    /\ records' = [k \in DOMAIN records |->
                    [records[k] EXCEPT !.age = IF @ < OldAge THEN @ + 1 ELSE @]]
    /\ UNCHANGED <<seamless, answers>>

\* The records are in memory only, and the mode may be another afterwards.
Restart ==
    /\ records' = <<>>
    /\ seamless' \in BOOLEAN
    /\ UNCHANGED answers

\* A host sends its own placement.
From(user) == {p \in Placements : p.from = user} \cup {NoPlacement}

Next ==
    \/ \E sign \in Signs : Advertise(sign)
    \/ \E q \in Searches : \E p \in From(q.user) : Search(q, p)
    \/ \E c \in Claims : \E p \in From(c.user) : Claim(c, p)
    \/ \E q \in Removals : Consume(q)
    \/ Tick
    \/ Restart

Spec == Init /\ [][Next]_vars

---------------------------------------------------------------------------
(* Properties                                                              *)

\* Records are well-typed, and carry the claim and the destination that their
\* state is about.
RecordOK(r) ==
    /\ r \in Record
    /\ r.state = "Advertised" => r.claim = NoClaim
    /\ r.state = "Preparing" => r.claim = NoClaim /\ HostPlacementMap(r.placement) # None
    /\ r.state \in {"Claimed", "Delivered"} => r.claim \in Claims

TypeOK ==
    /\ seamless \in BOOLEAN
    /\ DOMAIN records \subseteq Keys
    /\ \A k \in DOMAIN records : RecordOK(records[k]) /\ RecordKey(records[k].sign) = k
    /\ answers \in [Keys -> Answer]

InUse(k) == k \in DOMAIN records /\ records[k].state \in {"Claimed", "Delivered"}

\* Once a claim counts as delivered, it is the one the guest was told, with the
\* placement that goes with it: a claim that was replaced after it was
\* delivered, or made while the guest travelled, is delivered anew.
DeliveryIsCurrent ==
    \A k \in DOMAIN records :
        records[k].state = "Delivered" =>
            answers[k] = [claim |-> records[k].claim, placement |-> records[k].placement]

\* A guest that is told of a claim is sent to the host that made it, never to
\* one that had prepared the guest before and lost it.
PlacementIsTheClaimants ==
    \A k \in Keys :
        answers[k].claim # NoClaim /\ answers[k].placement # NoPlacement =>
            answers[k].placement.from = answers[k].claim.user

\* Nobody gets hold of a sign that was not heard of within its time.
OnlyFreshSignsAreClaimed ==
    [][\A k \in Keys :
        InUse(k)' /\ ~InUse(k) =>
            k \in DOMAIN records /\ records[k].age <= (IF seamless THEN SeamlessTtl ELSE Ttl)]_vars

\* A sign in use is dropped only by a removal, by time or by a restart: no
\* renewal, search or claim of anybody gives it up.
HolderKeepsTheSign ==
    [][\A k \in Keys :
        InUse(k) /\ ~InUse(k)' =>
            \/ records[k].age > TtlOf(records[k])
            \/ k \in DOMAIN records' /\ records'[k].state = "Consumed"
            \/ records' = <<>>]_vars

(* The abstract service this implements.                                   *)

holder == [k \in Keys |-> IF InUse(k) THEN records[k].claim.user ELSE NoClaim]
order == [k \in {x \in Keys : InUse(x)} |-> records[k].claim]
told == [k \in Keys |-> InUse(k) /\ records[k].state = "Delivered"]

Service == INSTANCE Summons WITH
    Signs <- Keys, Hosts <- Parties, Nobody <- NoClaim, Orders <- Claims

\* One host at a time holds a sign, through retries, time-outs and restarts,
\* and the guest is told of the holder's claim only.
SummonsSpec == Service!Spec
================================================================================
