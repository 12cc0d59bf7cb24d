------------------------- MODULE ConnectRoutingProofs -------------------------
(***************************************************************************)
(* Theorems about ConnectRouting and LimitlessRouting, for any connections *)
(* and their setups, hosts, lists of routers and numbers of calls.         *)
(***************************************************************************)
EXTENDS ConnectRouting, FiniteSetTheorems, TLAPS

-----------------------------------------------------------------------------
(* The inductive invariant.                                                *)

(* The connections that count on the monitor.                              *)
Counting == {c \in Conns : service[c] /\ monitors_lock # c}

(* A DBC that connects again counts again, so there may be more counts     *)
(* than connections that count.                                            *)
MonitorCounted ==
    /\ IsFiniteSet(Counting) /\ Cardinality(Counting) <= monitors.count
    /\ monitors.count > 0 => monitors.thread = "running" /\ monitors_lock = None

(* The lock of the monitors is held through the first query and the join.  *)
MonitorsLocked ==
    \A c \in Conns : search[c].at = "create" \/ pc[c] = "freeing" => monitors_lock = c

(* Where a call of the next plugin is under way, and one that connected.   *)
Calling == {"as_it_is", "candidate", "endpoint"}
Connected(s) == s.at = "done" /\ s.rc = "ok"

(* The call of a connection: its search s, where it is, what it is         *)
(* connected to, and its result.                                           *)
Placed(s, p, to, rc) ==
    /\ s.at # "off" <=> p \in Calling
    /\ s.at = "done" => s.rc # "none"
    /\ s.at \in {"robin", "load"} => s.routers \in RouterLists
    /\ p \in {"refresh", "loop", "freeing"} => to = None
    /\ p \in Calling /\ ~Connected(s) => to = None
    /\ p = "idle" /\ rc \in {"network", "other"} => to = None
CallsPlaced == \A c \in Conns : Placed(search[c], pc[c], server[c], result[c])

(* Of the rounds, the routers up to the last one have been through one     *)
(* more than those after it; the last one has "left" to go.                *)
InRounds(info) ==
    LET w == info.rows IN
    IF info.last = None THEN info.left = 0 /\ \A h \in DOMAIN w : info.picked[h] = 0
    ELSE /\ info.last \in DOMAIN w /\ info.left < w[info.last].weight
         /\ \E round \in Nat : \A h \in DOMAIN w :
              info.picked[h] = round * w[h].weight + (IF h < info.last THEN w[h].weight
                                               ELSE IF h = info.last THEN w[h].weight - info.left
                                               ELSE 0)

RoutingInv == MonitorCounted /\ MonitorsLocked /\ CallsPlaced /\ InRounds(round_robin)

-----------------------------------------------------------------------------
(* The weighted round robin.                                               *)

(* A finite set of numbers has a least one: the set of those below it is   *)
(* the least by inclusion.                                                 *)
LEMMA LeastExists ==
    ASSUME NEW S, IsFiniteSet(S), S \subseteq Nat, S # {}
    PROVE  \E h \in S : \A other \in S : h <= other
<1> DEFINE Below(h) == {k \in S : k < h}
           Belows == {Below(h) : h \in S}
<1>1. IsWellFoundedOn(StrictSubsetOrdering(S), FiniteSubsetsOf(S))
  BY FS_StrictSubsetOrderingWellFounded
<1>2. /\ Belows \subseteq FiniteSubsetsOf(S)
      /\ Belows # {}
  <2>1. \A h \in S : Below(h) \subseteq S /\ IsFiniteSet(Below(h))
    BY FS_Subset
  <2>2. \A h \in S : Below(h) \in FiniteSubsetsOf(S)
    BY <2>1 DEF FiniteSubsetsOf
  <2> HIDE DEF Below
  <2> QED BY <2>2
<1>3. PICK least \in Belows :
        \A below \in Belows : <<below, least>> \notin StrictSubsetOrdering(S)
  <2> HIDE DEF Belows
  <2> QED BY <1>1, <1>2, WFMin
<1>4. PICK h \in S : least = Below(h)
  OBVIOUS
<1>5. ASSUME NEW k \in S, k < h
      PROVE  FALSE
  <2>1. Below(k) \in Belows
    OBVIOUS
  <2>2. Below(k) \subseteq Below(h)
    <3>1. \A i \in S : i < k => i < h
      BY <1>5
    <3> QED BY <3>1
  <2>3. k \in Below(h) /\ k \notin Below(k)
    BY <1>5
  <2>4. Below(k) \subseteq S /\ Below(h) \subseteq S
    OBVIOUS
  <2>5. <<Below(k), Below(h)>> \notin StrictSubsetOrdering(S)
    BY <2>1, <1>3, <1>4
  <2> HIDE DEF Below, Belows
  <2> QED BY <2>2, <2>3, <2>4, <2>5 DEF StrictSubsetOrdering
<1> QED BY <1>5

(* First answers the least host.                                           *)
LEMMA FirstIsLeast ==
    ASSUME NEW S, IsFiniteSet(S), S \subseteq Nat, S # {}
    PROVE  First(S) \in S /\ \A h \in S : First(S) <= h
BY LeastExists DEF First

(* After answers the next host after the last one, or the least if there   *)
(* is none.                                                                *)
LEMMA AfterIsNext ==
    ASSUME NEW S, IsFiniteSet(S), S \subseteq Nat, NEW last \in S
    PROVE  /\ After(last, S) \in S
           /\ \/ After(last, S) > last /\ \A h \in S : h > last => After(last, S) <= h
              \/ \A h \in S : After(last, S) <= h /\ h <= last
<1> DEFINE later == {h \in S : h > last}
<1>1. IsFiniteSet(later)
  BY FS_Subset
<1>2. CASE later = {}
  <2>1. After(last, S) = First(S)
    BY <1>2 DEF After
  <2>2. First(S) \in S /\ \A h \in S : First(S) <= h
    BY FirstIsLeast
  <2>3. \A h \in S : h <= last
    BY <1>2
  <2> QED BY <2>1, <2>2, <2>3
<1>3. CASE later # {}
  <2>1. After(last, S) = First(later)
    BY <1>3 DEF After
  <2>2. First(later) \in later /\ \A h \in later : First(later) <= h
    <3> HIDE DEF later
    <3>1. later \subseteq Nat BY DEF later
    <3> QED BY <1>1, <1>3, <3>1, FirstIsLeast
  <2> QED BY <2>1, <2>2
<1> QED BY <1>2, <1>3

(* Arithmetic of rounds.                                                   *)
LEMMA TimesNext ==
    \A round, w \in Nat :
        (round + 1) * w = round * w + w /\ round * w \in Nat
OBVIOUS
LEMMA ZeroTimes == \A w \in Nat : 0 * w + 0 = 0
OBVIOUS
(* A round that is not over does not count.                                *)
LEMMA RoundsBegun ==
    \A round, w, rest \in Nat : rest < w => (round * w + rest) \div w = round
OBVIOUS
(* A round that is over counts.                                            *)
LEMMA RoundsOver ==
    \A round, w \in Nat : 0 < w => (round * w + w) \div w = round + 1
OBVIOUS

(* Weights that are new start the rounds anew.                             *)
LEMMA StartsRounds ==
    ASSUME NEW w \in RouterLists
    PROVE  InRounds([NoRounds EXCEPT !.rows = w, !.picked = [h \in DOMAIN w |-> 0]])
BY DEF InRounds, NoRounds

RoundsType(info) == \E list \in Lists :
    info \in [last : Routers \cup {None}, left : Nat, rows : {list},
             picked : [DOMAIN list -> Nat]]

(* create_cache_entries answers an entry with these rows, in rounds.    *)
LEMMA EntriesInRounds ==
    ASSUME NEW w \in RouterLists, RoundsType(round_robin), InRounds(round_robin)
    PROVE  LET info == create_cache_entries(w) IN
           /\ info.rows = w /\ RoundsType(info) /\ InRounds(info)
BY DEF create_cache_entries, RoundsType, InRounds, NoRounds, Lists

(* Routers that go in rounds are not a round apart.                        *)
LEMMA FairRounds ==
    ASSUME NEW info, RoundsType(info), InRounds(info)
    PROVE  \A h, other \in DOMAIN info.rows :
              info.picked[h] \div info.rows[h].weight
                  <= info.picked[other] \div info.rows[other].weight + 1
<1> DEFINE w == info.rows
           p == info.picked
<1>1. \A h \in DOMAIN w : w[h].weight \in Nat \ {0} /\ p[h] \in Nat
  BY RoutersAssumption DEF RoundsType, Lists, NoRouters
<1>2. CASE info.last = None
  <2>1. \A h \in DOMAIN w : p[h] = 0
    BY <1>2 DEF InRounds
  <2>2. \A h \in DOMAIN w : p[h] \div w[h].weight = 0
    BY <1>1, <2>1
  <2> QED BY <2>2
<1>3. CASE info.last # None
  <2>1. PICK round \in Nat : \A h \in DOMAIN w :
              p[h] = round * w[h].weight + (IF h < info.last THEN w[h].weight
                                               ELSE IF h = info.last THEN w[h].weight - info.left
                                               ELSE 0)
    BY <1>3 DEF InRounds
  <2>2. info.left \in Nat /\ info.last \in DOMAIN w /\ info.left < w[info.last].weight
    BY <1>3 DEF InRounds, RoundsType
  <2>3. ASSUME NEW h \in DOMAIN w
        PROVE  p[h] \div w[h].weight \in {round, round + 1}
    <3> DEFINE k == w[h].weight
               q == p[h]
    <3>1. k \in Nat /\ k > 0 /\ q \in Nat BY <1>1
    <3>2. \/ q = round * k + k \/ q = round * k + 0 \/ q = round * k
          \/ (q = round * k + (k - info.left) /\ info.left < k)
      BY <2>1, <2>2
    <3>3. q \div k \in {round, round + 1}
      <4> HIDE DEF k, q
      <4>1. CASE q = round * k + k
        BY <3>1, <4>1, RoundsOver
      <4>2. CASE q = round * k
        BY <3>1, <4>2, RoundsBegun, TimesNext
      <4>3. CASE q = round * k + (k - info.left) /\ info.left < k /\ info.left # 0
        <5>1. k - info.left \in Nat /\ k - info.left < k
          BY <4>3, <3>1, <2>2
        <5> QED BY <3>1, <4>3, <5>1, RoundsBegun
      <4>4. CASE q = round * k + (k - info.left) /\ info.left = 0
        <5>1. k - info.left = k
          BY <3>1, <4>4
        <5> QED BY <4>1, <4>4, <5>1
      <4>5. CASE q = round * k + 0
        <5>1. q = round * k
          BY <3>1, <4>5, TimesNext
        <5> QED BY <4>2, <5>1
      <4> QED BY <3>2, <4>1, <4>2, <4>3, <4>4, <4>5
    <3> QED BY <3>3
  <2> QED BY <2>3
<1> QED BY <1>2, <1>3

(* What the assumptions say of a list of routers.                          *)
LEMMA WeightsOfList ==
    ASSUME NEW w \in RouterLists
    PROVE  /\ IsFiniteSet(DOMAIN w) /\ DOMAIN w \subseteq Nat /\ DOMAIN w # {}
           /\ \A h \in DOMAIN w : w[h].weight \in Nat \ {0}
           /\ DOMAIN w \subseteq Routers /\ None \notin DOMAIN w
BY RoutersAssumption, OverlapAssumption, NoneAssumption DEF Routers

(* One more for "next", which has "left" more to go.  *)
Turned(info, next, left) ==
    [info EXCEPT !.last = next, !.left = left, !.picked[next] = @ + 1]
(* One more pick of "next", which has "left" more to go.                   *)
LEMMA TurnedInfo ==
    ASSUME NEW info, NEW w \in RouterLists, info.rows = w, RoundsType(info),
           NEW next \in DOMAIN w, NEW left \in Nat
    PROVE  LET new == Turned(info, next, left) IN
               /\ RoundsType(new) /\ new.last = next /\ new.left = left /\ new.rows = w
               /\ new.picked[next] = info.picked[next] + 1
               /\ \A h \in DOMAIN w \ {next} : new.picked[h] = info.picked[h]
<1> DEFINE picks == [info.picked EXCEPT ![next] = @ + 1]
           new == [info EXCEPT !.last = next, !.left = left, !.picked = picks]
<1>1. info \in [last : Routers \cup {None}, left : Nat, rows : {w},
                   picked : [DOMAIN w -> Nat]]
  BY DEF RoundsType
<1>2. picks \in [DOMAIN w -> Nat] /\ picks[next] = info.picked[next] + 1
      /\ \A h \in DOMAIN w \ {next} : picks[h] = info.picked[h]
  BY <1>1
<1>3. next \in Routers
  BY WeightsOfList
<1>4. Turned(info, next, left) = new
  BY <1>1 DEF Turned
<1> HIDE DEF picks
<1>5. /\ new \in [last : Routers \cup {None}, left : Nat, rows : {w},
                   picked : [DOMAIN w -> Nat]]
      /\ new.last = next /\ new.left = left /\ new.rows = w /\ new.picked = picks
  BY <1>1, <1>2, <1>3
<1>6. RoundsType(new)
  BY <1>5 DEF RoundsType, Lists
<1> QED BY <1>2, <1>4, <1>5, <1>6

(* GetHost takes the host whose turn it is: the last one as long as it has *)
(* some left, then the one after it, at the end of a round the first.      *)
LEMMA GetHostInRounds ==
    ASSUME NEW rows \in RouterLists, RoundsType(round_robin), InRounds(round_robin)
    PROVE  /\ RoundsType(GetHost(rows)) /\ InRounds(GetHost(rows))
           /\ GetHost(rows).last \in DOMAIN rows
<1> DEFINE info == create_cache_entries(rows)
           stays == info.left > 0 /\ info.last \in DOMAIN rows
           next == IF stays THEN info.last
                   ELSE IF info.last = None THEN First(DOMAIN rows)
                   ELSE After(info.last, DOMAIN rows)
           left == IF stays THEN info.left ELSE rows[next].weight
           new == Turned(info, next, left - 1)
<1>1. GetHost(rows) = new
  BY DEF GetHost, Turned
<1>2. info.rows = rows /\ RoundsType(info) /\ InRounds(info)
  BY EntriesInRounds
<1> HIDE DEF info
<1>3. info.left \in Nat /\ \A h \in DOMAIN rows : info.picked[h] \in Nat
  BY <1>2 DEF RoundsType
<1>4. info.last # None => info.last \in DOMAIN rows
  BY <1>2 DEF InRounds
<1>5. next \in DOMAIN rows
  BY WeightsOfList, FirstIsLeast, AfterIsNext, <1>4
<1>6. left \in Nat \ {0}
  BY <1>3, <1>5, WeightsOfList
<1>7. /\ RoundsType(new) /\ new.last = next /\ new.left = left - 1 /\ new.rows = rows
      /\ new.picked[next] = info.picked[next] + 1
      /\ \A h \in DOMAIN rows \ {next} : new.picked[h] = info.picked[h]
  <2>1. left - 1 \in Nat
    BY <1>6
  <2> HIDE DEF next, left
  <2> QED BY <1>2, <1>5, <2>1, TurnedInfo
<1> HIDE DEF new
<1>8. \A h \in DOMAIN rows : rows[h].weight \in Nat /\ h \in Nat
  BY WeightsOfList
<1> DEFINE rest(h) == IF h < next THEN rows[h].weight
                      ELSE IF h = next THEN rows[h].weight - left ELSE 0
<1>9. left <= rows[next].weight /\ \E round \in Nat : \A h \in DOMAIN rows :
        info.picked[h] = round * rows[h].weight + rest(h)
  <2>1. CASE stays
    <3>1. next = info.last /\ left = info.left /\ info.last # None
      BY <2>1, WeightsOfList
    <3> HIDE DEF next, left
    <3>2. info.left < rows[info.last].weight
      BY <3>1, <1>2 DEF InRounds
    <3>3. \E round \in Nat : \A h \in DOMAIN rows :
            info.picked[h] = round * rows[h].weight + rest(h)
      BY <3>1, <1>2 DEF InRounds
    <3> QED BY <3>1, <3>2, <3>3, <1>3, <1>5, <1>8
  <2>2. CASE info.last = None
    <3>1. info.left = 0 /\ \A h \in DOMAIN rows : info.picked[h] = 0
      BY <2>2, <1>2 DEF InRounds
    <3>2. next = First(DOMAIN rows) /\ left = rows[next].weight
      BY <2>2, <3>1
    <3>3. \A h \in DOMAIN rows : next <= h
      BY <3>2, FirstIsLeast, WeightsOfList
    <3>4. \A h \in DOMAIN rows : rest(h) = 0
      <4> HIDE DEF next, left
      <4> QED BY <3>2, <3>3, <1>8, <1>5
    <3>5. \A h \in DOMAIN rows : info.picked[h] = 0 * rows[h].weight + rest(h)
      <4> HIDE DEF rest
      <4> QED BY <3>1, <3>4, <1>8, ZeroTimes
    <3> HIDE DEF rest, next, left
    <3>6. \E round \in Nat : \A h \in DOMAIN rows :
            info.picked[h] = round * rows[h].weight + rest(h)
      <4> WITNESS 0 \in Nat
      <4> QED BY <3>5
    <3> QED BY <3>6, <3>2, <1>5, <1>8
  <2>3. CASE ~stays /\ info.last # None
    <3>1. PICK round \in Nat : \A h \in DOMAIN rows :
              info.picked[h] = round * rows[h].weight +

                 (IF h < info.last THEN rows[h].weight
                  ELSE IF h = info.last THEN rows[h].weight - info.left ELSE 0)
      BY <2>3, <1>2 DEF InRounds
    <3>2. info.left = 0 /\ info.last \in DOMAIN rows
      BY <2>3, <1>3, <1>4
    <3>3. next = After(info.last, DOMAIN rows) /\ left = rows[next].weight
      BY <2>3
    <3> HIDE DEF next, left
    <3>4. CASE next > info.last /\ \A h \in DOMAIN rows : h > info.last => next <= h
      <4>1. ASSUME NEW h \in DOMAIN rows
            PROVE  info.picked[h] = round * rows[h].weight + rest(h)
        <5>1. /\ h < next <=> h <= info.last
              /\ h \in Nat /\ next \in Nat /\ info.last \in Nat
          BY <3>2, <3>4, <1>8, <1>5
        <5>2. rest(h) = IF h <= info.last THEN rows[h].weight ELSE 0
          BY <5>1, <3>3, <1>8, <1>5
        <5>3. info.picked[h] =
                round * rows[h].weight + (IF h <= info.last THEN rows[h].weight ELSE 0)
          <6> DEFINE past == round * rows[h].weight
          <6>1. past \in Nat /\ rows[h].weight \in Nat
            BY <1>8, TimesNext
          <6>2. info.picked[h] = past +
                 (IF h < info.last THEN rows[h].weight
                  ELSE IF h = info.last THEN rows[h].weight - info.left ELSE 0)
            BY <3>1
          <6> HIDE DEF past
          <6>3. info.picked[h] = past + (IF h <= info.last THEN rows[h].weight ELSE 0)
            BY <6>1, <6>2, <5>1, <3>2
          <6> QED BY <6>3 DEF past
        <5> QED BY <5>2, <5>3
      <4> QED BY <4>1, <3>3, <1>5, <1>8
    <3>5. CASE \A h \in DOMAIN rows : next <= h /\ h <= info.last
      <4>1. \A h \in DOMAIN rows : rest(h) = 0
        BY <3>3, <3>5, <1>8, <1>5
      <4>2. \A h \in DOMAIN rows : info.picked[h] = round * rows[h].weight + rows[h].weight
        <5>1. ASSUME NEW h \in DOMAIN rows
              PROVE  (IF h < info.last THEN rows[h].weight
                      ELSE IF h = info.last THEN rows[h].weight - info.left ELSE 0)
                         = rows[h].weight
          BY <3>2, <3>5, <1>8
        <5> QED BY <3>1, <5>1
      <4>3. ASSUME NEW h \in DOMAIN rows
            PROVE  info.picked[h] = (round + 1) * rows[h].weight + rest(h)
        <5> DEFINE k == rows[h].weight
        <5>1. k \in Nat /\ rest(h) = 0 /\ info.picked[h] = round * k + k
          BY <4>1, <4>2, <1>8
        <5> HIDE DEF k, rest
        <5>2. info.picked[h] = (round + 1) * k + rest(h)
          BY <5>1, TimesNext
        <5> QED BY <5>2 DEF k
      <4> HIDE DEF rest
      <4> QED BY <4>3, <3>3, <1>5, <1>8
    <3> QED BY <3>2, <3>3, <3>4, <3>5, AfterIsNext, WeightsOfList
  <2> QED BY <2>1, <2>2, <2>3
<1>10. InRounds(new)
  <2>1. PICK round \in Nat : \A h \in DOMAIN rows :
          info.picked[h] = round * rows[h].weight + rest(h)
    BY <1>9
  <2> HIDE DEF next, left
  <2>2. \A h \in DOMAIN rows : new.picked[h] = round * rows[h].weight +
          (IF h < next THEN rows[h].weight
           ELSE IF h = next THEN rows[h].weight - (left - 1) ELSE 0)
    BY <2>1, <1>7, <1>8, <1>6, TimesNext
  <2>3. next # None
    BY <1>5, WeightsOfList
  <2> QED BY <2>2, <2>3, <1>5, <1>6, <1>7, <1>8, <1>9 DEF InRounds
<1> QED BY <1>1, <1>5, <1>7, <1>10

-----------------------------------------------------------------------------
(* The steps of a call.                                                    *)

(* The search of c becomes s.                                              *)
Searched(c, s) ==
    /\ search' \in [Conns -> Searches] /\ search'[c] = s
    /\ \A d \in Conns \ {c} : search'[d] = search[d]

(* A search with another record in the place of c.                         *)
LEMMA SearchGoes ==
    ASSUME search \in [Conns -> Searches], NEW c \in Conns, NEW s \in Searches,
           search' = [search EXCEPT ![c] = s]
    PROVE  Searched(c, s)
BY DEF Searched

(* A search that goes on to another stage.                                 *)
LEMMA GoesTo ==
    ASSUME search \in [Conns -> Searches], NEW c \in Conns, NEW at \in Stages,
           Goes(c, at)
    PROVE  \E s \in Searches :
             Searched(c, s) /\ s = [search[c] EXCEPT !.at = at]
<1> DEFINE s == [search[c] EXCEPT !.at = at]
<1>1. search[c] \in Searches
  OBVIOUS
<1>2. s \in Searches
  BY <1>1 DEF Searches
<1>3. search' = [search EXCEPT ![c] = s]
  BY DEF Goes
<1> HIDE DEF s
<1>4. Searched(c, s)
  BY <1>2, <1>3, SearchGoes
<1> QED BY <1>2, <1>4 DEF s

(* A search that ends with an answer.                                      *)
LEMMA AnswersWith ==
    ASSUME search \in [Conns -> Searches], NEW c \in Conns, NEW rc \in Outcomes,
           Answers(c, rc)
    PROVE  \E s \in Searches :
             Searched(c, s) /\ s = [search[c] EXCEPT !.at = "done", !.rc = rc]
<1> DEFINE s == [search[c] EXCEPT !.at = "done", !.rc = rc]
<1>1. search[c] \in Searches /\ "done" \in Stages
  BY DEF Stages
<1>2. s \in Searches
  BY <1>1 DEF Searches
<1>3. search' = [search EXCEPT ![c] = s]
  BY DEF Answers
<1> HIDE DEF s
<1>4. Searched(c, s)
  BY <1>2, <1>3, SearchGoes
<1> QED BY <1>2, <1>4 DEF s

(* A search that has its list of routers.                                  *)
LEMMA KnowsList ==
    ASSUME search \in [Conns -> Searches], NEW c \in Conns, NEW list \in Lists,
           Knows(c, list)
    PROVE  \E s \in Searches :
             /\ Searched(c, s)
             /\ s = [search[c] EXCEPT !.at = "robin", !.routers = list, !.tries = 0]
<1> DEFINE s == [search[c] EXCEPT !.at = "robin", !.routers = list, !.tries = 0]
<1>1. search[c] \in Searches /\ "robin" \in Stages
  BY DEF Stages
<1>2. s \in Searches
  BY <1>1 DEF Searches
<1>3. search' = [search EXCEPT ![c] = s]
  BY DEF Knows
<1> HIDE DEF s
<1>4. Searched(c, s)
  BY <1>2, <1>3, SearchGoes
<1> QED BY <1>2, <1>4 DEF s

(* A search that counts another attempt stays where it is.                 *)
LEMMA TriesAgain ==
    ASSUME search \in [Conns -> Searches], NEW c \in Conns, NEW down \in SUBSET Routers,
           \/ search' = [search EXCEPT ![c].tries = @ + 1]
           \/ search' = [search EXCEPT ![c].tries = @ + 1, ![c].refused = @ \cup down]
    PROVE  \E s \in Searches :
             /\ Searched(c, s)
             /\ s.at = search[c].at /\ s.routers = search[c].routers /\ s.rc = search[c].rc
<1> DEFINE t == search[c]
           n == t.tries + 1
           s(more) == [t EXCEPT !.tries = n, !.refused = more]
           r == [t EXCEPT !.tries = n]
<1>1. t \in Searches
  OBVIOUS
<1>2. PICK more \in SUBSET Routers :
        search' = [search EXCEPT ![c] = s(more)] \/ search' = [search EXCEPT ![c] = r]
  <2>1. t.refused \cup down \in SUBSET Routers
    BY <1>1 DEF Searches
  <2> QED BY <2>1
<1>3. n \in Nat
  BY <1>1 DEF Searches
<1> HIDE DEF t, n
<1>4. /\ s(more) \in Searches /\ s(more).at = t.at /\ s(more).routers = t.routers
      /\ s(more).rc = t.rc
  BY <1>1, <1>3 DEF Searches
<1>5. r \in Searches /\ r.at = t.at /\ r.routers = t.routers /\ r.rc = t.rc
  BY <1>1, <1>3 DEF Searches
<1> HIDE DEF s, r
<1>6. Searched(c, s(more)) \/ Searched(c, r)
  BY <1>2, <1>4, <1>5, SearchGoes
<1> QED BY <1>4, <1>5, <1>6 DEF t

(* A step of c that leaves the monitor alone.                              *)
LEMMA MonitorAlone ==
    ASSUME TypeOK, MonitorCounted, MonitorsLocked, NEW c \in Conns,
           NEW s \in Searches, Searched(c, s), s.at # "create",
           UNCHANGED <<service, monitorVars>>,
           \A d \in Conns : pc'[d] = "freeing" => pc[d] = "freeing"
    PROVE  MonitorCounted' /\ MonitorsLocked'
<1>1. MonitorCounted'
  BY DEF MonitorCounted, Counting, monitorVars
<1>2. MonitorsLocked'
  BY DEF MonitorsLocked, Searched, monitorVars
<1> QED BY <1>1, <1>2

(* A step of c whose own call stays where the others expect it.            *)
LEMMA CallPlaced ==
    ASSUME CallsPlaced, NEW c \in Conns, NEW s, Searched(c, s),
           NEW p, pc'[c] = p, NEW to, server'[c] = to, NEW rc, result'[c] = rc,
           \A d \in Conns \ {c} :
              pc'[d] = pc[d] /\ server'[d] = server[d] /\ result'[d] = result[d],
           Placed(s, p, to, rc)
    PROVE  CallsPlaced'
BY DEF CallsPlaced, Searched

Servers == Hosts \cup Routers \cup {None}

(* A step of a search that does not connect, and one that does.            *)
LEMMA SearchGoesOn ==
    ASSUME TypeOK, CallsPlaced, NEW c \in Conns, search[c].at \notin {"off", "done"},
           NEW s \in Searches, Searched(c, s), s.at # "off",
           s.at = "done" => s.rc \in {"network", "other"},
           s.at \in {"robin", "load"} => s.routers \in RouterLists,
           UNCHANGED <<pc, result, server>>
    PROVE  CallsPlaced'
<1>1. search[c].at # "off" /\ ~Connected(search[c])
  BY DEF Connected
<1>2. pc[c] \in Calling /\ server[c] = None
  BY <1>1 DEF CallsPlaced, Placed
<1>3. pc[c] \notin {"refresh", "loop", "freeing", "idle"}
  BY <1>2 DEF Calling
<1>4. Placed(s, pc[c], server[c], result[c])
  BY <1>2, <1>3 DEF Placed
<1> QED BY <1>4, CallPlaced

(* A search that connects ends with the connection.                        *)
LEMMA SearchConnects ==
    ASSUME TypeOK, CallsPlaced, NEW c \in Conns, search[c].at \notin {"off", "done"},
           NEW host \in Hosts \cup Routers, NextConnects(c, host),
           UNCHANGED <<pc, result>>
    PROVE  /\ server' \in [Conns -> Servers] /\ CallsPlaced'
           /\ \E s \in Searches : Searched(c, s) /\ s.at = "done"
<1>1. search \in [Conns -> Searches] /\ server \in [Conns -> Servers]
  BY DEF TypeOK, LimitlessTypeOK, Servers
<1>2. "ok" \in Outcomes /\ Answers(c, "ok") /\ server' = [server EXCEPT ![c] = host]
  BY DEF Outcomes, NextConnects
<1>3. PICK s \in Searches :
        Searched(c, s) /\ s = [search[c] EXCEPT !.at = "done", !.rc = "ok"]
  BY <1>1, <1>2, AnswersWith
<1>4. Connected(s) /\ s.at = "done" /\ s.rc = "ok"
  BY <1>1, <1>3 DEF Connected, Searches
<1>5. pc[c] \in Calling
  BY DEF CallsPlaced, Placed
<1>6. pc[c] \notin {"refresh", "loop", "freeing", "idle"}
  BY <1>5 DEF Calling
<1>7. Placed(s, pc[c], host, result[c])
  BY <1>4, <1>5, <1>6 DEF Placed
<1>8. server'[c] = host /\ \A d \in Conns \ {c} : server'[d] = server[d]
  BY <1>1, <1>2
<1>9. CallsPlaced'
  BY <1>3, <1>7, <1>8, CallPlaced
<1>10. server' \in [Conns -> Servers]
  BY <1>1, <1>2 DEF Servers
<1> QED BY <1>3, <1>4, <1>9, <1>10

(* A step of a search that touches neither the monitor nor the rounds.     *)
restVars == <<limitless, enabled, service, monitorVars, callVars, clusterVars, countVars>>
(* The invariant of the other variables.                                   *)
LEMMA SearchAlone ==
    ASSUME TypeOK, RoutingInv, NEW c \in Conns, UNCHANGED <<restVars, round_robin>>,
           NEW s \in Searches, Searched(c, s), s.at # "create",
           server' \in [Conns -> Servers], CallsPlaced'
    PROVE  TypeOK' /\ RoutingInv'
<1>1. search' \in [Conns -> Searches]
  BY DEF Searched
<1>2. TypeOK'
  BY <1>1 DEF TypeOK, LimitlessTypeOK, restVars, monitorVars, callVars, clusterVars,
     countVars, Servers
<1>3. MonitorCounted' /\ MonitorsLocked'
  BY MonitorAlone DEF RoutingInv, restVars, callVars
<1>4. InRounds(round_robin)'
  BY DEF RoutingInv, InRounds
<1> QED BY <1>2, <1>3, <1>4 DEF RoutingInv

(* A step of a search without a connection.                                *)
LEMMA SearchStaysUnconnected ==
    ASSUME TypeOK, RoutingInv, NEW c \in Conns, UNCHANGED <<restVars, round_robin, server>>,
           search[c].at \notin {"off", "done"},
           NEW s \in Searches, Searched(c, s), s.at \notin {"off", "create"},
           s.at = "done" => s.rc \in {"network", "other"},
           s.at \in {"robin", "load"} => s.routers \in RouterLists
    PROVE  TypeOK' /\ RoutingInv'
<1>1. CallsPlaced'
  BY SearchGoesOn DEF RoutingInv, restVars, callVars
<1>2. server' \in [Conns -> Servers]
  BY DEF TypeOK, Servers
<1> QED BY <1>1, <1>2, SearchAlone

(* The plugin is not enabled.                                              *)
LEMMA PassesOnStep ==
    ASSUME TypeOK, RoutingInv, NEW c \in Conns, UNCHANGED restVars, PassesOn(c)
    PROVE  TypeOK' /\ RoutingInv'
<1>1. search \in [Conns -> Searches]
  BY DEF TypeOK, LimitlessTypeOK
<1>2. Goes(c, "direct") /\ "direct" \in Stages /\ search[c].at = "start"
  BY DEF PassesOn, Stages
<1>3. PICK s \in Searches : Searched(c, s) /\ s = [search[c] EXCEPT !.at = "direct"]
  BY <1>1, <1>2, GoesTo
<1>4. s.at = "direct"
  BY <1>1, <1>3 DEF Searches
<1> QED BY <1>2, <1>3, <1>4, SearchStaysUnconnected DEF PassesOn

(* The list of the monitor is taken, or asked for.                         *)
LEMMA TakesListStep ==
    ASSUME TypeOK, RoutingInv, NEW c \in Conns, UNCHANGED restVars, TakesList(c)
    PROVE  TypeOK' /\ RoutingInv'
<1>1. search \in [Conns -> Searches] /\ monitors.routers \in Lists
  BY DEF TypeOK, LimitlessTypeOK, Monitors
<1>2. CASE Goes(c, "query")
  <2>1. PICK s \in Searches : Searched(c, s) /\ s = [search[c] EXCEPT !.at = "query"]
    BY <1>1, <1>2, GoesTo DEF Stages
  <2>2. s.at = "query"
    BY <1>1, <2>1 DEF Searches
  <2> QED BY <2>1, <2>2, SearchStaysUnconnected DEF TakesList
<1>3. CASE monitors.routers # NoRouters /\ Knows(c, monitors.routers)
  <2>1. PICK s \in Searches :
          /\ Searched(c, s)
          /\ s = [search[c] EXCEPT !.at = "robin", !.routers = monitors.routers, !.tries = 0]
    BY <1>1, <1>3, KnowsList
  <2>2. s.at = "robin" /\ s.routers \in RouterLists
    BY <1>1, <1>3, <2>1 DEF Searches, Lists
  <2> QED BY <2>1, <2>2, SearchStaysUnconnected DEF TakesList
<1> QED BY <1>2, <1>3 DEF TakesList

(* The connection asks for the routers itself.                             *)
LEMMA QueriesDirectlyStep ==
    ASSUME TypeOK, RoutingInv, NEW c \in Conns, UNCHANGED restVars, QueriesDirectly(c)
    PROVE  TypeOK' /\ RoutingInv'
<1>1. search \in [Conns -> Searches]
  BY DEF TypeOK, LimitlessTypeOK
<1>2. ASSUME NEW list \in RouterLists, Knows(c, list)
      PROVE  TypeOK' /\ RoutingInv'
  <2>1. PICK s \in Searches :
          /\ Searched(c, s)
          /\ s = [search[c] EXCEPT !.at = "robin", !.routers = list, !.tries = 0]
    BY <1>1, <1>2, KnowsList DEF Lists
  <2>2. s.at = "robin" /\ s.routers \in RouterLists
    BY <1>1, <2>1 DEF Searches
  <2> QED BY <2>1, <2>2, SearchStaysUnconnected DEF QueriesDirectly
<1>3. CASE search' = [search EXCEPT ![c].tries = @ + 1]
  <2>1. PICK s \in Searches : Searched(c, s) /\ s.at = search[c].at
    BY <1>1, <1>3, TriesAgain
  <2>2. s.at = "query"
    BY <2>1 DEF QueriesDirectly
  <2> QED BY <2>1, <2>2, SearchStaysUnconnected DEF QueriesDirectly
<1>4. CASE Answers(c, "network")
  <2>1. PICK s \in Searches :
          Searched(c, s) /\ s = [search[c] EXCEPT !.at = "done", !.rc = "network"]
    BY <1>1, <1>4, AnswersWith DEF Outcomes
  <2>2. s.at = "done" /\ s.rc = "network"
    BY <1>1, <2>1 DEF Searches
  <2> QED BY <2>1, <2>2, SearchStaysUnconnected DEF QueriesDirectly
<1> QED BY <1>2, <1>3, <1>4 DEF QueriesDirectly

(* A router is tried, and marked down if it refuses.                       *)
LEMMA HighestWeightConnectsStep ==
    ASSUME TypeOK, RoutingInv, NEW c \in Conns, UNCHANGED restVars,
           HighestWeightConnects(c)
    PROVE  TypeOK' /\ RoutingInv'
<1>1. search \in [Conns -> Searches] /\ search[c].at = "load"
  BY DEF TypeOK, LimitlessTypeOK, HighestWeightConnects
<1>2. search[c].routers \in RouterLists
  BY <1>1 DEF RoutingInv, CallsPlaced, Placed
<1>3. PICK host \in HighestWeight(search[c].routers, search[c].refused) :
         \/ NextConnects(c, host)
         \/ /\ search' = [search EXCEPT ![c].tries = @ + 1,
                                        ![c].refused = @ \cup {host}]
            /\ UNCHANGED server
  BY DEF HighestWeightConnects
<1>4. host \in Routers
  BY <1>2, WeightsOfList DEF HighestWeight
<1>5. CASE NextConnects(c, host)
  <2>1. /\ server' \in [Conns -> Servers] /\ CallsPlaced'
        /\ \E s \in Searches : Searched(c, s) /\ s.at = "done"
    BY <1>1, <1>4, <1>5, SearchConnects DEF RoutingInv, restVars, callVars
  <2> QED BY <2>1, SearchAlone DEF HighestWeightConnects
<1>6. CASE /\ search' = [search EXCEPT ![c].tries = @ + 1,
                                       ![c].refused = @ \cup {host}]
           /\ UNCHANGED server
  <2>1. PICK s \in Searches :
          Searched(c, s) /\ s.at = search[c].at /\ s.routers = search[c].routers
    <3>1. {host} \in SUBSET Routers
      BY <1>4
    <3> QED BY <1>1, <1>6, <3>1, TriesAgain
  <2> QED
    BY <1>1, <1>2, <1>6, <2>1, SearchStaysUnconnected
       DEF HighestWeightConnects
<1> QED BY <1>3, <1>5, <1>6

(* The search gives up.                                                    *)
LEMMA NoMoreRoutersStep ==
    ASSUME TypeOK, RoutingInv, NEW c \in Conns, UNCHANGED restVars, NoMoreRouters(c)
    PROVE  TypeOK' /\ RoutingInv'
<1>1. search \in [Conns -> Searches]
  BY DEF TypeOK, LimitlessTypeOK
<1>2. PICK s \in Searches :
        Searched(c, s) /\ s = [search[c] EXCEPT !.at = "done", !.rc = "network"]
  BY <1>1, AnswersWith DEF Outcomes, NoMoreRouters
<1>3. s.at = "done" /\ s.rc = "network"
  BY <1>1, <1>2 DEF Searches
<1> QED BY <1>2, <1>3, SearchStaysUnconnected DEF NoMoreRouters

(* The plugin that connects.                                               *)
LEMMA DirectConnectStep ==
    ASSUME TypeOK, RoutingInv, NEW c \in Conns, UNCHANGED restVars,
           NEW hosts \in SUBSET Hosts, DirectConnect(c, hosts)
    PROVE  TypeOK' /\ RoutingInv'
<1>1. search \in [Conns -> Searches] /\ search[c].at = "direct"
  BY DEF TypeOK, LimitlessTypeOK, DirectConnect
<1>2. ASSUME NEW host \in hosts, NextConnects(c, host)
      PROVE  TypeOK' /\ RoutingInv'
  <2>1. /\ server' \in [Conns -> Servers] /\ CallsPlaced'
        /\ \E s \in Searches : Searched(c, s) /\ s.at = "done"
    BY <1>1, <1>2, SearchConnects DEF RoutingInv, restVars, callVars
  <2> QED BY <2>1, SearchAlone DEF DirectConnect
<1>3. ASSUME NEW rc \in {"network", "other"}, Answers(c, rc), UNCHANGED server
      PROVE  TypeOK' /\ RoutingInv'
  <2>1. PICK s \in Searches :
          Searched(c, s) /\ s = [search[c] EXCEPT !.at = "done", !.rc = rc]
    BY <1>1, <1>3, AnswersWith DEF Outcomes
  <2>2. s.at = "done" /\ s.rc = rc
    BY <1>1, <2>1 DEF Searches
  <2> QED BY <1>1, <1>3, <2>1, <2>2, SearchStaysUnconnected DEF DirectConnect
<1> QED BY <1>2, <1>3 DEF DirectConnect

(* The first attempt takes the round robin a turn on.                      *)
LEMMA RoundRobinConnectsStep ==
    ASSUME TypeOK, RoutingInv, NEW c \in Conns, UNCHANGED restVars,
           RoundRobinConnects(c)
    PROVE  TypeOK' /\ RoutingInv'
<1>1. /\ search \in [Conns -> Searches] /\ search[c].at = "robin"
      /\ RoundsType(round_robin) /\ InRounds(round_robin)
  BY DEF TypeOK, LimitlessTypeOK, RoundRobinConnects, RoundsType, RoutingInv
<1>2. search[c].routers \in RouterLists
  BY <1>1 DEF RoutingInv, CallsPlaced, Placed
<1>3. /\ RoundsType(round_robin') /\ InRounds(round_robin')
      /\ round_robin'.last \in Routers
  BY <1>1, <1>2, GetHostInRounds, WeightsOfList DEF RoundRobinConnects
<1>4. ASSUME server' \in [Conns -> Servers], CallsPlaced',
             NEW s \in Searches, Searched(c, s), s.at # "create"
      PROVE  TypeOK' /\ RoutingInv'
  <2>1. search' \in [Conns -> Searches]
    BY <1>4 DEF Searched
  <2>2. TypeOK'
    BY <2>1, <1>3, <1>4
       DEF TypeOK, LimitlessTypeOK, RoundsType, restVars, monitorVars,
       callVars, clusterVars, countVars, Servers
  <2>3. MonitorCounted' /\ MonitorsLocked'
    BY <1>4, MonitorAlone DEF RoutingInv, restVars, callVars
  <2> QED BY <1>3, <1>4, <2>2, <2>3 DEF RoutingInv, InRounds
<1>5. CASE NextConnects(c, round_robin'.last)
  <2>1. /\ server' \in [Conns -> Servers] /\ CallsPlaced'
        /\ \E s \in Searches : Searched(c, s) /\ s.at = "done"
    BY <1>1, <1>3, <1>5, SearchConnects DEF RoutingInv, restVars, callVars
  <2> QED BY <2>1, <1>4
<1>6. CASE Goes(c, "load") /\ UNCHANGED server
  <2>1. PICK s \in Searches : Searched(c, s) /\ s = [search[c] EXCEPT !.at = "load"]
    BY <1>1, <1>6, GoesTo DEF Stages
  <2>2. s.at = "load" /\ s.routers \in RouterLists
    BY <1>1, <1>2, <2>1 DEF Searches
  <2>3. CallsPlaced'
    BY <1>1, <1>6, <2>1, <2>2, SearchGoesOn DEF RoutingInv, restVars, callVars
  <2>4. server' \in [Conns -> Servers]
    BY <1>6 DEF TypeOK, Servers
  <2> QED BY <2>1, <2>2, <2>3, <2>4, <1>4
<1> QED BY <1>5, <1>6 DEF RoundRobinConnects

-----------------------------------------------------------------------------
(* The steps that count.                                                   *)

(* A count that goes up by one is enough for one more.                     *)
LEMMA OneMore ==
    ASSUME NEW S, IsFiniteSet(S), NEW n \in Nat, Cardinality(S) <= n,
           NEW x, NEW T, T \subseteq S \cup {x}
    PROVE  IsFiniteSet(T) /\ Cardinality(T) <= n + 1
<1>1. /\ IsFiniteSet(S \cup {x})
      /\ \/ Cardinality(S \cup {x}) = Cardinality(S)
         \/ Cardinality(S \cup {x}) = Cardinality(S) + 1
  BY FS_AddElement
<1>2. IsFiniteSet(T) /\ Cardinality(T) <= Cardinality(S \cup {x})
  BY <1>1, FS_Subset
<1>3. Cardinality(S) \in Nat /\ Cardinality(T) \in Nat
  BY <1>2, FS_CardinalityType
<1> QED BY <1>1, <1>2, <1>3

(* A count that goes down by one is enough for one less.                   *)
LEMMA OneLess ==
    ASSUME NEW S, IsFiniteSet(S), NEW n \in Nat, Cardinality(S) <= n,
           NEW x \in S, NEW T, T \subseteq S \ {x}
    PROVE  IsFiniteSet(T) /\ Cardinality(T) <= n - 1 /\ n > 0
<1>1. /\ IsFiniteSet(S \ {x})
      /\ Cardinality(S \ {x}) = Cardinality(S) - 1
  BY FS_RemoveElement
<1>2. IsFiniteSet(T) /\ Cardinality(T) <= Cardinality(S \ {x})
  BY <1>1, FS_Subset
<1>3. /\ Cardinality(S) \in Nat /\ Cardinality(T) \in Nat
      /\ Cardinality(S \ {x}) \in Nat
  BY <1>1, <1>2, FS_CardinalityType
<1> QED BY <1>1, <1>2, <1>3

(* A connection counts on the monitor that is there, or takes the lock to  *)
(* create it.                                                              *)
LEMMA StartMonitoringStep ==
    ASSUME TypeOK, RoutingInv, NEW c \in Conns,
           UNCHANGED <<callVars, clusterVars, countVars>>, StartMonitoring(c)
    PROVE  TypeOK' /\ RoutingInv'
<1> USE DEF StartMonitoring
<1>1. /\ search \in [Conns -> Searches] /\ service \in [Conns -> BOOLEAN]
      /\ enabled \in [Conns -> BOOLEAN] /\ server \in [Conns -> Servers]
      /\ monitors \in Monitors /\ monitors.count \in Nat
  BY DEF TypeOK, LimitlessTypeOK, Monitors, Servers
<1>2. PICK s \in Searches : Searched(c, s) /\ s.at \in {"list", "create"}
  <2>1. PICK at \in {"list", "create"} : Goes(c, at)
    OBVIOUS
  <2>2. PICK s \in Searches : Searched(c, s) /\ s = [search[c] EXCEPT !.at = at]
    BY <1>1, <2>1, GoesTo DEF Stages
  <2>3. s.at = at
    BY <1>1, <2>2 DEF Searches
  <2> QED BY <2>2, <2>3
<1>3. CallsPlaced'
  BY <1>2, SearchGoesOn DEF RoutingInv, callVars
<1>4. service' \in [Conns -> BOOLEAN] /\ \A d \in Conns \ {c} : service'[d] = service[d]
  BY <1>1
<1>5. IsFiniteSet(Counting) /\ Cardinality(Counting) <= monitors.count
  BY DEF RoutingInv, MonitorCounted
<1>6. InRounds(round_robin)'
  BY DEF RoutingInv, InRounds
<1>7. /\ search' \in [Conns -> Searches] /\ monitors_lock' \in Conns \cup {None}
      /\ enabled' \in [Conns -> BOOLEAN]
  BY <1>1, <1>2 DEF Searched, TypeOK, LimitlessTypeOK
<1>8. CASE monitors.count > 0
  <2>1. /\ monitors' \in Monitors /\ monitors'.count = monitors.count + 1
        /\ monitors'.thread = monitors.thread
    <3> DEFINE n == monitors.count + 1
    <3>1. n \in Nat /\ monitors' = [monitors EXCEPT !.count = n]
      BY <1>1, <1>8
    <3> HIDE DEF n
    <3>2. /\ monitors' \in Monitors /\ monitors'.count = n
          /\ monitors'.thread = monitors.thread
      BY <1>1, <3>1 DEF Monitors
    <3> QED BY <3>2 DEF n
  <2>2. Counting' \subseteq Counting \cup {c}
    BY <1>4, <1>8 DEF Counting
  <2>3. IsFiniteSet(Counting') /\ Cardinality(Counting') <= monitors.count + 1
    BY <1>1, <1>5, <2>2, OneMore
  <2>4. MonitorCounted'
    BY <1>8, <2>1, <2>3 DEF RoutingInv, MonitorCounted
  <2>5. MonitorsLocked'
    <3>1. search'[c].at = "list"
      <4>1. Goes(c, "list")
        BY <1>8
      <4> QED BY <1>1, <4>1, GoesTo DEF Searched, Searches, Stages
    <3> QED BY <1>2, <1>8, <3>1 DEF RoutingInv, MonitorsLocked, Searched, callVars
  <2>6. TypeOK'
    BY <1>1, <1>4, <1>7, <2>1
       DEF TypeOK, LimitlessTypeOK, callVars, clusterVars, countVars
  <2> QED BY <1>3, <1>6, <2>4, <2>5, <2>6 DEF RoutingInv
<1>9. CASE ~(monitors.count > 0)
  <2>1. monitors_lock' = c /\ monitors' = monitors /\ monitors_lock = None
    BY <1>9
  <2>2. Counting' \subseteq Counting
    BY <1>4, <2>1, NoneAssumption DEF Counting
  <2>3. IsFiniteSet(Counting') /\ Cardinality(Counting') <= Cardinality(Counting)
    BY <1>5, <2>2, FS_Subset
  <2>4. Cardinality(Counting) \in Nat /\ Cardinality(Counting') \in Nat
    BY <1>5, <2>3, FS_CardinalityType
  <2>5. MonitorCounted'
    BY <1>1, <1>5, <1>9, <2>1, <2>3, <2>4 DEF MonitorCounted
  <2>6. MonitorsLocked'
    BY <1>2, <2>1, NoneAssumption DEF RoutingInv, MonitorsLocked, Searched, callVars
  <2>7. TypeOK'
    BY <1>1, <1>4, <1>7, <2>1
       DEF TypeOK, LimitlessTypeOK, callVars, clusterVars, countVars
  <2> QED BY <1>3, <1>6, <2>5, <2>6, <2>7 DEF RoutingInv
<1> QED BY <1>8, <1>9

(* The creator is the only one that counts, as there was no count and it   *)
(* has the lock.                                                           *)
LEMMA CreateMonitorStep ==
    ASSUME TypeOK, RoutingInv, NEW c \in Conns,
           UNCHANGED <<callVars, clusterVars, countVars>>, CreateMonitor(c)
    PROVE  TypeOK' /\ RoutingInv'
<1> USE DEF CreateMonitor
<1>1. search \in [Conns -> Searches] /\ monitors.count \in Nat
  BY DEF TypeOK, LimitlessTypeOK, Monitors
<1>2. PICK s \in Searches : Searched(c, s) /\ s = [search[c] EXCEPT !.at = "list"]
  BY <1>1, GoesTo DEF Stages
<1>3. s.at = "list"
  BY <1>1, <1>2 DEF Searches
<1>4. CallsPlaced'
  BY <1>2, <1>3, SearchGoesOn DEF RoutingInv, callVars
<1>5. PICK list \in Lists :
        monitors' = [count |-> 1, thread |-> "running", routers |-> list]
  BY DEF Lists
<1>6. monitors_lock = c /\ c # None
  BY NoneAssumption DEF RoutingInv, MonitorsLocked
<1>7. IsFiniteSet(Counting) /\ Cardinality(Counting) <= 0
  BY <1>1, <1>6 DEF RoutingInv, MonitorCounted
<1>8. Counting' \subseteq Counting \cup {c}
  BY <1>6 DEF Counting
<1>9. IsFiniteSet(Counting') /\ Cardinality(Counting') <= 1
  <2>1. IsFiniteSet(Counting') /\ Cardinality(Counting') <= 0 + 1
    BY <1>7, <1>8, OneMore
  <2> QED BY <2>1
<1>10. MonitorCounted'
  BY <1>5, <1>9 DEF MonitorCounted
<1>11. MonitorsLocked'
  BY <1>2, <1>3, <1>6 DEF RoutingInv, MonitorsLocked, CallsPlaced, Placed, Calling,
     Searched, callVars
<1>12. TypeOK'
  <2>1. monitors' \in Monitors /\ search' \in [Conns -> Searches]
    BY <1>2, <1>5 DEF Monitors, Searched
  <2> QED BY <2>1 DEF TypeOK, LimitlessTypeOK, callVars, clusterVars, countVars
<1>13. InRounds(round_robin)'
  BY DEF RoutingInv, InRounds
<1> QED BY <1>4, <1>10, <1>11, <1>12, <1>13 DEF RoutingInv

-----------------------------------------------------------------------------
(* The steps of the plugin above.                                          *)

(* The call of c goes to p, with the connection and the result it has.     *)
Moved(c, p, to, rc) ==
    /\ pc' \in [Conns -> Phases] /\ pc'[c] = p
    /\ server' \in [Conns -> Servers] /\ server'[c] = to
    /\ result' \in [Conns -> Outcomes] /\ result'[c] = rc
    /\ \A d \in Conns \ {c} :
          pc'[d] = pc[d] /\ server'[d] = server[d] /\ result'[d] = result[d]

RestTypeOK ==
    /\ limitless \in [Conns -> {"off", "immediate", "lazy"}]
    /\ enabled \in [Conns -> BOOLEAN]
    /\ verify \in [Conns -> Verifications] /\ time_up \in [Conns -> BOOLEAN]
    /\ asked \in [Conns -> Hosts \cup {None}] /\ writer \in Hosts
    /\ topology \in [writers : SUBSET Hosts, readers : SUBSET Hosts]
    /\ calls \in 0 .. MaxCalls /\ failovers \in 0 .. MaxFailovers

(* A step of c that leaves the monitor alone and c where Placed says.      *)
LEMMA RoutingStepSafe ==
    ASSUME TypeOK, RoutingInv, NEW c \in Conns, RestTypeOK',
           NEW s \in Searches, Searched(c, s), s.at # "create",
           NEW p, p # "freeing", NEW to, NEW rc, Moved(c, p, to, rc),
           Placed(s, p, to, rc),
           UNCHANGED <<service, monitorVars, round_robin>>
    PROVE  TypeOK' /\ RoutingInv'
<1>1. CallsPlaced'
  BY CallPlaced DEF RoutingInv, Moved
<1>2. MonitorCounted' /\ MonitorsLocked'
  BY MonitorAlone DEF RoutingInv, Moved
<1>3. InRounds(round_robin)'
  BY DEF RoutingInv, InRounds
<1>4. TypeOK'
  BY DEF TypeOK, LimitlessTypeOK, RestTypeOK, Searched, Moved, Servers, monitorVars
<1> QED BY <1>1, <1>2, <1>3, <1>4 DEF RoutingInv

(* The next plugin is not called elsewhere.                                *)
LEMMA NoCallUnderWay ==
    ASSUME TypeOK, RoutingInv, NEW c \in Conns, pc[c] \notin Calling, UNCHANGED search
    PROVE  search[c] \in Searches /\ Searched(c, search[c]) /\ search[c].at = "off"
BY DEF TypeOK, LimitlessTypeOK, RoutingInv, CallsPlaced, Placed, Searched

(* A call of the next plugin begins.                                       *)
LEMMA NextCalled ==
    ASSUME TypeOK, NEW c \in Conns, NEW then, CallsNext(c, then)
    PROVE  \E s \in Searches : Searched(c, s) /\ s.at = "start" /\ s.rc = "none"
<1> DEFINE s == [NoSearch EXCEPT !.at = "start"]
<1>1. s \in Searches /\ s.at = "start" /\ s.rc = "none"
  BY DEF NoSearch, Searches, Stages, Outcomes, Lists
<1>2. search \in [Conns -> Searches] /\ search' = [search EXCEPT ![c] = s]
  BY DEF TypeOK, LimitlessTypeOK, CallsNext
<1> HIDE DEF s
<1> QED BY <1>1, <1>2, SearchGoes

(* The next plugin has answered, with a connection or without.             *)
LEMMA NextHasAnswered ==
    ASSUME TypeOK, RoutingInv, NEW c \in Conns, NextAnswered(c)
    PROVE  /\ \E s \in Searches : Searched(c, s) /\ s.at = "off"
           /\ pc[c] \in Calling /\ search[c].rc \in Outcomes \ {"none"}
           /\ search[c].rc # "ok" => server[c] = None
<1>1. NoSearch \in Searches /\ NoSearch.at = "off"
  BY DEF NoSearch, Searches, Stages, Outcomes, Lists
<1>2. search \in [Conns -> Searches] /\ search' = [search EXCEPT ![c] = NoSearch]
  BY DEF TypeOK, LimitlessTypeOK, NextAnswered
<1>3. Searched(c, NoSearch)
  BY <1>1, <1>2, SearchGoes
<1>4. search[c].rc \in Outcomes
  BY <1>2 DEF Searches
<1>5. search[c].at = "done"
  BY DEF NextAnswered
<1>6. /\ pc[c] \in Calling /\ search[c].rc # "none"
      /\ (search[c].rc # "ok" => server[c] = None)
  BY <1>5 DEF RoutingInv, CallsPlaced, Placed, Connected
<1> QED BY <1>1, <1>3, <1>4, <1>6

(* A refresh leaves the topology or makes it anew.                         *)
LEMMA Topologies ==
    ASSUME TypeOK, ForceRefreshes
    PROVE  topology' \in [writers : SUBSET Hosts, readers : SUBSET Hosts]
BY DEF TypeOK, ForceRefreshes, Topology

(* The application connects.                                               *)
LEMMA ConnectTaken ==
    ASSUME TypeOK, RoutingInv, NEW c \in Conns, Connect(c)
    PROVE  TypeOK' /\ RoutingInv'
<1>1. pc[c] = "idle" /\ pc[c] \notin Calling /\ server[c] = None
  BY DEF Connect, Calling
<1>2. RestTypeOK'
  BY BoundsAssumption DEF Connect, TypeOK, LimitlessTypeOK, RestTypeOK, clusterVars
<1>3. ASSUME NEW p \in Phases, Moves(c, p)
      PROVE  Moved(c, p, None, "none")
  BY <1>1, <1>3 DEF Connect, Moves, Moved, TypeOK, Servers, Outcomes
<1>4. CASE verify[c] = "none"
  <2>1. CallsNext(c, "as_it_is")
    BY <1>4 DEF Connect
  <2>2. PICK s \in Searches : Searched(c, s) /\ s.at = "start"
    BY <2>1, NextCalled
  <2>3. Moved(c, "as_it_is", None, "none")
    BY <1>3, <2>1 DEF CallsNext, Phases
  <2>4. Placed(s, "as_it_is", None, "none")
    BY <2>2 DEF Placed, Calling
  <2> QED BY <1>2, <2>2, <2>3, <2>4, RoutingStepSafe DEF Connect
<1>5. CASE verify[c] # "none"
  <2>1. PICK p \in {"refresh", "loop"} : Moves(c, p)
    BY <1>5 DEF Connect
  <2>2. search[c] \in Searches /\ Searched(c, search[c]) /\ search[c].at = "off"
    BY <1>1, <1>5, NoCallUnderWay DEF Connect
  <2>3. Moved(c, p, None, "none")
    BY <1>3, <2>1 DEF Phases
  <2>4. Placed(search[c], p, None, "none")
    BY <2>2 DEF Placed, Calling
  <2> QED BY <1>2, <2>2, <2>3, <2>4, RoutingStepSafe DEF Connect
<1> QED BY <1>4, <1>5

(* The topology is asked for before the loop.                              *)
LEMMA ForceRefreshHostsTaken ==
    ASSUME TypeOK, RoutingInv, NEW c \in Conns, ForceRefreshHosts(c)
    PROVE  TypeOK' /\ RoutingInv'
<1> USE DEF ForceRefreshHosts, Unrouted, otherVars, countVars
<1>1. pc[c] = "refresh" /\ pc[c] \notin Calling
  BY DEF Calling
<1>2. server[c] = None
  BY <1>1 DEF RoutingInv, CallsPlaced, Placed
<1>3. search[c] \in Searches /\ Searched(c, search[c]) /\ search[c].at = "off"
  BY <1>1, NoCallUnderWay
<1>4. RestTypeOK'
  BY Topologies DEF TypeOK, LimitlessTypeOK, RestTypeOK
<1>5. Moved(c, "loop", None, result[c])
  BY <1>2 DEF Moves, Moved, TypeOK, Servers, Phases
<1>6. Placed(search[c], "loop", None, result[c])
  BY <1>3 DEF Placed, Calling
<1> QED BY <1>3, <1>4, <1>5, <1>6, RoutingStepSafe

(* A turn of the loop calls the next plugin, whichever way.                *)
LEMMA TurnTaken ==
    ASSUME TypeOK, RoutingInv, NEW c \in Conns, pc[c] = "loop", NEW p \in Calling,
           CallsNext(c, p), asked' \in [Conns -> Hosts \cup {None}],
           UNCHANGED <<otherVars, server, result, clusterVars>>
    PROVE  TypeOK' /\ RoutingInv'
<1>1. PICK s \in Searches : Searched(c, s) /\ s.at = "start"
  BY NextCalled
<1>2. server[c] = None
  BY DEF RoutingInv, CallsPlaced, Placed
<1>3. RestTypeOK'
  BY DEF TypeOK, LimitlessTypeOK, RestTypeOK, otherVars, countVars, clusterVars
<1>4. Moved(c, p, None, result[c])
  BY <1>2 DEF CallsNext, Moves, Moved, TypeOK, Servers, Phases, Calling
<1>5. Placed(s, p, None, result[c])
  BY <1>1 DEF Placed, Calling
<1>6. p # "freeing"
  BY DEF Calling
<1> QED BY <1>1, <1>3, <1>4, <1>5, <1>6, RoutingStepSafe DEF otherVars

(* The turns of the loop, by what is tried.                                *)
LEMMA TurnsTaken ==
    ASSUME TypeOK, RoutingInv, NEW c \in Conns,
           TriesCandidate(c) \/ TriesEndpoint(c) \/ GivesUp(c)
    PROVE  TypeOK' /\ RoutingInv'
<1>1. topology.writers \subseteq Hosts /\ topology.readers \subseteq Hosts
  BY DEF TypeOK
<1>2. asked \in [Conns -> Hosts \cup {None}]
  BY DEF TypeOK
<1>3. CASE TriesCandidate(c)
  <2>1. asked' \in [Conns -> Hosts \cup {None}]
    BY <1>1, <1>2, <1>3 DEF TriesCandidate, Candidates
  <2> QED BY <1>3, <2>1, TurnTaken DEF TriesCandidate, Calling
<1>4. CASE TriesEndpoint(c)
  BY <1>2, <1>4, TurnTaken DEF TriesEndpoint, Calling
<1>5. CASE GivesUp(c)
  BY <1>2, <1>5, TurnTaken DEF GivesUp, Calling
<1> QED BY <1>3, <1>4, <1>5

(* A connection that needs no check is returned, or the error.             *)
LEMMA ReturnsUnverifiedTaken ==
    ASSUME TypeOK, RoutingInv, NEW c \in Conns, ReturnsUnverified(c)
    PROVE  TypeOK' /\ RoutingInv'
<1> USE DEF ReturnsUnverified, otherVars, countVars, clusterVars
<1>1. PICK s \in Searches : Searched(c, s) /\ s.at = "off"
  BY NextHasAnswered
<1>2. search[c].rc \in Outcomes /\ (search[c].rc # "ok" => server[c] = None)
  BY NextHasAnswered
<1>3. RestTypeOK'
  BY DEF TypeOK, LimitlessTypeOK, RestTypeOK
<1>4. Moved(c, "idle", server[c], search[c].rc)
  BY <1>2 DEF Returns, Moves, Moved, TypeOK, Servers, Phases
<1>5. Placed(s, "idle", server[c], search[c].rc)
  BY <1>1, <1>2 DEF Placed, Calling
<1> QED BY <1>1, <1>3, <1>4, <1>5, RoutingStepSafe

(* An attempt that fails leaves no connection.                             *)
LEMMA AttemptFailsTaken ==
    ASSUME TypeOK, RoutingInv, NEW c \in Conns, AttemptFails(c)
    PROVE  TypeOK' /\ RoutingInv'
<1> USE DEF AttemptFails, otherVars, countVars, clusterVars
<1>1. PICK s \in Searches : Searched(c, s) /\ s.at = "off"
  BY NextHasAnswered
<1>2. search[c].rc \in Outcomes
  BY NextHasAnswered
<1>3. RestTypeOK'
  BY DEF TypeOK, LimitlessTypeOK, RestTypeOK
<1>4. CASE search[c].rc = "network"
  <2>1. Moved(c, "loop", None, result[c])
    BY <1>4 DEF Disconnect, Moves, Moved, TypeOK, Servers, Phases
  <2>2. Placed(s, "loop", None, result[c])
    BY <1>1 DEF Placed, Calling
  <2> QED BY <1>1, <1>3, <2>1, <2>2, RoutingStepSafe
<1>5. CASE search[c].rc # "network"
  <2>1. Moved(c, "idle", None, search[c].rc)
    BY <1>2, <1>5 DEF Disconnect, Returns, Moves, Moved, TypeOK, Servers, Phases
  <2>2. Placed(s, "idle", None, search[c].rc)
    BY <1>1 DEF Placed, Calling
  <2> QED BY <1>1, <1>3, <2>1, <2>2, RoutingStepSafe
<1> QED BY <1>4, <1>5

(* A connection whose role is asked for.                                   *)
LEMMA VerifiesTaken ==
    ASSUME TypeOK, RoutingInv, NEW c \in Conns, Verifies(c)
    PROVE  TypeOK' /\ RoutingInv'
<1> USE DEF Verifies, otherVars, countVars, clusterVars
<1>1. PICK s \in Searches : Searched(c, s) /\ s.at = "off"
  BY NextHasAnswered
<1>2. RestTypeOK'
  <2>1. topology' \in [writers : SUBSET Hosts, readers : SUBSET Hosts]
    BY Topologies DEF TypeOK
  <2> QED BY <2>1 DEF TypeOK, LimitlessTypeOK, RestTypeOK
<1>3. PICK p \in {"info", "role"} : Moves(c, p)
  OBVIOUS
<1>4. Moved(c, p, server[c], result[c])
  BY <1>3 DEF Moves, Moved, TypeOK, Servers, Phases
<1>5. Placed(s, p, server[c], result[c])
  BY <1>1 DEF Placed, Calling
<1> QED BY <1>1, <1>2, <1>3, <1>4, <1>5, RoutingStepSafe

(* A role that was looked at is accepted or refused.                       *)
LEMMA RoleTaken ==
    ASSUME TypeOK, RoutingInv, NEW c \in Conns, pc[c] \in {"info", "role", "recheck"},
           \/ Accepts(c) \/ Refuses(c)
           \/ Moves(c, "recheck") /\ UNCHANGED <<server, result>>,
           topology' \in [writers : SUBSET Hosts, readers : SUBSET Hosts],
           UNCHANGED <<otherVars, asked, search, writer>>
    PROVE  TypeOK' /\ RoutingInv'
<1> USE DEF otherVars, countVars
<1>1. search[c] \in Searches /\ Searched(c, search[c]) /\ search[c].at = "off"
  BY NoCallUnderWay DEF Calling
<1>2. RestTypeOK'
  BY DEF TypeOK, LimitlessTypeOK, RestTypeOK
<1>3. CASE Accepts(c)
  <2>1. Moved(c, "idle", server[c], "ok")
    BY <1>3 DEF Accepts, Returns, Moves, Moved, TypeOK, Servers, Phases, Outcomes
  <2>2. Placed(search[c], "idle", server[c], "ok")
    BY <1>1 DEF Placed, Calling
  <2> QED BY <1>1, <1>2, <2>1, <2>2, RoutingStepSafe
<1>4. CASE Refuses(c)
  <2>1. Moved(c, "loop", None, result[c])
    BY <1>4 DEF Refuses, Disconnect, Moves, Moved, TypeOK, Servers, Phases
  <2>2. Placed(search[c], "loop", None, result[c])
    BY <1>1 DEF Placed, Calling
  <2> QED BY <1>1, <1>2, <2>1, <2>2, RoutingStepSafe
<1>5. CASE Moves(c, "recheck") /\ UNCHANGED <<server, result>>
  <2>1. Moved(c, "recheck", server[c], result[c])
    BY <1>5 DEF Moves, Moved, TypeOK, Servers, Phases
  <2>2. Placed(search[c], "recheck", server[c], result[c])
    BY <1>1 DEF Placed, Calling
  <2> QED BY <1>1, <1>2, <2>1, <2>2, RoutingStepSafe
<1> QED BY <1>3, <1>4, <1>5

(* The three ways to ask for a role.                                       *)
LEMMA RolesTaken ==
    ASSUME TypeOK, RoutingInv, NEW c \in Conns,
           GetConnectionInfo(c) \/ GetConnectionRole(c) \/ RechecksTopology(c)
    PROVE  TypeOK' /\ RoutingInv'
<1>1. topology \in [writers : SUBSET Hosts, readers : SUBSET Hosts]
  BY DEF TypeOK
<1>2. CASE GetConnectionInfo(c)
  BY <1>1, <1>2, RoleTaken DEF GetConnectionInfo, clusterVars
<1>3. CASE GetConnectionRole(c)
  BY <1>1, <1>3, RoleTaken, Topologies DEF GetConnectionRole
<1>4. CASE RechecksTopology(c)
  BY <1>1, <1>4, RoleTaken DEF RechecksTopology, clusterVars
<1> QED BY <1>2, <1>3, <1>4

(* The application disconnects.                                            *)
LEMMA SQLDisconnectTaken ==
    ASSUME TypeOK, RoutingInv, NEW c \in Conns, SQLDisconnect(c)
    PROVE  TypeOK' /\ RoutingInv'
<1> USE DEF SQLDisconnect, otherVars, countVars, clusterVars
<1>1. pc[c] = "idle" /\ pc[c] \notin Calling
  BY DEF Calling
<1>2. search[c] \in Searches /\ Searched(c, search[c]) /\ search[c].at = "off"
  BY <1>1, NoCallUnderWay
<1>3. RestTypeOK'
  BY DEF TypeOK, LimitlessTypeOK, RestTypeOK
<1>4. Moved(c, "idle", None, result[c])
  BY <1>1 DEF Disconnect, Moved, TypeOK, Servers
<1>5. Placed(search[c], "idle", None, result[c])
  BY <1>2 DEF Placed, Calling
<1> QED BY <1>2, <1>3, <1>4, <1>5, RoutingStepSafe

(* No call moves.                                                          *)
LEMMA NoCallMoves ==
    ASSUME TypeOK, RoutingInv, RestTypeOK',
           UNCHANGED <<limitlessVars, pc, result>>
    PROVE  TypeOK' /\ RoutingInv'
<1> USE DEF limitlessVars
<1>1. TypeOK'
  BY DEF TypeOK, LimitlessTypeOK, RestTypeOK
<1>2. MonitorCounted' /\ MonitorsLocked' /\ CallsPlaced' /\ InRounds(round_robin)'
  BY DEF RoutingInv, MonitorCounted, Counting, MonitorsLocked, CallsPlaced, InRounds
<1> QED BY <1>1, <1>2 DEF RoutingInv

(* The cluster, the clock and the monitor of the topology.                 *)
LEMMA ClusterChanges ==
    ASSUME TypeOK, RoutingInv,
           FailsOver \/ TopologyUpdated \/ \E c \in Conns : TimePasses(c)
    PROVE  TypeOK' /\ RoutingInv'
<1> USE DEF limitlessVars, callVars, clusterVars, countVars
<1>1. RestTypeOK'
  <2>1. CASE FailsOver
    BY <2>1, BoundsAssumption DEF FailsOver, TypeOK, LimitlessTypeOK, RestTypeOK
  <2>2. CASE TopologyUpdated
    BY <2>2 DEF TopologyUpdated, Topology, TypeOK, LimitlessTypeOK, RestTypeOK
  <2>3. ASSUME NEW c \in Conns, TimePasses(c)
        PROVE  RestTypeOK'
    BY <2>3 DEF TimePasses, TypeOK, LimitlessTypeOK, RestTypeOK
  <2> QED BY <2>1, <2>2, <2>3
<1> QED BY <1>1, NoCallMoves DEF FailsOver, TopologyUpdated, TimePasses, callVars

(* The monitor queries or ends, the entry of the round robin expires: it   *)
(* ends only when nobody counts on it.                                     *)
LEMMA MonitorOrCacheChanges ==
    ASSUME TypeOK, RoutingInv, MonitorRuns \/ MonitorEnds \/ CacheExpires,
           UNCHANGED <<callVars, clusterVars, countVars>>
    PROVE  TypeOK' /\ RoutingInv'
<1> USE DEF callVars, clusterVars, countVars
<1>1. monitors \in Monitors
  BY DEF TypeOK, LimitlessTypeOK
<1>2. CASE MonitorRuns
  <2>1. PICK list \in Lists : monitors' = [monitors EXCEPT !.routers = list]
    BY <1>2 DEF MonitorRuns, Lists
  <2>2. /\ monitors' \in Monitors /\ monitors'.count = monitors.count
        /\ monitors'.thread = monitors.thread
    BY <1>1, <2>1 DEF Monitors
  <2>3. TypeOK'
    BY <1>2, <2>2 DEF MonitorRuns, TypeOK, LimitlessTypeOK
  <2>4. MonitorCounted' /\ MonitorsLocked' /\ CallsPlaced' /\ InRounds(round_robin)'
    BY <1>2, <2>2
       DEF MonitorRuns, RoutingInv, MonitorCounted, Counting, MonitorsLocked,
       CallsPlaced, InRounds
  <2> QED BY <2>3, <2>4 DEF RoutingInv
<1>3. CASE MonitorEnds
  <2>1. /\ monitors' \in Monitors /\ monitors'.count = monitors.count
        /\ monitors'.thread = "none"
    BY <1>1, <1>3 DEF MonitorEnds, Monitors
  <2>2. ~(monitors.count > 0)
    BY <1>3 DEF MonitorEnds, RoutingInv, MonitorCounted
  <2>3. TypeOK'
    BY <1>3, <2>1 DEF MonitorEnds, TypeOK, LimitlessTypeOK
  <2>4. MonitorCounted' /\ MonitorsLocked' /\ CallsPlaced' /\ InRounds(round_robin)'
    BY <1>3, <2>1, <2>2 DEF MonitorEnds, RoutingInv, MonitorCounted, Counting,
       MonitorsLocked, CallsPlaced, InRounds
  <2> QED BY <2>3, <2>4 DEF RoutingInv
<1>4. CASE CacheExpires
  <2>1. RoundsType(NoRounds) /\ InRounds(NoRounds)
    BY DEF RoundsType, InRounds, NoRounds, NoRouters, Lists
  <2>2. TypeOK'
    BY <1>4, <2>1 DEF CacheExpires, TypeOK, LimitlessTypeOK, RoundsType, monitorVars
  <2>3. MonitorCounted' /\ MonitorsLocked' /\ CallsPlaced' /\ InRounds(round_robin)'
    BY <1>4, <2>1 DEF CacheExpires, RoutingInv, MonitorCounted, Counting,
       MonitorsLocked, CallsPlaced, InRounds, monitorVars
  <2> QED BY <2>2, <2>3 DEF RoutingInv
<1> QED BY <1>2, <1>3, <1>4

(* The destructor of the plugin: the call is nowhere before and after.     *)
LEMMA FreeConnectTaken ==
    ASSUME TypeOK, RoutingInv, NEW c \in Conns, FreeConnect(c)
    PROVE  TypeOK' /\ RoutingInv'
<1> USE DEF FreeConnect, countVars, clusterVars
<1>1. /\ monitors \in Monitors /\ monitors.count \in Nat
      /\ service \in [Conns -> BOOLEAN] /\ pc \in [Conns -> Phases]
  BY DEF TypeOK, LimitlessTypeOK, Monitors
<1>2. /\ IsFiniteSet(Counting) /\ Cardinality(Counting) <= monitors.count
      /\ monitors_lock = None /\ c \in Counting
  BY NoneAssumption DEF RoutingInv, MonitorCounted, Counting, StopsMonitor, Uncounts
<1>3. InRounds(round_robin)'
  BY DEF RoutingInv, InRounds
<1>4. CASE StopsMonitor(c) /\ Moves(c, "freeing")
  <2>1. /\ monitors' \in Monitors /\ monitors'.count = 0
    BY <1>4 DEF StopsMonitor, NoMonitor, Monitors, Lists
  <2>2. /\ pc' \in [Conns -> Phases] /\ pc'[c] = "freeing"
        /\ \A d \in Conns \ {c} : pc'[d] = pc[d]
    BY <1>1, <1>4 DEF Moves, Phases
  <2>3. Counting' \subseteq Counting \ {c}
    BY <1>2, <1>4, NoneAssumption DEF StopsMonitor, Counting
  <2>4. IsFiniteSet(Counting') /\ Cardinality(Counting') <= 0
    <3>1. /\ IsFiniteSet(Counting')
          /\ Cardinality(Counting') <= monitors.count - 1
      BY <1>1, <1>2, <2>3, OneLess
    <3> QED BY <1>4, <3>1 DEF StopsMonitor
  <2>5. MonitorCounted'
    BY <2>1, <2>4 DEF MonitorCounted
  <2>6. MonitorsLocked'
    BY <1>2, <1>4, <2>2, NoneAssumption DEF RoutingInv, MonitorsLocked, StopsMonitor
  <2>7. CallsPlaced'
    <3>1. Placed(search[c], "freeing", None, result[c])
      BY DEF RoutingInv, CallsPlaced, Placed, Calling
    <3> QED BY <2>2, <3>1 DEF RoutingInv, CallsPlaced
  <2>8. TypeOK'
    BY <1>4, <2>1, <2>2 DEF StopsMonitor, TypeOK, LimitlessTypeOK
  <2> QED BY <1>3, <2>5, <2>6, <2>7, <2>8 DEF RoutingInv
<1>5. CASE Uncounts(c) /\ UNCHANGED pc
  <2>1. /\ monitors' \in Monitors /\ monitors'.count = monitors.count - 1
        /\ monitors'.thread = monitors.thread
    <3> DEFINE n == monitors.count - 1
    <3>1. n \in Nat /\ monitors' = [monitors EXCEPT !.count = n]
      BY <1>1, <1>5 DEF Uncounts
    <3> HIDE DEF n
    <3>2. /\ monitors' \in Monitors /\ monitors'.count = n
          /\ monitors'.thread = monitors.thread
      BY <1>1, <3>1 DEF Monitors
    <3> QED BY <3>2 DEF n
  <2>2. service' \in [Conns -> BOOLEAN] /\ Counting' \subseteq Counting \ {c}
    BY <1>1, <1>5 DEF Uncounts, Counting
  <2>3. IsFiniteSet(Counting') /\ Cardinality(Counting') <= monitors.count - 1
    BY <1>1, <1>2, <2>2, OneLess
  <2>4. MonitorCounted'
    <3>1. monitors.count > 0 /\ monitors_lock' = None
      BY <1>1, <1>2, <1>5 DEF Uncounts
    <3>2. monitors'.thread = "running"
      BY <2>1, <3>1 DEF RoutingInv, MonitorCounted
    <3> QED BY <2>1, <2>3, <3>1, <3>2 DEF MonitorCounted
  <2>5. MonitorsLocked' /\ CallsPlaced'
    BY <1>5 DEF RoutingInv, MonitorsLocked, CallsPlaced, Uncounts
  <2>6. TypeOK'
    BY <1>5, <2>1, <2>2 DEF Uncounts, TypeOK, LimitlessTypeOK
  <2> QED BY <1>3, <2>4, <2>5, <2>6 DEF RoutingInv
<1> QED BY <1>4, <1>5

(* The thread of the monitor is joined.                                    *)
LEMMA FreedTaken ==
    ASSUME TypeOK, RoutingInv, NEW c \in Conns, Freed(c)
    PROVE  TypeOK' /\ RoutingInv'
<1> USE DEF Freed, countVars, clusterVars
<1>1. /\ service \in [Conns -> BOOLEAN] /\ pc \in [Conns -> Phases]
      /\ monitors.count \in Nat
  BY DEF TypeOK, LimitlessTypeOK, Monitors
<1>2. monitors_lock = c /\ c # None /\ monitors_lock' = None
  BY NoneAssumption DEF Joined
<1>3. /\ pc' \in [Conns -> Phases] /\ pc'[c] = "idle"
      /\ \A d \in Conns \ {c} : pc'[d] = pc[d]
  BY <1>1 DEF Moves, Phases
<1>4. service' \in [Conns -> BOOLEAN] /\ Counting' \subseteq Counting
  BY <1>1, <1>2 DEF Joined, Counting
<1>5. MonitorCounted'
  <2>1. IsFiniteSet(Counting) /\ Cardinality(Counting) <= monitors.count
    BY DEF RoutingInv, MonitorCounted
  <2>2. IsFiniteSet(Counting') /\ Cardinality(Counting') <= Cardinality(Counting)
    BY <1>4, <2>1, FS_Subset
  <2>3. Cardinality(Counting) \in Nat /\ Cardinality(Counting') \in Nat
    BY <2>1, <2>2, FS_CardinalityType
  <2>4. monitors' = monitors /\ ~(monitors.count > 0)
    BY <1>2 DEF Joined, RoutingInv, MonitorCounted
  <2> QED BY <1>1, <2>1, <2>2, <2>3, <2>4 DEF MonitorCounted
<1>6. search[c].at = "off" /\ server[c] = None
  BY DEF RoutingInv, CallsPlaced, Placed, Calling
<1>7. MonitorsLocked'
  BY <1>2, <1>3, <1>6 DEF RoutingInv, MonitorsLocked
<1>8. CallsPlaced'
  <2>1. Placed(search[c], "idle", server[c], result[c])
    BY <1>6 DEF Placed, Calling
  <2> QED BY <1>3, <2>1 DEF RoutingInv, CallsPlaced
<1>9. TypeOK'
  BY <1>2, <1>3, <1>4 DEF Joined, TypeOK, LimitlessTypeOK
<1>10. InRounds(round_robin)'
  BY DEF RoutingInv, InRounds
<1> QED BY <1>5, <1>7, <1>8, <1>9, <1>10 DEF RoutingInv

-----------------------------------------------------------------------------
(* The theorems.                                                           *)

(* The invariant holds at the start,                                       *)
LEMMA RoutingStarts == Init => TypeOK /\ RoutingInv
<1> SUFFICES ASSUME Init
             PROVE  TypeOK /\ RoutingInv
  OBVIOUS
<1> USE DEF Init, LimitlessInit
<1>1. NoSearch \in Searches /\ NoMonitor \in Monitors /\ NoSearch.at = "off"
      /\ NoMonitor.count = 0
  BY DEF NoSearch, NoMonitor, Searches, Monitors, Stages, Outcomes, Lists
<1>2. RoundsType(NoRounds) /\ InRounds(NoRounds)
  BY DEF RoundsType, InRounds, NoRounds, NoRouters, Lists
<1>3. limitless \in [Conns -> {"off", "immediate", "lazy"}]
      /\ verify \in [Conns -> Verifications]
  BY SetupsAssumption
<1>4. TypeOK
  BY <1>1, <1>2, <1>3, BoundsAssumption
     DEF TypeOK, LimitlessTypeOK, RoundsType, Phases,
     Outcomes, NoTopology
<1>5. Counting = {}
  BY DEF Counting
<1>6. MonitorCounted
  BY <1>1, <1>5, FS_EmptySet DEF MonitorCounted
<1>7. MonitorsLocked /\ CallsPlaced
  BY <1>1 DEF MonitorsLocked, CallsPlaced, Placed, Calling
<1> QED BY <1>2, <1>4, <1>6, <1>7 DEF RoutingInv

(* is kept by each step of a call,                                         *)
LEMMA RoutingStepTaken ==
    ASSUME TypeOK, RoutingInv, NEW c \in Conns, RoutingStep(c)
    PROVE  TypeOK' /\ RoutingInv'
<1>1. CASE EstablishConnection(c) /\ UNCHANGED <<callVars, clusterVars, countVars>>
  <2>1. CASE StartMonitoring(c) \/ CreateMonitor(c)
    BY <1>1, <2>1, StartMonitoringStep, CreateMonitorStep
  <2>2. CASE ~(StartMonitoring(c) \/ CreateMonitor(c))
    <3>1. UNCHANGED restVars
      BY <1>1, <2>2 DEF EstablishConnection, PassesOn, TakesList, QueriesDirectly,
         RoundRobinConnects, HighestWeightConnects, NoMoreRouters, restVars
    <3> QED BY <1>1, <2>2, <3>1, PassesOnStep, TakesListStep, QueriesDirectlyStep,
            RoundRobinConnectsStep, HighestWeightConnectsStep, NoMoreRoutersStep
            DEF EstablishConnection
  <2> QED BY <2>1, <2>2
<1>2. CASE /\ DirectConnect(c, Reachable(c))
           /\ UNCHANGED <<callVars, clusterVars, countVars>>
  <2>1. Reachable(c) \in SUBSET Hosts
    BY DEF Reachable, TypeOK
  <2>2. UNCHANGED restVars
    BY <1>2 DEF DirectConnect, restVars
  <2> QED BY <1>2, <2>1, <2>2, DirectConnectStep
<1>3. CASE ForceRefreshHosts(c) \/ TriesCandidate(c) \/ TriesEndpoint(c) \/ GivesUp(c)
  BY <1>3, ForceRefreshHostsTaken, TurnsTaken
<1>4. CASE ReturnsUnverified(c) \/ AttemptFails(c) \/ Verifies(c)
  BY <1>4, ReturnsUnverifiedTaken, AttemptFailsTaken, VerifiesTaken
<1>5. CASE GetConnectionInfo(c) \/ GetConnectionRole(c) \/ RechecksTopology(c)
  BY <1>5, RolesTaken
<1> QED BY <1>1, <1>2, <1>3, <1>4, <1>5 DEF RoutingStep

(* and by each step.                                                       *)
LEMMA RoutingGoesOn == TypeOK /\ RoutingInv /\ [Next]_vars => TypeOK' /\ RoutingInv'
<1> SUFFICES ASSUME TypeOK, RoutingInv, [Next]_vars
             PROVE  TypeOK' /\ RoutingInv'
  OBVIOUS
<1>1. ASSUME NEW c \in Conns,
             \/ Connect(c) \/ RoutingStep(c) \/ TimePasses(c)
             \/ SQLDisconnect(c) \/ FreeConnect(c) \/ Freed(c)
      PROVE  TypeOK' /\ RoutingInv'
  BY <1>1, ConnectTaken, RoutingStepTaken, ClusterChanges, SQLDisconnectTaken,
     FreeConnectTaken, FreedTaken
<1>2. CASE /\ MonitorRuns \/ MonitorEnds \/ CacheExpires
           /\ UNCHANGED <<callVars, clusterVars, countVars>>
  BY <1>2, MonitorOrCacheChanges
<1>3. CASE FailsOver \/ TopologyUpdated
  BY <1>3, ClusterChanges
<1>4. CASE UNCHANGED vars
  <2>1. RestTypeOK' /\ UNCHANGED <<limitlessVars, pc, result>>
    BY <1>4 DEF vars, limitlessVars, callVars, clusterVars, countVars, TypeOK,
       LimitlessTypeOK, RestTypeOK
  <2> QED BY <2>1, NoCallMoves
<1> QED BY <1>1, <1>2, <1>3, <1>4 DEF Next

(* The inductive invariant.                                                *)
THEOREM RoutingInvariant == Spec => [](TypeOK /\ RoutingInv)
BY RoutingStarts, RoutingGoesOn, PTL DEF Spec

(* Every field of the connections, the monitor and the round robin keeps a *)
(* value of its declaration.                                               *)
THEOREM TypeCorrect == Spec => []TypeOK
BY RoutingInvariant, PTL

(* No attempt starts while the connection of the one before is open, and a *)
(* call that fails leaves none (GetVerifiedWriter, GetVerifiedReader).     *)
THEOREM AttemptsClosed == Spec => []NoConnectionLeft
<1>1. TypeOK /\ RoutingInv => NoConnectionLeft
  <2> SUFFICES ASSUME TypeOK, RoutingInv, NEW c \in Conns
               PROVE  /\ pc[c] \in {"refresh", "loop"} \/ search[c].at = "start" =>
                            server[c] = None
                      /\ pc[c] = "idle" /\ result[c] \in {"network", "other"} =>
                            server[c] = None
    BY DEF NoConnectionLeft
  <2>1. Placed(search[c], pc[c], server[c], result[c])
    BY DEF RoutingInv, CallsPlaced
  <2> QED BY <2>1 DEF Placed, Connected
<1> QED BY <1>1, RoutingInvariant, PTL

(* While a service counts on the monitor of the routers, it runs, however  *)
(* the connections come and go (StartMonitoring, ~LimitlessRouterService). *)
THEOREM MonitorKept == Spec => []MonitorForEveryService
<1>1. TypeOK /\ RoutingInv => MonitorForEveryService
  <2> SUFFICES ASSUME TypeOK, RoutingInv, NEW c \in Conns, service[c], monitors_lock # c
               PROVE  monitors.thread = "running"
    BY DEF MonitorForEveryService
  <2>1. /\ c \in Counting /\ monitors.count \in Nat
        /\ IsFiniteSet(Counting) /\ Cardinality(Counting) <= monitors.count
    BY DEF Counting, RoutingInv, MonitorCounted, TypeOK, LimitlessTypeOK, Monitors
  <2>2. monitors.count > 0
    BY <2>1, OneLess
  <2> QED BY <2>2 DEF RoutingInv, MonitorCounted
<1> QED BY <1>1, RoutingInvariant, PTL

(* The round robin picks no router more than a round more often than       *)
(* another while the routers, their weights and the order of their rows    *)
(* stay as they are (RoundRobinHostSelector).                              *)
THEOREM RoundsFair == Spec => []RoundRobinIsFair
<1>1. TypeOK /\ RoutingInv => RoundRobinIsFair
  BY FairRounds
     DEF RoundRobinIsFair, RoutingInv, TypeOK, LimitlessTypeOK, RoundsType
<1> QED BY <1>1, RoutingInvariant, PTL
===============================================================================
