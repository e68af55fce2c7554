-------------------------- MODULE StatusPageProofs --------------------------
(***************************************************************************)
(* What a public status page keeps, for any visitors, reports and bounds:  *)
(* the daily budget of row reads, up to a reservation that sets the day    *)
(* back, and the password (PublicPage); the reports it shows and their     *)
(* counts (IncidentReports).                                               *)
(*                                                                         *)
(* Budget: the counter of its row is what the requests of its day have     *)
(* spent, and nothing has been spent on a later day.  Password: a token a  *)
(* browser holds lives no longer than AccessTtl after its password was     *)
(* shown.  Counts: what the triggers keep is what is linked.               *)
(***************************************************************************)
EXTENDS PublicPage, IncidentReports, FiniteSetTheorems, TLAPS

PublicDays == {PublicDayOf(t) : t \in Hours}

VisitPlaces == {"idle", "limiting", "authorizing", "base", "counting", "feed",
           "analytics", "incidents", "updates", "unauthorized"}

VisitRequest == [pc: VisitPlaces, kind: {"page", "monitor"},
            shows: {"nothing", "access", "password"},
            secret: Versions, day: PublicDays, found: Nat]

Visit == [browser: Browser, req: VisitRequest]

\* The types the arguments below need.
PageShape ==
  /\ hour \in Hours /\ password \in Versions /\ links \in Nat
  /\ quota \in [day: PublicDays, used: Nat]
  /\ visit \in [Visitors -> Visit]
  /\ spent \in [PublicDays -> Nat]
  /\ setBack \in {0, 1}
  /\ proved \in [Visitors -> [Versions -> Int]]

\* The row knows what its day has spent, unless the day was set back.
RowIsSpent ==
  setBack = 0 =>
    /\ quota.used = spent[quota.day]
    /\ \A d \in PublicDays : d > quota.day => spent[d] = 0
    /\ \A d \in PublicDays : spent[d] <= ReadBudget

\* A token is for a password its browser has shown, and not for longer.
TokensAreEarned ==
  \A v \in Visitors :
    LET access == visit[v].browser.access
    IN  access.until >= 0 =>
          /\ proved[v][access.secret] >= 0
          /\ access.until <= proved[v][access.secret] + AccessTtl

PublicInv == PageShape /\ RowIsSpent /\ TokensAreEarned

-----------------------------------------------------------------------------

LEMMA DayOfHour == \A t \in Hours : PublicDayOf(t) \in PublicDays
BY DEF PublicDays

LEMMA DaysAreNat == PublicDays \subseteq Nat
<1> SUFFICES ASSUME NEW t \in Nat PROVE t - (t % PublicDay) \in Nat
  BY PublicAssumption DEF PublicDays, PublicDayOf, Hours
<1> DEFINE n == PublicDay
           q == t \div n
           r == t % n
<1>1. n \in Nat \ {0}
  BY PublicAssumption
<1>2. q \in Nat /\ r \in 0..n - 1 /\ t = n * q + r
  BY <1>1
<1>3. n * q \in Nat
  BY <1>1, <1>2
<1>4. t - r = n * q
  <2> HIDE DEF n, q, r
  <2> QED BY <1>1, <1>2, <1>3
<1> QED BY <1>3, <1>4

LEMMA RequestsKept ==
  ASSUME PageShape, NEW v \in Visitors
  PROVE  /\ Request0 \in VisitRequest
         /\ \A place \in VisitPlaces : Request1(v, place) \in VisitRequest
<1>1. 0 \in Hours /\ 0 \in Versions /\ PublicDayOf(0) = 0
  BY PublicAssumption DEF Hours, Versions, PublicDayOf
<1>2. Request0 \in VisitRequest
  BY <1>1, DayOfHour DEF Request0, VisitRequest, VisitPlaces
<1>3. visit[v].req \in VisitRequest
  BY DEF PageShape, Visit
<1>4. ASSUME NEW place \in VisitPlaces PROVE Request1(v, place) \in VisitRequest
  <2>1. PublicDayOf(hour) \in PublicDays
    BY DayOfHour DEF PageShape
  <2> QED BY <1>2, <1>3, <2>1 DEF Request1, VisitRequest
<1> QED BY <1>2, <1>4

\* Moving on leaves the shape of what visitors hold, and their tokens.
LEMMA Advancing ==
  ASSUME PageShape, NEW v \in Visitors, NEW r \in VisitRequest,
         visit' = [visit EXCEPT ![v].req = r]
  PROVE  /\ visit' \in [Visitors -> Visit]
         /\ \A w \in Visitors : visit'[w].browser = visit[w].browser
         /\ visit'[v].req = r
         /\ \A w \in Visitors : w # v => visit'[w] = visit[w]
<1>1. visit \in [Visitors -> Visit] BY DEF PageShape
<1> QED BY <1>1 DEF Visit

\* A step that writes no browser and no proof keeps the tokens' invariant.
LEMMA TokensKept ==
  ASSUME TokensAreEarned, proved' = proved,
         \A w \in Visitors : visit'[w].browser = visit[w].browser
  PROVE  TokensAreEarned'
BY DEF TokensAreEarned

\* So does a step that reserves nothing for the counters.
LEMMA SpendingKept ==
  ASSUME RowIsSpent, UNCHANGED <<quota, spent, setBack>>
  PROVE  RowIsSpent'
BY DEF RowIsSpent

\* A request that moves on keeps the invariant.
LEMMA MovingKeepsInv ==
  ASSUME PublicInv, NEW v \in Visitors, NEW r \in VisitRequest,
         visit' = [visit EXCEPT ![v].req = r],
         UNCHANGED <<hour, quota, password, links, spent, setBack, proved>>
  PROVE  PublicInv'
<1>1. PageShape /\ RowIsSpent /\ TokensAreEarned
  BY DEF PublicInv
<1>2. /\ visit' \in [Visitors -> Visit]
      /\ \A w \in Visitors : visit'[w].browser = visit[w].browser
  BY <1>1, Advancing
<1>3. PageShape'
  BY <1>1, <1>2 DEF PageShape
<1>4. RowIsSpent'
  BY <1>1, SpendingKept
<1>5. TokensAreEarned'
  BY <1>1, <1>2, TokensKept
<1> QED BY <1>3, <1>4, <1>5 DEF PublicInv

LEMMA AdvanceKeepsInv ==
  ASSUME PublicInv, NEW v \in Visitors, NEW place \in VisitPlaces, Advance(v, place),
         UNCHANGED <<hour, quota, password, links, spent, setBack, proved>>
  PROVE  PublicInv'
<1>1. Request1(v, place) \in VisitRequest
  BY RequestsKept DEF PublicInv
<1>2. visit' = [visit EXCEPT ![v].req = Request1(v, place)]
  BY DEF Advance
<1> HIDE DEF VisitRequest
<1> QED BY <1>1, <1>2, MovingKeepsInv

\* A reservation: the row's day, a later one, or the one that sets it back.
LEMMA ReserveKeepsInv ==
  ASSUME PublicInv, NEW v \in Visitors, NEW rows \in Nat, NEW place \in VisitPlaces,
         Reserve(v, rows, place),
         UNCHANGED <<hour, password, links, proved>>
  PROVE  PublicInv'
<1> DEFINE day == visit[v].req.day
<1>1. PageShape /\ RowIsSpent /\ TokensAreEarned
  BY DEF PublicInv
<1>2. "idle" \in VisitPlaces
  BY DEF VisitPlaces
<1>3. CASE ~(rows <= ReadBudget /\ HasRoom(day, rows))
  <2>1. Advance(v, "idle") /\ UNCHANGED <<quota, spent, setBack>>
    BY <1>3 DEF Reserve
  <2> QED BY <2>1, <1>2, AdvanceKeepsInv
<1>4. CASE rows <= ReadBudget /\ HasRoom(day, rows)
  <2>1. /\ quota' = [day |-> day,
                     used |-> IF quota.day = day THEN quota.used + rows ELSE rows]
        /\ spent' = [spent EXCEPT ![day] = @ + rows]
        /\ setBack' = IF day < quota.day THEN 1 ELSE setBack
        /\ Advance(v, place)
    BY <1>4 DEF Reserve
  <2>2. Request1(v, place) \in VisitRequest
    BY <1>1, RequestsKept
  <2>3. /\ visit' \in [Visitors -> Visit]
        /\ \A w \in Visitors : visit'[w].browser = visit[w].browser
    BY <1>1, <2>1, <2>2, Advancing DEF Advance
  <2>4. day \in PublicDays
    BY <1>1 DEF PageShape, Visit, VisitRequest
  <2>5. quota.day \in PublicDays /\ quota.used \in Nat /\ spent \in [PublicDays -> Nat]
        /\ setBack \in {0, 1}
    BY <1>1 DEF PageShape
  <2> HIDE DEF day
  <2>6. /\ quota' \in [day: PublicDays, used: Nat]
        /\ quota'.day = day
        /\ quota'.used = IF quota.day = day THEN quota.used + rows ELSE rows
    BY <2>1, <2>4, <2>5
  <2>7. spent' \in [PublicDays -> Nat] /\ setBack' \in {0, 1}
    BY <2>1, <2>4, <2>5
  <2>8. /\ spent'[day] = spent[day] + rows
        /\ \A d \in PublicDays : d # day => spent'[d] = spent[d]
    BY <2>1, <2>4, <2>5
  <2>9. PageShape'
    BY <1>1, <2>3, <2>6, <2>7 DEF PageShape
  <2>10. ASSUME setBack' = 0
         PROVE  /\ quota'.used = spent'[quota'.day]
                /\ \A d \in PublicDays : d > quota'.day => spent'[d] = 0
                /\ \A d \in PublicDays : spent'[d] <= ReadBudget
    <3>1. setBack = 0 /\ ~(day < quota.day)
      BY <2>1, <2>10, <2>5
    <3>2. /\ quota.used = spent[quota.day]
          /\ \A d \in PublicDays : d > quota.day => spent[d] = 0
          /\ \A d \in PublicDays : spent[d] <= ReadBudget
      BY <1>1, <3>1 DEF RowIsSpent
    <3>3. CASE day = quota.day
      <4>1. quota'.used = spent'[day]
        BY <3>3, <3>2, <2>6, <2>8
      <4>2. quota.used + rows <= ReadBudget
        BY <3>3, <1>4 DEF HasRoom
      <4>3. spent'[day] <= ReadBudget
        BY <4>1, <4>2, <3>3, <2>6
      <4>4. quota'.day = quota.day /\ quota.used \in Nat
        BY <3>3, <2>6, <2>5
      <4>5. ASSUME NEW d \in PublicDays, d > quota'.day PROVE spent'[d] = 0
        <5>1. d > quota.day /\ quota.day \in Nat
          BY <4>4, <4>5, <2>5, DaysAreNat
        <5>2. d # day
          BY <5>1, <3>3, <2>5, DaysAreNat
        <5> QED BY <5>1, <5>2, <3>2, <2>8
      <4> QED BY <4>1, <4>3, <4>5, <3>2, <2>6, <2>8
    <3>4. CASE day # quota.day
      <4>1. day > quota.day
        <5>1. day \in Nat /\ quota.day \in Nat
          BY <2>4, <2>5, DaysAreNat
        <5> QED BY <5>1, <3>4, <3>1
      <4>2. spent[day] = 0
        BY <4>1, <3>2, <2>4
      <4>3. quota'.used = rows /\ spent'[day] = rows
        BY <3>4, <4>2, <2>6, <2>8, <2>5
      <4>4. ASSUME NEW d \in PublicDays, d > day PROVE spent'[d] = 0
        <5>1. d \in Nat /\ day \in Nat /\ quota.day \in Nat
          BY <2>4, <2>5, DaysAreNat
        <5>2. d > quota.day /\ d # day
          BY <5>1, <4>4, <4>1
        <5> QED BY <5>2, <3>2, <2>8
      <4> QED BY <4>3, <4>4, <3>2, <2>6, <2>8, <2>4, <1>4
    <3> QED BY <3>3, <3>4
  <2>11. RowIsSpent'
    BY <2>10 DEF RowIsSpent
  <2>12. TokensAreEarned'
    BY <1>1, <2>3, TokensKept
  <2> QED BY <2>9, <2>11, <2>12 DEF PublicInv
<1> QED BY <1>3, <1>4

-----------------------------------------------------------------------------
(* The browser and the admission.                                          *)

LEMMA InitInv == PublicInit => PublicInv
<1> SUFFICES ASSUME PublicInit PROVE PublicInv
  OBVIOUS
<1>1. 0 \in Hours /\ 0 \in Versions /\ 1 \in Nat /\ PublicDayOf(0) = 0
  BY PublicAssumption DEF Hours, Versions, PublicDayOf
<1>2. 0 \in PublicDays
  BY <1>1, DayOfHour
<1>3. Request0 \in VisitRequest
  BY <1>1, <1>2 DEF Request0, VisitRequest, VisitPlaces
<1>4. spent = [d \in PublicDays |-> 0] /\ quota = [day |-> 0, used |-> 0]
  BY DEF PublicInit, PublicDays
<1>5. NoAccess \in [secret: Versions, until: Int]
  BY <1>1 DEF NoAccess
<1>6. [access |-> NoAccess, typed |-> 0] \in Browser
  BY <1>1, <1>5 DEF Browser
<1>7. visit \in [Visitors -> Visit]
  <2> HIDE DEF Request0, VisitRequest
  <2> QED BY <1>3, <1>6 DEF PublicInit, Visit
<1>8. password \in Versions /\ links \in Nat
  BY PublicAssumption DEF PublicInit, Versions
<1>9. proved \in [Visitors -> [Versions -> Int]]
  BY DEF PublicInit
<1>10. PageShape
  BY <1>1, <1>2, <1>4, <1>7, <1>8, <1>9 DEF PageShape, PublicInit
<1>11. RowIsSpent
  BY <1>2, <1>4, PublicAssumption DEF RowIsSpent
<1>12. TokensAreEarned
  BY DEF TokensAreEarned, PublicInit, NoAccess
<1> QED BY <1>10, <1>11, <1>12 DEF PublicInv

LEMMA LoadKeepsInv ==
  ASSUME PublicInv, NEW v \in Visitors, NEW kind \in {"page", "monitor"}, Load(v, kind)
  PROVE  PublicInv'
<1> DEFINE shown == IF visit[v].browser.access # NoAccess THEN "access"
                    ELSE IF visit[v].browser.typed # 0 THEN "password"
                    ELSE "nothing"
           r == [Request0 EXCEPT !.pc = "limiting", !.kind = kind, !.shows = shown]
<1>1. Request0 \in VisitRequest
  BY RequestsKept DEF PublicInv
<1>2. shown \in {"nothing", "access", "password"}
  OBVIOUS
<1>3. r \in VisitRequest
  <2> HIDE DEF shown
  <2> QED BY <1>1, <1>2 DEF VisitRequest, VisitPlaces
<1>4. visit' = [visit EXCEPT ![v].req = r]
  BY DEF Load
<1>5. UNCHANGED <<hour, quota, password, links, spent, setBack, proved>>
  BY DEF Load
<1> HIDE DEF r, VisitRequest
<1> QED BY <1>3, <1>4, <1>5, MovingKeepsInv

LEMMA LimitKeepsInv ==
  ASSUME PublicInv, NEW v \in Visitors, Limit(v)
  PROVE  PublicInv'
<1>1. PageShape
  BY DEF PublicInv
<1>2. Request1(v, "authorizing") \in VisitRequest /\ Request0 \in VisitRequest
  BY <1>1, RequestsKept DEF VisitPlaces
<1>3. [Request1(v, "authorizing") EXCEPT !.secret = password] \in VisitRequest
  BY <1>1, <1>2 DEF PageShape, VisitRequest
<1>4. \E r \in VisitRequest : visit' = [visit EXCEPT ![v].req = r]
  <2> HIDE DEF VisitRequest, Request0
  <2> QED BY <1>2, <1>3 DEF Limit
<1>5. UNCHANGED <<hour, quota, password, links, spent, setBack, proved>>
  BY DEF Limit
<1> HIDE DEF VisitRequest
<1> QED BY <1>4, <1>5, MovingKeepsInv

\* A browser that gives up its token, or whose visitor types, keeps nothing it
\* has not earned.
LEMMA RetryKeepsInv ==
  ASSUME PublicInv, NEW v \in Visitors, Retry(v)
  PROVE  PublicInv'
<1>1. PageShape /\ RowIsSpent /\ TokensAreEarned
  BY DEF PublicInv
<1>2. Request0 \in VisitRequest
  BY <1>1, RequestsKept
<1>3. UNCHANGED <<hour, quota, password, links, spent, setBack, proved>>
  BY DEF Retry
<1>4. CASE ~(visit[v].browser.access # NoAccess /\ visit[v].browser.typed # 0)
  <2>1. visit' = [visit EXCEPT ![v].req = Request0]
    BY <1>4 DEF Retry
  <2> HIDE DEF VisitRequest, Request0
  <2> QED BY <2>1, <1>2, <1>3, MovingKeepsInv
<1>5. CASE visit[v].browser.access # NoAccess /\ visit[v].browser.typed # 0
  <2> DEFINE r == [Request0 EXCEPT !.pc = "limiting", !.shows = "password",
                                   !.kind = visit[v].req.kind]
  <2>1. visit' = [visit EXCEPT ![v].browser.access = NoAccess, ![v].req = r]
    BY <1>5 DEF Retry
  <2>2. visit \in [Visitors -> Visit] /\ visit[v].req \in VisitRequest
    BY <1>1 DEF PageShape, Visit
  <2>3. r \in VisitRequest
    BY <1>2, <2>2 DEF VisitRequest, VisitPlaces
  <2>4. NoAccess \in [secret: Versions, until: Int] /\ NoAccess.until < 0
    BY PublicAssumption DEF NoAccess, Versions
  <2> HIDE DEF r, VisitRequest, NoAccess
  <2>5. visit' \in [Visitors -> Visit]
    BY <2>1, <2>2, <2>3, <2>4 DEF Visit, Browser
  <2>6. /\ visit'[v].browser.access = NoAccess
        /\ \A w \in Visitors : w # v => visit'[w].browser = visit[w].browser
    BY <2>1, <2>2 DEF Visit, Browser
  <2>7. PageShape'
    BY <1>1, <1>3, <2>5 DEF PageShape
  <2>8. RowIsSpent'
    BY <1>1, <1>3, SpendingKept
  <2>9. TokensAreEarned'
    BY <1>1, <1>3, <2>4, <2>6 DEF TokensAreEarned
  <2> QED BY <2>7, <2>8, <2>9 DEF PublicInv
<1> QED BY <1>4, <1>5

LEMMA TypeKeepsInv ==
  ASSUME PublicInv, NEW v \in Visitors, Type(v)
  PROVE  PublicInv'
<1>1. PageShape /\ RowIsSpent /\ TokensAreEarned
  BY DEF PublicInv
<1>2. visit' = [visit EXCEPT ![v].browser.typed = password]
  BY DEF Type
<1>3. UNCHANGED <<hour, quota, password, links, spent, setBack, proved>>
  BY DEF Type
<1>4. visit \in [Visitors -> Visit] /\ password \in Versions
  BY <1>1 DEF PageShape
<1>5. visit' \in [Visitors -> Visit]
  <2> HIDE DEF VisitRequest
  <2> QED BY <1>2, <1>4 DEF Visit, Browser
<1>6. \A w \in Visitors : visit'[w].browser.access = visit[w].browser.access
  <2> HIDE DEF VisitRequest
  <2> QED BY <1>2, <1>4 DEF Visit, Browser
<1>7. PageShape'
  BY <1>1, <1>3, <1>5 DEF PageShape
<1>8. RowIsSpent'
  BY <1>1, <1>3, SpendingKept
<1>9. TokensAreEarned'
  BY <1>1, <1>3, <1>6 DEF TokensAreEarned
<1> QED BY <1>7, <1>8, <1>9 DEF PublicInv

\* What Authorize does, one case per way in.
LEMMA WaysIn ==
  ASSUME NEW v \in Visitors, Authorize(v)
  PROVE  \/ \E place \in VisitPlaces :
              /\ Advance(v, place) /\ UNCHANGED proved
              /\ \/ visit[v].req.secret = 0 \/ TokenValid(v)
                 \/ place = "unauthorized"
         \/ \E place \in VisitPlaces :
              LET secret == visit[v].req.secret
              IN  /\ visit[v].browser.typed = secret
                  /\ visit' = [visit EXCEPT
                       ![v].req = Request1(v, place),
                       ![v].browser.access = [secret |-> secret, until |-> hour + AccessTtl]]
                  /\ proved' = [proved EXCEPT ![v][secret] = hour]
<1> DEFINE secret == visit[v].req.secret
<1>1. PICK place \in {"base"} \cup (IF visit[v].req.kind = "monitor" THEN {"idle"} ELSE {}) :
        IF secret = 0 \/ TokenValid(v)
          THEN Advance(v, place) /\ UNCHANGED proved
        ELSE IF visit[v].req.shows = "password" /\ visit[v].browser.typed = secret
          THEN /\ visit' = [visit EXCEPT
                    ![v].req = Request1(v, place),
                    ![v].browser.access = [secret |-> secret, until |-> hour + AccessTtl]]
               /\ proved' = [proved EXCEPT ![v][secret] = hour]
        ELSE Advance(v, "unauthorized") /\ UNCHANGED proved
  BY DEF Authorize
<1>2. place \in VisitPlaces /\ "unauthorized" \in VisitPlaces
  BY <1>1 DEF VisitPlaces
<1>3. CASE secret = 0 \/ TokenValid(v)
  BY <1>1, <1>2, <1>3
<1>4. CASE /\ ~(secret = 0 \/ TokenValid(v))
           /\ visit[v].req.shows = "password" /\ visit[v].browser.typed = secret
  BY <1>1, <1>2, <1>4
<1>5. CASE /\ ~(secret = 0 \/ TokenValid(v))
           /\ ~(visit[v].req.shows = "password" /\ visit[v].browser.typed = secret)
  BY <1>1, <1>2, <1>5
<1> QED BY <1>3, <1>4, <1>5

\* A password shown now earns a token for AccessTtl and no other.
LEMMA EarningKeepsInv ==
  ASSUME PublicInv, NEW v \in Visitors, NEW r \in VisitRequest, NEW s \in Versions,
         visit' = [visit EXCEPT ![v].req = r,
           ![v].browser.access = [secret |-> s, until |-> hour + AccessTtl]],
         proved' = [proved EXCEPT ![v][s] = hour],
         UNCHANGED <<hour, quota, password, links, spent, setBack>>
  PROVE  PublicInv'
<1>1. PageShape /\ RowIsSpent /\ TokensAreEarned
  BY DEF PublicInv
<1>2. visit \in [Visitors -> Visit] /\ proved \in [Visitors -> [Versions -> Int]]
  BY <1>1 DEF PageShape
<1>3. hour \in Nat /\ AccessTtl \in Nat
  BY <1>1, PublicAssumption DEF PageShape, Hours
<1> DEFINE access == [secret |-> s, until |-> hour + AccessTtl]
<1>4. access \in [secret: Versions, until: Int]
  BY <1>3
<1>5. visit' = [visit EXCEPT ![v].req = r, ![v].browser.access = access]
  OBVIOUS
<1>6. access.secret = s /\ access.until = hour + AccessTtl
  OBVIOUS
<1> HIDE DEF access, VisitRequest
<1>7. visit' \in [Visitors -> Visit]
  <2> DEFINE browser == [visit[v].browser EXCEPT !.access = access]
             mine == [visit[v] EXCEPT !.req = r, !.browser.access = access]
  <2>1. browser \in Browser
    BY <1>2, <1>4 DEF Visit, Browser
  <2>2. mine = [browser |-> browser, req |-> r]
    <3>1. PICK b \in Browser, q \in VisitRequest : visit[v] = [browser |-> b, req |-> q]
      BY <1>2 DEF Visit
    <3>2. visit[v].browser = b
      BY <3>1
    <3>3. mine = [[visit[v] EXCEPT !.req = r] EXCEPT !.browser.access = access]
      OBVIOUS
    <3>4. [visit[v] EXCEPT !.req = r] = [browser |-> b, req |-> r]
      BY <3>1
    <3>5. [[browser |-> b, req |-> r] EXCEPT !.browser.access = access] =
            [browser |-> [b EXCEPT !.access = access], req |-> r]
      OBVIOUS
    <3> QED BY <3>2, <3>3, <3>4, <3>5
  <2>3. mine \in Visit
    <3> HIDE DEF browser
    <3> QED BY <2>1, <2>2 DEF Visit
  <2>4. visit' = [visit EXCEPT ![v] = mine]
    BY <1>5
  <2> HIDE DEF mine
  <2> QED BY <1>2, <2>3, <2>4
<1>8. /\ visit'[v].browser.access = access
      /\ \A w \in Visitors : w # v => visit'[w].browser = visit[w].browser
  BY <1>2, <1>4, <1>5 DEF Visit, Browser
<1>9. /\ proved' \in [Visitors -> [Versions -> Int]]
      /\ proved'[v][s] = hour
      /\ \A w \in Visitors : w # v => proved'[w] = proved[w]
  BY <1>2, <1>3
<1>10. PageShape'
  BY <1>1, <1>7, <1>9 DEF PageShape
<1>11. RowIsSpent'
  BY <1>1, SpendingKept
<1>12. ASSUME NEW w \in Visitors, visit'[w].browser.access.until >= 0
       PROVE  LET mine == visit'[w].browser.access
              IN  /\ proved'[w][mine.secret] >= 0
                  /\ mine.until <= proved'[w][mine.secret] + AccessTtl
  <2>1. CASE w = v
    BY <2>1, <1>3, <1>6, <1>8, <1>9
  <2>2. CASE w # v
    BY <2>2, <1>1, <1>8, <1>9, <1>12 DEF TokensAreEarned
  <2> QED BY <2>1, <2>2
<1>13. TokensAreEarned'
  BY <1>12 DEF TokensAreEarned
<1> QED BY <1>10, <1>11, <1>13 DEF PublicInv

LEMMA AuthorizeKeepsInv ==
  ASSUME PublicInv, NEW v \in Visitors, Authorize(v)
  PROVE  PublicInv'
<1>1. UNCHANGED <<hour, quota, password, links, spent, setBack>>
  BY DEF Authorize
<1>2. CASE \E place \in VisitPlaces : Advance(v, place) /\ UNCHANGED proved
  BY <1>1, <1>2, AdvanceKeepsInv
<1>3. CASE \E place \in VisitPlaces :
             LET secret == visit[v].req.secret
             IN  /\ visit' = [visit EXCEPT
                      ![v].req = Request1(v, place),
                      ![v].browser.access = [secret |-> secret, until |-> hour + AccessTtl]]
                 /\ proved' = [proved EXCEPT ![v][secret] = hour]
  <2>1. PageShape
    BY DEF PublicInv
  <2>2. PICK place \in VisitPlaces :
          /\ visit' = [visit EXCEPT
               ![v].req = Request1(v, place),
               ![v].browser.access =
                  [secret |-> visit[v].req.secret, until |-> hour + AccessTtl]]
          /\ proved' = [proved EXCEPT ![v][visit[v].req.secret] = hour]
    BY <1>3
  <2>3. Request1(v, place) \in VisitRequest
    BY <2>1, RequestsKept
  <2>4. visit[v].req.secret \in Versions
    BY <2>1 DEF PageShape, Visit, VisitRequest
  <2> HIDE DEF VisitRequest, Visit
  <2> QED BY <1>1, <2>2, <2>3, <2>4, EarningKeepsInv
<1> QED BY <1>2, <1>3, WaysIn

-----------------------------------------------------------------------------
(* The reservations.                                                       *)

LEMMA CountLinksKeepsInv ==
  ASSUME PublicInv, NEW v \in Visitors, CountLinks(v)
  PROVE  PublicInv'
<1>1. UNCHANGED <<hour, quota, password, links, spent, setBack, proved>>
  BY DEF CountLinks
<1>2. CASE Advance(v, "idle")
  BY <1>1, <1>2, AdvanceKeepsInv DEF VisitPlaces
<1>3. CASE visit' = [visit EXCEPT ![v].req = [Request1(v, "feed") EXCEPT !.found = links]]
  <2>1. Request1(v, "feed") \in VisitRequest /\ links \in Nat
    BY RequestsKept DEF PublicInv, PageShape, VisitPlaces
  <2>2. [Request1(v, "feed") EXCEPT !.found = links] \in VisitRequest
    BY <2>1 DEF VisitRequest
  <2> HIDE DEF VisitRequest
  <2> QED BY <1>1, <1>3, <2>2, MovingKeepsInv
<1> QED BY <1>2, <1>3 DEF CountLinks

LEMMA ReservationsKeepInv ==
  ASSUME PublicInv, NEW v \in Visitors,
         ReserveBase(v) \/ ReserveFeed(v) \/ Analytics(v) \/ QueryUpdates(v)
  PROVE  PublicInv'
<1>1. visit[v].req.found \in Nat
  BY DEF PublicInv, PageShape, Visit, VisitRequest
<1>2. UNCHANGED <<hour, password, links, proved>>
  BY DEF ReserveBase, ReserveFeed, Analytics, QueryUpdates
<1>3. CASE ReserveBase(v)
  <2>1. \E place \in VisitPlaces : Reserve(v, BaseCost, place)
    BY <1>3 DEF ReserveBase, VisitPlaces
  <2>2. BaseCost \in Nat
    BY PublicAssumption
  <2> QED BY <1>2, <2>1, <2>2, ReserveKeepsInv
<1>4. CASE ReserveFeed(v)
  <2>1. FeedReservation(visit[v].req.found) \in Nat
    BY <1>1 DEF FeedReservation
  <2>2. Reserve(v, FeedReservation(visit[v].req.found), "analytics") /\ "analytics" \in VisitPlaces
    BY <1>4 DEF ReserveFeed, VisitPlaces
  <2> QED BY <1>2, <2>1, <2>2, ReserveKeepsInv
<1>5. CASE Analytics(v)
  <2> DEFINE next == IF visit[v].req.kind = "page" THEN "incidents" ELSE "idle"
  <2>1. next \in VisitPlaces
    BY DEF VisitPlaces
  <2>2. Reserve(v, 1, next) \/ (Advance(v, next) /\ UNCHANGED <<quota, spent, setBack>>)
    BY <1>5 DEF Analytics
  <2>3. 1 \in Nat
    OBVIOUS
  <2> HIDE DEF next
  <2> QED BY <1>2, <2>1, <2>2, <2>3, ReserveKeepsInv, AdvanceKeepsInv
<1>6. CASE QueryUpdates(v)
  <2>1. Reserve(v, visit[v].req.found + 2, "idle") /\ "idle" \in VisitPlaces
    BY <1>6 DEF QueryUpdates, VisitPlaces
  <2>2. visit[v].req.found + 2 \in Nat
    BY <1>1
  <2> QED BY <1>2, <2>1, <2>2, ReserveKeepsInv
<1> QED BY <1>3, <1>4, <1>5, <1>6

LEMMA QueryIncidentsKeepsInv ==
  ASSUME PublicInv, NEW v \in Visitors, QueryIncidents(v)
  PROVE  PublicInv'
<1>1. \E place \in VisitPlaces : Advance(v, place)
  BY DEF QueryIncidents, VisitPlaces
<1>2. UNCHANGED <<hour, quota, password, links, spent, setBack, proved>>
  BY DEF QueryIncidents
<1> QED BY <1>1, <1>2, AdvanceKeepsInv

\* Time, and the administrator.
LEMMA OthersKeepInv ==
  ASSUME PublicInv, PublicTick \/ ChangePassword \/ LinkIncident
  PROVE  PublicInv'
<1>1. PageShape /\ RowIsSpent /\ TokensAreEarned
  BY DEF PublicInv
<1>2. UNCHANGED <<quota, visit, spent, setBack, proved>>
  BY DEF PublicTick, ChangePassword, LinkIncident
<1>3. hour' \in Hours /\ password' \in Versions /\ links' \in Nat
  BY <1>1, PublicAssumption
    DEF PublicTick, ChangePassword, LinkIncident, PageShape, Hours, Versions
<1>4. PageShape'
  BY <1>1, <1>2, <1>3 DEF PageShape
<1>5. RowIsSpent'
  BY <1>1, <1>2, SpendingKept
<1>6. TokensAreEarned'
  BY <1>1, <1>2, TokensKept
<1> QED BY <1>4, <1>5, <1>6 DEF PublicInv

LEMMA StepKeepsInv ==
  ASSUME PublicInv, [PublicNext]_publicVars
  PROVE  PublicInv'
<1>1. ASSUME NEW v \in Visitors, NEW kind \in {"page", "monitor"}, Load(v, kind)
      PROVE  PublicInv'
  BY <1>1, LoadKeepsInv
<1>2. ASSUME NEW v \in Visitors, Type(v) PROVE PublicInv'
  BY <1>2, TypeKeepsInv
<1>3. ASSUME NEW v \in Visitors, Retry(v) PROVE PublicInv'
  BY <1>3, RetryKeepsInv
<1>4. ASSUME NEW v \in Visitors, Limit(v) PROVE PublicInv'
  BY <1>4, LimitKeepsInv
<1>5. ASSUME NEW v \in Visitors, Authorize(v) PROVE PublicInv'
  BY <1>5, AuthorizeKeepsInv
<1>6. ASSUME NEW v \in Visitors, CountLinks(v) PROVE PublicInv'
  BY <1>6, CountLinksKeepsInv
<1>7. ASSUME NEW v \in Visitors, QueryIncidents(v) PROVE PublicInv'
  BY <1>7, QueryIncidentsKeepsInv
<1>8. ASSUME NEW v \in Visitors,
             ReserveBase(v) \/ ReserveFeed(v) \/ Analytics(v) \/ QueryUpdates(v)
      PROVE  PublicInv'
  BY <1>8, ReservationsKeepInv
<1>9. CASE PublicTick \/ ChangePassword \/ LinkIncident
  BY <1>9, OthersKeepInv
<1>10. CASE UNCHANGED publicVars
  <2>1. UNCHANGED <<hour, quota, password, links, visit, spent, setBack, proved>>
    BY <1>10 DEF publicVars
  <2> QED BY <2>1 DEF PublicInv, PageShape, RowIsSpent, TokensAreEarned
<1> QED BY <1>1, <1>2, <1>3, <1>4, <1>5, <1>6, <1>7, <1>8, <1>9, <1>10 DEF PublicNext, Serve

-----------------------------------------------------------------------------
(* The types that PublicInv leaves out: the limiter, which no property      *)
(* speaks of, and how many links a request may have found.                 *)

LEMMA DaysAreHours == PublicDays \subseteq Hours
<1> SUFFICES ASSUME NEW t \in Hours PROVE PublicDayOf(t) \in Hours
  BY DEF PublicDays
<1>1. PublicDayOf(t) \in Nat
  BY DayOfHour, DaysAreNat
<1>2. t \in Nat /\ t % PublicDay >= 0 /\ t % PublicDay \in Nat
  BY PublicAssumption DEF Hours
<1>3. t <= PublicHorizon /\ PublicHorizon \in Nat
  BY PublicAssumption DEF Hours
<1> QED BY <1>1, <1>2, <1>3 DEF PublicDayOf, Hours

\* What a request may have counted, and what the limiter remembers.
LimiterInv ==
  /\ links \in 0..MaxLinks /\ visits \in 0..MaxVisits
  /\ limiter \in [sweep: Nat, tries: [Visitors -> [count: Nat, resetAt: Nat]]]
  /\ \A v \in Visitors : visit[v].req.found \in 0..LinkLimit

LEMMA PublicTypesFollow == PublicInv /\ LimiterInv => PublicTypeOK
<1> SUFFICES ASSUME PublicInv, LimiterInv PROVE PublicTypeOK
  OBVIOUS
<1>1. PageShape
  BY DEF PublicInv
<1>2. quota \in [day: Hours, used: Nat]
  BY <1>1, DaysAreHours DEF PageShape
<1>3. ASSUME NEW v \in Visitors
      PROVE  /\ visit[v].browser \in Browser /\ visit[v].req.pc \in VisitPlaces
             /\ visit[v].req.day \in Hours
  BY <1>1, DaysAreHours DEF PageShape, Visit, VisitRequest
<1> QED BY <1>1, <1>2, <1>3 DEF PageShape, LimiterInv, PublicTypeOK, VisitPlaces

LEMMA LimiterStarts == PublicInit => LimiterInv
<1> SUFFICES ASSUME PublicInit PROVE LimiterInv
  OBVIOUS
<1>1. \A v \in Visitors : visit[v].req.found = 0
  BY DEF PublicInit, Request0
<1> QED BY <1>1, PublicAssumption DEF PublicInit, LimiterInv

\* A request that moves on has found what it had found, or nothing.
LEMMA FoundKept ==
  ASSUME PageShape, LimiterInv, NEW v \in Visitors, NEW r,
         r.found \in 0..LinkLimit, visit' = [visit EXCEPT ![v].req = r]
  PROVE  \A w \in Visitors : visit'[w].req.found \in 0..LinkLimit
<1>1. visit \in [Visitors -> Visit]
  BY DEF PageShape
<1>2. visit'[v].req = r /\ \A w \in Visitors : w # v => visit'[w] = visit[w]
  BY <1>1 DEF Visit
<1> QED BY <1>2 DEF LimiterInv

LEMMA PlaceFound ==
  ASSUME PageShape, LimiterInv, NEW v \in Visitors, NEW place
  PROVE  Request1(v, place).found \in 0..LinkLimit
<1>1. visit[v].req \in VisitRequest /\ visit[v].req.found \in 0..LinkLimit
  BY DEF PageShape, Visit, LimiterInv
<1>2. 0 \in 0..LinkLimit
  BY PublicAssumption
<1> QED BY <1>1, <1>2 DEF Request1, Request0, VisitRequest

LEMMA LimiterStep ==
  ASSUME PublicInv, LimiterInv, [PublicNext]_publicVars
  PROVE  LimiterInv'
<1> USE PublicAssumption
<1>s. PageShape
  BY DEF PublicInv
<1>z. Request0.found = 0 /\ 0 \in 0..LinkLimit
  BY DEF Request0
<1>1. ASSUME NEW v \in Visitors, NEW kind \in {"page", "monitor"}, Load(v, kind)
      PROVE  LimiterInv'
  <2> DEFINE r == [Request0 EXCEPT !.pc = "limiting", !.kind = kind,
                     !.shows = IF visit[v].browser.access # NoAccess THEN "access"
                               ELSE IF visit[v].browser.typed # 0 THEN "password"
                               ELSE "nothing"]
  <2>1. visit' = [visit EXCEPT ![v].req = r]
    BY <1>1 DEF Load
  <2>2. r.found = 0
    BY DEF Request0
  <2> HIDE DEF r
  <2>3. \A w \in Visitors : visit'[w].req.found \in 0..LinkLimit
    BY <1>s, <1>z, <2>1, <2>2, FoundKept
  <2> QED BY <1>1, <2>3 DEF Load, LimiterInv
<1>2. ASSUME NEW v \in Visitors, Type(v) PROVE LimiterInv'
  <2>1. \A w \in Visitors : visit'[w].req = visit[w].req
    BY <1>2, <1>s DEF Type, PageShape, Visit
  <2> QED BY <1>2, <2>1 DEF Type, LimiterInv
<1>3. ASSUME NEW v \in Visitors, Retry(v) PROVE LimiterInv'
  <2>1. /\ \A w \in Visitors : w # v => visit'[w] = visit[w]
        /\ visit'[v].req.found = 0
    BY <1>3, <1>s DEF Retry, PageShape, Visit, Request0
  <2> QED BY <1>3, <1>z, <2>1 DEF Retry, LimiterInv
<1>4. ASSUME NEW v \in Visitors, Limit(v) PROVE LimiterInv'
  <2> DEFINE None == [count |-> 0, resetAt |-> 0]
             swept == IF hour < limiter.sweep THEN limiter.tries
                      ELSE [w \in Visitors |->
                             IF limiter.tries[w].resetAt <= hour THEN None ELSE limiter.tries[w]]
             Tries == [count: Nat, resetAt: Nat]
  <2>1. hour \in Nat
    BY <1>s DEF PageShape, Hours
  <2>2. PICK sweep, next, r :
          /\ limiter' = [sweep |-> sweep, tries |-> [swept EXCEPT ![v] = next]]
          /\ sweep \in {limiter.sweep, hour + RateWindow}
          /\ next \in {swept[v], [count |-> 1, resetAt |-> hour + RateWindow],
                       [swept[v] EXCEPT !.count = @ + 1]}
          /\ visit' = [visit EXCEPT ![v].req = r]
          /\ r \in {Request0, [Request1(v, "authorizing") EXCEPT !.secret = password]}
    <3> HIDE DEF Request0, Request1
    <3> QED BY <1>4 DEF Limit
  <2>3. swept \in [Visitors -> Tries]
    BY DEF LimiterInv
  <2>4. next \in Tries /\ sweep \in Nat
    <3>1. swept[v] \in Tries
      BY <2>3
    <3> HIDE DEF swept
    <3> QED BY <2>1, <2>2, <3>1 DEF LimiterInv
  <2>5. limiter' \in [sweep: Nat, tries: [Visitors -> Tries]]
    <3> HIDE DEF swept, Tries
    <3> QED BY <2>2, <2>3, <2>4
  <2>6. r.found \in 0..LinkLimit
    <3>1. Request1(v, "authorizing") \in VisitRequest
      BY <1>s, RequestsKept DEF VisitPlaces
    <3>2. Request1(v, "authorizing").found \in 0..LinkLimit
      BY <1>s, PlaceFound
    <3> QED BY <1>z, <2>2, <3>1, <3>2 DEF VisitRequest
  <2>7. \A w \in Visitors : visit'[w].req.found \in 0..LinkLimit
    BY <1>s, <2>2, <2>6, FoundKept
  <2> QED BY <1>4, <2>5, <2>7 DEF Limit, LimiterInv
<1>5. ASSUME NEW v \in Visitors, Authorize(v) PROVE LimiterInv'
  <2>1. PICK place :
          /\ \A w \in Visitors : w # v => visit'[w] = visit[w]
          /\ visit'[v].req = Request1(v, place)
    BY <1>5, <1>s DEF Authorize, Advance, PageShape, Visit
  <2>2. \A w \in Visitors : visit'[w].req.found \in 0..LinkLimit
    BY <1>s, <2>1, PlaceFound DEF LimiterInv
  <2> QED BY <1>5, <2>2 DEF Authorize, LimiterInv
<1>6. ASSUME NEW v \in Visitors, CountLinks(v) PROVE LimiterInv'
  <2>1. PICK r \in {Request1(v, "idle"), [Request1(v, "feed") EXCEPT !.found = links]} :
          /\ visit' = [visit EXCEPT ![v].req = r]
          /\ r = Request1(v, "idle") \/ links <= LinkLimit
    <3> HIDE DEF Request1
    <3>1. CASE Advance(v, "idle")
      BY <3>1 DEF Advance
    <3>2. CASE /\ links <= LinkLimit
               /\ visit' = [visit EXCEPT ![v].req = [Request1(v, "feed") EXCEPT !.found = links]]
      BY <3>2
    <3> QED BY <1>6, <3>1, <3>2 DEF CountLinks, LimiterInv
  <2>2. r.found \in 0..LinkLimit
    <3>1. Request1(v, "idle").found \in 0..LinkLimit
      BY <1>s, PlaceFound
    <3>2. Request1(v, "feed") \in VisitRequest
      BY <1>s, RequestsKept DEF VisitPlaces
    <3> QED BY <2>1, <3>1, <3>2 DEF LimiterInv, VisitRequest
  <2>3. \A w \in Visitors : visit'[w].req.found \in 0..LinkLimit
    BY <1>s, <2>1, <2>2, FoundKept
  <2> QED BY <1>6, <2>3 DEF CountLinks, LimiterInv
<1>7. ASSUME NEW v \in Visitors,
             \/ QueryIncidents(v)
             \/ ReserveBase(v) \/ ReserveFeed(v) \/ Analytics(v) \/ QueryUpdates(v)
      PROVE  LimiterInv'
  <2>1. UNCHANGED <<links, limiter, visits>> /\ \E place : Advance(v, place)
    BY <1>7 DEF QueryIncidents, ReserveBase, ReserveFeed, Analytics, QueryUpdates, Reserve
  <2>2. \A w \in Visitors : visit'[w].req.found \in 0..LinkLimit
    BY <1>s, <2>1, PlaceFound, FoundKept DEF Advance
  <2> QED BY <2>1, <2>2 DEF LimiterInv
<1>8. CASE PublicTick \/ ChangePassword \/ LinkIncident \/ UNCHANGED publicVars
  BY <1>8 DEF PublicTick, ChangePassword, LinkIncident, publicVars, LimiterInv
<1> QED BY <1>1, <1>2, <1>3, <1>4, <1>5, <1>6, <1>7, <1>8 DEF PublicNext, Serve

-----------------------------------------------------------------------------
(* The theorems.                                                           *)

LEMMA PageInvariant == PublicSpec => []PublicInv
<1>1. PublicInit => PublicInv
  BY InitInv
<1>2. PublicInv /\ [PublicNext]_publicVars => PublicInv'
  BY StepKeepsInv
<1> QED BY <1>1, <1>2, PTL DEF PublicSpec

\* However many visitors load pages at once and whenever midnight comes between
\* the clock reading and the statement of a reservation, the public pages
\* reserve no more of a day than its budget until a reservation of an earlier
\* day resets the row (d1-budget.ts 21-49).
THEOREM PublicBudgetKept == PublicSpec => []BudgetKept
<1>1. PublicInv => BudgetKept
  BY DEF PublicInv, PageShape, RowIsSpent, BudgetKept
<1> QED BY <1>1, PageInvariant, PTL

-----------------------------------------------------------------------------

\* Nobody else's request, and nobody else, moves a visitor's request.
LEMMA OthersLeaveIt ==
  ASSUME PageShape, NEW v \in Visitors, [PublicNext]_publicVars, Pc(v) = "authorizing",
         ~Authorize(v)
  PROVE  visit'[v] = visit[v]
<1>1. visit \in [Visitors -> Visit]
  BY DEF PageShape
<1>2. CASE UNCHANGED visit
  BY <1>2
<1>3. ASSUME NEW w \in Visitors,
             \/ \E kind \in {"page", "monitor"} : Load(w, kind)
             \/ Type(w) \/ Retry(w) \/ Serve(w)
      PROVE  w # v /\ \A u \in Visitors : u # w => visit'[u] = visit[u]
  <2>1. w # v
    BY <1>3 DEF Load, Type, Retry, Serve, Limit, ReserveBase, CountLinks, ReserveFeed,
                Analytics, QueryIncidents, QueryUpdates, Pc
  <2>2. CASE \E kind \in {"page", "monitor"} : Load(w, kind)
    BY <1>1, <2>1, <2>2 DEF Load
  <2>3. CASE Type(w)
    BY <1>1, <2>1, <2>3 DEF Type
  <2>4. CASE Retry(w)
    BY <1>1, <2>1, <2>4 DEF Retry
  <2>5. CASE Limit(w)
    BY <1>1, <2>1, <2>5 DEF Limit
  <2>6. CASE Authorize(w)
    <3>1. CASE \E place \in VisitPlaces : Advance(w, place)
      BY <1>1, <2>1, <3>1 DEF Advance
    <3>2. CASE \E place \in VisitPlaces :
                 visit' = [visit EXCEPT
                   ![w].req = Request1(w, place),
                   ![w].browser.access =
                      [secret |-> visit[w].req.secret, until |-> hour + AccessTtl]]
      BY <1>1, <2>1, <3>2
    <3> QED BY <3>1, <3>2, <2>6, WaysIn
  <2>7. CASE ReserveBase(w) \/ ReserveFeed(w) \/ Analytics(w) \/ QueryUpdates(w)
             \/ QueryIncidents(w)
    <3>1. \E place : Advance(w, place)
      BY <2>7 DEF ReserveBase, ReserveFeed, Analytics, QueryUpdates, QueryIncidents, Reserve
    <3> QED BY <1>1, <2>1, <3>1 DEF Advance
  <2>8. CASE CountLinks(w)
    BY <1>1, <2>1, <2>8 DEF CountLinks, Advance
  <2> QED BY <1>3, <2>1, <2>2, <2>3, <2>4, <2>5, <2>6, <2>7, <2>8 DEF Serve
<1>4. CASE PublicTick \/ ChangePassword \/ LinkIncident
  BY <1>2, <1>4 DEF PublicTick, ChangePassword, LinkIncident
<1> QED BY <1>2, <1>3, <1>4 DEF PublicNext, publicVars

LEMMA ServedWasShown ==
  ASSUME PublicInv, [PublicNext]_publicVars, NEW v \in Visitors, Pc(v) = "authorizing",
         visit'[v].req.pc = "base", visit[v].req.secret # 0
  PROVE  /\ proved'[v][visit[v].req.secret] >= 0
         /\ hour - proved'[v][visit[v].req.secret] <= AccessTtl
<1> DEFINE secret == visit[v].req.secret
<1>1. PageShape /\ TokensAreEarned
  BY DEF PublicInv
<1>2. /\ visit \in [Visitors -> Visit] /\ secret \in Versions
      /\ proved \in [Visitors -> [Versions -> Int]]
      /\ hour \in Nat /\ AccessTtl \in Nat
  BY <1>1, PublicAssumption DEF PageShape, Visit, VisitRequest, Hours
<1>3. Authorize(v)
  BY <1>1, OthersLeaveIt DEF Pc
<1>4. ASSUME NEW place \in VisitPlaces, Advance(v, place), UNCHANGED proved,
             \/ secret = 0 \/ TokenValid(v)
             \/ place = "unauthorized"
      PROVE  proved'[v][secret] >= 0 /\ hour - proved'[v][secret] <= AccessTtl
  <2>1. Request1(v, place) \in VisitRequest
    BY <1>1, RequestsKept
  <2>2. visit'[v].req = Request1(v, place)
    BY <1>1, <1>4, <2>1, Advancing DEF Advance
  <2>3. place = "base"
    <3>1. CASE place = "idle"
      BY <2>2, <3>1 DEF Request1, Request0
    <3>2. CASE place # "idle"
      BY <1>2, <2>2, <3>2 DEF Request1, Visit, VisitRequest
    <3> QED BY <3>1, <3>2
  <2>4. TokenValid(v)
    BY <1>4, <2>3
  <2> DEFINE access == visit[v].browser.access
  <2>5. access.until \in hour .. hour + AccessTtl /\ access.secret = secret
    BY <2>4 DEF TokenValid
  <2>6. access.until \in Int /\ access.until >= hour
    BY <1>2, <2>5 DEF Visit, Browser
  <2>7. proved[v][secret] >= 0 /\ access.until <= proved[v][secret] + AccessTtl
    BY <1>1, <1>2, <2>5, <2>6 DEF TokensAreEarned
  <2>8. proved[v][secret] \in Int /\ proved'[v][secret] = proved[v][secret]
    BY <1>2, <1>4
  <2> HIDE DEF access, secret
  <2> QED BY <1>2, <2>6, <2>7, <2>8
<1>5. ASSUME proved' = [proved EXCEPT ![v][secret] = hour]
      PROVE  proved'[v][secret] >= 0 /\ hour - proved'[v][secret] <= AccessTtl
  <2>1. proved'[v][secret] = hour
    BY <1>2, <1>5
  <2> QED BY <1>2, <2>1
<1> QED BY <1>3, <1>4, <1>5, WaysIn

\* Whoever is served a protected page has shown the password it had when it was
\* looked up, at most a token's lifetime ago: changing the password or waiting
\* ends a token, whatever the browser goes on sending (publicStatus.ts 77-134).
THEOREM PublicAccessNeedsPassword == PublicSpec => AccessNeedsPassword
<1>1. PublicInv /\ [PublicNext]_publicVars =>
        [\A v \in Visitors :
           /\ Pc(v) = "authorizing" /\ visit'[v].req.pc = "base"
           /\ visit[v].req.secret # 0
           => /\ proved'[v][visit[v].req.secret] >= 0
              /\ hour - proved'[v][visit[v].req.secret] <= AccessTtl]_publicVars
  BY ServedWasShown
<1> QED BY <1>1, PageInvariant, PTL DEF PublicSpec, AccessNeedsPassword

-----------------------------------------------------------------------------
(* Part 1: reports.  A request that read a report before others wrote it   *)
(* still carries a consistent row; a settling one carries a status.        *)

WriteFields == {"pc", "id", "row", "status", "to"}

Coherent(x) ==
  /\ x \in ReportRows
  /\ x.status = "resolved" <=> x.resolvedAt = "set"
  /\ x.visibility = "published" <=> x.publishedAt = "set"

ReportInv ==
  /\ DOMAIN report = Reports /\ report = [r \in Reports |-> report[r]]
  /\ \A r \in Existing : Coherent(report[r])

\* One request, whatever it does.
SoundText(x) ==
  /\ DOMAIN x = WriteFields
  /\ x.pc \in {"idle", "editing", "linking", "updating", "settling"}
  /\ x.pc = "editing" => Coherent(x.row)
  /\ x.pc \in {"updating", "settling"} => x.status \in Statuses

WritingInv ==
  /\ DOMAIN writing = Writers /\ writing = [w \in Writers |-> writing[w]]
  /\ \A w \in Writers : SoundText(writing[w])

TextInv == ReportInv /\ WritingInv

\* The request at rest is sound.
LEMMA NotWritingSound == SoundText(NotWriting)
  BY DEF SoundText, NotWriting, WriteFields

\* A request that changes its own state into a sound one disturbs no other.
LEMMA WritingStep ==
  ASSUME WritingInv, NEW w \in Writers, NEW x, SoundText(x),
         writing' = [writing EXCEPT ![w] = x]
  PROVE  WritingInv'
  BY DEF WritingInv

\* A report that is replaced by a coherent one, or erased, disturbs no other.
LEMMA ReportStep ==
  ASSUME ReportInv, NEW r \in Reports, NEW x, x = Erased \/ Coherent(x),
         report' = [report EXCEPT ![r] = x]
  PROVE  ReportInv'
  BY DEF ReportInv, Existing

LEMMA TextInit == IncidentInit => TextInv
  <1> SUFFICES ASSUME IncidentInit PROVE TextInv
    OBVIOUS
  <1>1. ReportInv
    BY DEF IncidentInit, ReportInv, Existing
  <1>2. WritingInv
    BY NotWritingSound DEF IncidentInit, WritingInv
  <1> QED BY <1>1, <1>2 DEF TextInv

LEMMA CreateCoherent ==
  ASSUME TextInv, NEW w \in Writers, CreateReport(w) PROVE TextInv'
  <1>1. PICK r \in Reports, status \in Statuses, visibility \in Visibilities :
          report' = [report EXCEPT ![r] =
            [status |-> status, resolvedAt |-> Stamp(status = "resolved"),
             visibility |-> visibility, publishedAt |-> Stamp(visibility = "published")]]
    BY DEF CreateReport, Stamp
  <1>2. Coherent([status |-> status, resolvedAt |-> Stamp(status = "resolved"),
                  visibility |-> visibility, publishedAt |-> Stamp(visibility = "published")])
    BY DEF Coherent, ReportRows, Stamp
  <1>3. ReportInv'
    BY <1>1, <1>2, ReportStep DEF TextInv
  <1>4. WritingInv'
    BY DEF CreateReport, TextInv, WritingInv
  <1> QED BY <1>3, <1>4 DEF TextInv

\* PUT merges into a coherent row, whichever of status and visibility it sets.
LEMMA ReadCoherent ==
  ASSUME TextInv, NEW w \in Writers, ReadReport(w) PROVE TextInv'
  <1>1. PICK r \in Existing, status \in Statuses \union {"same"},
             visibility \in Visibilities \union {"same"},
             to \in {{}} \union {{S} : S \in SUBSET Services} :
          LET old == report[r]
              next == IF status = "same" THEN old.status ELSE status
          IN  writing' = [writing EXCEPT ![w] =
                [pc |-> "editing", id |-> r, status |-> next, to |-> to,
                 row |-> [status |-> next, resolvedAt |-> Stamp(next = "resolved"),
                          visibility |-> IF visibility = "same" THEN old.visibility ELSE visibility,
                          publishedAt |-> IF visibility = "same" THEN old.publishedAt
                                          ELSE Stamp(visibility = "published")]]]
    BY DEF ReadReport
  <1> DEFINE old == report[r]
             next == IF status = "same" THEN old.status ELSE status
             row == [status |-> next, resolvedAt |-> Stamp(next = "resolved"),
                     visibility |-> IF visibility = "same" THEN old.visibility ELSE visibility,
                     publishedAt |-> IF visibility = "same" THEN old.publishedAt
                                     ELSE Stamp(visibility = "published")]
  <1>2. Coherent(old)
    BY DEF TextInv, ReportInv
  <1>3. Coherent(row)
    BY <1>2 DEF Coherent, ReportRows, Stamp, Statuses, Visibilities
  <1>4. writing' = [writing EXCEPT ![w] =
          [pc |-> "editing", id |-> r, status |-> next, to |-> to, row |-> row]]
    BY <1>1
  <1> HIDE DEF row, next
  <1>5. SoundText([pc |-> "editing", id |-> r, status |-> next, to |-> to, row |-> row])
    BY <1>3 DEF SoundText, WriteFields
  <1>6. WritingInv'
    BY <1>4, <1>5, WritingStep DEF TextInv
  <1>7. ReportInv'
    BY DEF ReadReport, TextInv, ReportInv, Existing
  <1> QED BY <1>6, <1>7 DEF TextInv

LEMMA EditCoherent ==
  ASSUME TextInv, NEW w \in Writers, EditReport(w) PROVE TextInv'
  <1>1. Coherent(MergedRow(w)) /\ DOMAIN writing[w] = WriteFields
    BY DEF EditReport, MergedRow, TextInv, WritingInv, SoundText
  <1>2. ReportInv'
    <2>1. CASE writing[w].id \in Existing
      <3>1. writing[w].id \in Reports
        BY <2>1 DEF Existing
      <3>2. report' = [report EXCEPT ![writing[w].id] = MergedRow(w)]
        BY <2>1 DEF EditReport
      <3> QED BY <1>1, <3>1, <3>2, ReportStep DEF TextInv
    <2>2. CASE writing[w].id \notin Existing
      <3>1. UNCHANGED report
        BY <2>2 DEF EditReport
      <3> QED BY <3>1 DEF TextInv, ReportInv, Existing
    <2> QED BY <2>1, <2>2
  <1>3. writing' = [writing EXCEPT ![w] = [writing[w] EXCEPT !.pc = "linking"]]
    BY DEF EditReport
  <1>4. SoundText([writing[w] EXCEPT !.pc = "linking"])
    BY <1>1 DEF SoundText, WriteFields
  <1>5. WritingInv'
    BY <1>3, <1>4, WritingStep DEF TextInv
  <1> QED BY <1>2, <1>5 DEF TextInv

LEMMA FindCoherent ==
  ASSUME TextInv, NEW w \in Writers, FindReport(w) PROVE TextInv'
  <1>1. PICK r \in Existing, status \in Statuses :
          writing' = [writing EXCEPT ![w] =
            [NotWriting EXCEPT !.pc = "updating", !.id = r, !.status = status]]
    BY DEF FindReport
  <1>2. SoundText([NotWriting EXCEPT !.pc = "updating", !.id = r, !.status = status])
    BY DEF SoundText, NotWriting, WriteFields
  <1>3. WritingInv'
    BY <1>1, <1>2, WritingStep DEF TextInv
  <1>4. ReportInv'
    BY DEF FindReport, TextInv, ReportInv, Existing
  <1> QED BY <1>3, <1>4 DEF TextInv

LEMMA InsertCoherent ==
  ASSUME TextInv, NEW w \in Writers, InsertUpdate(w) PROVE TextInv'
  <1>1. ReportInv'
    BY DEF InsertUpdate, TextInv, ReportInv, Existing
  <1>2. CASE writing[w].id \in Existing
    <2>1. writing' = [writing EXCEPT ![w] = [writing[w] EXCEPT !.pc = "settling"]]
      BY <1>2 DEF InsertUpdate
    <2>2. SoundText([writing[w] EXCEPT !.pc = "settling"])
      BY DEF InsertUpdate, TextInv, WritingInv, SoundText, WriteFields
    <2>3. WritingInv'
      BY <2>1, <2>2, WritingStep DEF TextInv
    <2> QED BY <1>1, <2>3 DEF TextInv
  <1>3. CASE writing[w].id \notin Existing
    <2>1. WritingInv'
      BY <1>3, NotWritingSound, WritingStep DEF InsertUpdate, Return, TextInv
    <2> QED BY <1>1, <2>1 DEF TextInv
  <1> QED BY <1>2, <1>3

\* An update sets the status and its timestamp together, in one statement.
LEMMA SettleCoherent ==
  ASSUME TextInv, NEW w \in Writers, SettleReport(w) PROVE TextInv'
  <1> DEFINE r == writing[w].id
             s == writing[w].status
             settled == [report[r] EXCEPT !.status = s, !.resolvedAt = Stamp(s = "resolved")]
  <1>1. WritingInv'
    BY NotWritingSound, WritingStep DEF SettleReport, Return, TextInv
  <1>2. ReportInv'
    <2>1. CASE r \in Existing
      <3>1. report' = [report EXCEPT ![r] = settled]
        BY <2>1 DEF SettleReport
      <3>2. Coherent(report[r]) /\ s \in Statuses /\ r \in Reports
        BY <2>1 DEF SettleReport, TextInv, ReportInv, WritingInv, SoundText, Existing
      <3>3. Coherent(settled)
        BY <3>2 DEF Coherent, ReportRows, Stamp
      <3> QED BY <3>1, <3>2, <3>3, ReportStep DEF TextInv
    <2>2. CASE r \notin Existing
      <3>1. UNCHANGED report
        BY <2>2 DEF SettleReport
      <3> QED BY <3>1 DEF TextInv, ReportInv, Existing
    <2> QED BY <2>1, <2>2
  <1> QED BY <1>1, <1>2 DEF TextInv

\* The steps that end a request, delete a report or touch neither.
LEMMA OthersCoherent ==
  ASSUME TextInv, NEW w \in Writers, ReplaceLinks(w) \/ DeleteReport(w) \/ Cut(w)
  PROVE  TextInv'
  <1>1. CASE ReplaceLinks(w) \/ Cut(w)
    <2>1. WritingInv'
      BY <1>1, NotWritingSound, WritingStep DEF ReplaceLinks, Cut, Return, TextInv
    <2>2. UNCHANGED report
      BY <1>1 DEF ReplaceLinks, Cut
    <2> QED BY <2>1, <2>2 DEF TextInv, ReportInv, Existing
  <1>2. CASE DeleteReport(w)
    <2>1. PICK r \in Existing : report' = [report EXCEPT ![r] = Erased]
      BY <1>2 DEF DeleteReport
    <2>2. ReportInv'
      BY <2>1, ReportStep DEF TextInv, Existing
    <2>3. UNCHANGED writing
      BY <1>2 DEF DeleteReport
    <2> QED BY <2>2, <2>3 DEF TextInv, WritingInv
  <1> QED BY <1>1, <1>2

\* Every step preserves the invariant.
LEMMA TextStep == TextInv /\ [IncidentNext]_incidentVars => TextInv'
  <1> SUFFICES ASSUME TextInv, [IncidentNext]_incidentVars PROVE TextInv'
    OBVIOUS
  <1>1. ASSUME UNCHANGED <<report, writing>> PROVE TextInv'
    BY <1>1 DEF TextInv, ReportInv, WritingInv, Existing
  <1>2. ASSUME NEW s \in Services, DropService(s) \/ AddService(s) PROVE TextInv'
    BY <1>1, <1>2 DEF DropService, AddService
  <1>3. CASE UNCHANGED incidentVars
    BY <1>1, <1>3 DEF incidentVars
  <1> QED BY <1>2, <1>3, CreateCoherent, ReadCoherent, EditCoherent, FindCoherent,
             InsertCoherent, SettleCoherent, OthersCoherent DEF IncidentNext, Answered

\* A report has a resolution time exactly when it is resolved and a publication
\* time exactly when it is published, although rows are written back that were
\* read before another write (incidentReports.ts 228-243 and 300-301).
THEOREM ReportsStayConsistent == IncidentSpec => []ReportConsistent
  <1>1. TextInv => ReportConsistent
    BY DEF TextInv, ReportInv, Coherent, ReportConsistent
  <1> QED BY <1>1, TextInit, TextStep, PTL DEF IncidentSpec

-----------------------------------------------------------------------------
(* Part 2: the counters.  The triggers see the rows one by one; what keeps *)
(* the sum exact is that a row that is there already fires nothing, and    *)
(* that MAX(0, ...) never has to intervene.                                *)

CountInv ==
  /\ service \subseteq Services
  /\ linked \subseteq Reports \X Services
  /\ feed \in [Services -> Nat]
  /\ FeedCountsExact

\* A set of links is finite, and so is any part of it.
LEMMA LinksFinite ==
  ASSUME NEW L, L \subseteq Reports \X Services PROVE IsFiniteSet(L)
  <1>1. IsFiniteSet(Reports \X Services)
    BY IncidentAssumption, FS_Product
  <1> QED BY <1>1, FS_Subset

\* The counters stay exact through any replacement of links.
LEMMA RelinkExact ==
  ASSUME CountInv, NEW gone, NEW new, new \subseteq Reports \X Services, Relink(gone, new)
  PROVE  /\ linked' \subseteq Reports \X Services
         /\ feed' \in [Services -> Nat]
         /\ FeedCountsExact'
  <1> DEFINE kept  == linked \ gone
             added == new \ kept
             G(s)  == {l \in gone \intersect linked : l[2] = s}
             A(s)  == {l \in added : l[2] = s}
  <1>1. /\ linked' = kept \union new
        /\ feed' = [s \in Services |->
             Decrement(feed[s], Cardinality(G(s))) + Cardinality(A(s))]
    BY DEF Relink
  <1>2. linked' \subseteq Reports \X Services
    BY <1>1 DEF CountInv
  <1>3. ASSUME NEW s \in Services
        PROVE  /\ Decrement(feed[s], Cardinality(G(s))) + Cardinality(A(s)) \in Nat
               /\ Decrement(feed[s], Cardinality(G(s))) + Cardinality(A(s))
                    = Cardinality(LinksTo(s)')
    <2> DEFINE L == LinksTo(s)
    <2>1. IsFiniteSet(L) /\ IsFiniteSet(A(s))
      BY LinksFinite DEF CountInv, LinksTo
    <2>2. G(s) \subseteq L /\ L \intersect G(s) = G(s)
      BY DEF LinksTo
    <2>3. IsFiniteSet(G(s)) /\ Cardinality(G(s)) <= Cardinality(L)
      BY <2>1, <2>2, FS_Subset
    <2>4. LinksTo(s)' = (L \ G(s)) \union A(s)
      BY <1>1 DEF LinksTo
    <2>5. (L \ G(s)) \intersect A(s) = {}
      BY DEF LinksTo
    <2>6. feed[s] = Cardinality(L)
      BY DEF CountInv, FeedCountsExact
    <2> HIDE DEF L, G, A
    <2>7. /\ Cardinality(L) \in Nat /\ Cardinality(G(s)) \in Nat /\ Cardinality(A(s)) \in Nat
      BY <2>1, <2>3, FS_CardinalityType
    <2>8. /\ IsFiniteSet(L \ G(s))
          /\ Cardinality(L \ G(s)) = Cardinality(L) - Cardinality(G(s))
      BY <2>1, <2>2, FS_Difference
    <2>9. Cardinality((L \ G(s)) \union A(s)) = Cardinality(L \ G(s)) + Cardinality(A(s))
      <3>1. Cardinality((L \ G(s)) \union A(s))
              = Cardinality(L \ G(s)) + Cardinality(A(s)) - Cardinality((L \ G(s)) \intersect A(s))
        BY <2>1, <2>8, FS_Union
      <3>2. Cardinality((L \ G(s)) \intersect A(s)) = 0
        BY <2>5, FS_EmptySet
      <3> QED BY <2>7, <2>8, <3>1, <3>2
    <2>10. Decrement(feed[s], Cardinality(G(s))) = Cardinality(L) - Cardinality(G(s))
      BY <2>3, <2>6, <2>7 DEF Decrement
    <2> QED BY <2>3, <2>4, <2>7, <2>8, <2>9, <2>10
  <1> HIDE DEF G, A
  <1>4. feed' \in [Services -> Nat]
    BY <1>1, <1>3
  <1>5. FeedCountsExact'
    <2>1. \A s \in Services : feed'[s] = Cardinality(LinksTo(s)')
      BY <1>1, <1>3
    <2> QED BY <2>1 DEF FeedCountsExact, LinksTo
  <1> QED BY <1>2, <1>4, <1>5

LEMMA CountInit == IncidentInit => CountInv
  <1> SUFFICES ASSUME IncidentInit PROVE CountInv
    OBVIOUS
  <1>1. \A s \in Services : LinksTo(s) = {}
    BY DEF IncidentInit, LinksTo
  <1>2. FeedCountsExact
    BY <1>1, FS_EmptySet DEF IncidentInit, FeedCountsExact
  <1> QED BY <1>2 DEF IncidentInit, CountInv

\* The steps that write links do it through the triggers.
LEMMA LinkingStep ==
  ASSUME CountInv, NEW w \in Writers, CreateReport(w) \/ ReplaceLinks(w) \/ DeleteReport(w)
  PROVE  CountInv'
  <1>1. service' = service
    BY DEF CreateReport, ReplaceLinks, DeleteReport
  <1>2. ASSUME NEW gone, NEW new, new \subseteq Reports \X Services, Relink(gone, new)
        PROVE  CountInv'
    BY <1>1, <1>2, RelinkExact DEF CountInv
  <1>3. CASE CreateReport(w)
    <2>1. PICK r \in Reports, to \in SUBSET service : Relink({}, {r} \X to)
      BY <1>3 DEF CreateReport
    <2>2. {r} \X to \subseteq Reports \X Services
      BY <2>1 DEF CountInv
    <2> QED BY <1>2, <2>1, <2>2
  <1>4. CASE DeleteReport(w)
    <2>1. PICK r \in Existing : Relink(LinksOf(r), {})
      BY <1>4 DEF DeleteReport
    <2> QED BY <1>2, <2>1
  <1>5. CASE ReplaceLinks(w)
    <2> DEFINE r   == writing[w].id
               new == {r} \X UNION writing[w].to
    <2>1. CASE writing[w].to # {} /\ new \subseteq Existing \X service
      <3>1. Relink(LinksOf(r), new)
        BY <1>5, <2>1 DEF ReplaceLinks
      <3>2. new \subseteq Reports \X Services
        BY <2>1 DEF CountInv, Existing
      <3> QED BY <1>2, <3>1, <3>2
    <2>2. CASE ~(writing[w].to # {} /\ new \subseteq Existing \X service)
      <3>1. UNCHANGED <<linked, feed>>
        BY <1>5, <2>2 DEF ReplaceLinks
      <3> QED BY <1>1, <3>1 DEF CountInv, FeedCountsExact, LinksTo
    <2> QED BY <2>1, <2>2
  <1> QED BY <1>3, <1>4, <1>5

\* A deleted monitor takes its links and its counter along.
LEMMA DropServiceStep ==
  ASSUME CountInv, NEW s \in Services, DropService(s) PROVE CountInv'
  <1>1. /\ linked' = linked \ LinksTo(s)
        /\ feed' = [feed EXCEPT ![s] = 0]
        /\ service' = service \ {s}
    BY DEF DropService
  <1>2. ASSUME NEW t \in Services PROVE feed'[t] = Cardinality(LinksTo(t)')
    <2>1. CASE t = s
      <3>1. LinksTo(t)' = {}
        BY <1>1, <2>1 DEF LinksTo
      <3>2. feed'[t] = 0
        BY <1>1, <2>1 DEF CountInv
      <3> QED BY <3>1, <3>2, FS_EmptySet
    <2>2. CASE t # s
      <3>1. LinksTo(t)' = LinksTo(t)
        BY <1>1, <2>2 DEF LinksTo
      <3>2. feed'[t] = feed[t]
        BY <1>1, <2>2 DEF CountInv
      <3> QED BY <3>1, <3>2 DEF CountInv, FeedCountsExact
    <2> QED BY <2>1, <2>2
  <1>3. FeedCountsExact'
    BY <1>2 DEF FeedCountsExact, LinksTo
  <1> QED BY <1>1, <1>3 DEF CountInv

\* Every step preserves the invariant.
LEMMA CountStep == CountInv /\ [IncidentNext]_incidentVars => CountInv'
  <1> SUFFICES ASSUME CountInv, [IncidentNext]_incidentVars PROVE CountInv'
    OBVIOUS
  <1>1. ASSUME UNCHANGED <<linked, feed>>, service' \subseteq Services PROVE CountInv'
    BY <1>1 DEF CountInv, FeedCountsExact, LinksTo
  <1>2. ASSUME NEW w \in Writers, \/ ReadReport(w) \/ EditReport(w) \/ FindReport(w)
                                  \/ InsertUpdate(w) \/ SettleReport(w) \/ Cut(w)
        PROVE  CountInv'
    <2>1. UNCHANGED <<linked, feed, service>>
      BY <1>2 DEF ReadReport, EditReport, FindReport, InsertUpdate, SettleReport, Cut
    <2> QED BY <1>1, <2>1 DEF CountInv
  <1>3. ASSUME NEW s \in Services, AddService(s) PROVE CountInv'
    BY <1>1, <1>3 DEF AddService, CountInv
  <1>4. CASE UNCHANGED incidentVars
    BY <1>1, <1>4 DEF incidentVars, CountInv
  <1> QED BY <1>2, <1>3, <1>4, LinkingStep, DropServiceStep DEF IncidentNext, Answered

\* The counter of every monitor is the number of its links, through every
\* edit, deletion and cascade (migrate.ts 337-355).
THEOREM FeedCountsStayExact == IncidentSpec => []FeedCountsExact
  <1>1. CountInv => FeedCountsExact
    BY DEF CountInv
  <1> QED BY <1>1, CountInit, CountStep, PTL DEF IncidentSpec

-----------------------------------------------------------------------------
(* The types of the reports, from the two parts.                           *)

ReportsInv == TextInv /\ CountInv /\ requests \in 0..MaxRequests

LEMMA IncidentTypesFollow == ReportsInv => IncidentTypeOK
  <1> SUFFICES ASSUME ReportsInv PROVE IncidentTypeOK
    OBVIOUS
  <1>1. ASSUME NEW r \in Reports PROVE report[r] \in ReportRows \union {NoReport, Erased}
    BY DEF ReportsInv, TextInv, ReportInv, Existing, Coherent
  <1>2. report \in [Reports -> ReportRows \union {NoReport, Erased}]
    BY <1>1 DEF ReportsInv, TextInv, ReportInv
  <1>3. \A w \in Writers :
          writing[w].pc \in {"idle", "editing", "linking", "updating", "settling"}
    BY DEF ReportsInv, TextInv, WritingInv, SoundText
  <1> QED BY <1>2, <1>3 DEF ReportsInv, CountInv, IncidentTypeOK

LEMMA ReportsStart == IncidentInit => ReportsInv
  BY TextInit, CountInit, IncidentAssumption DEF IncidentInit, ReportsInv

LEMMA ReportsStep == ReportsInv /\ [IncidentNext]_incidentVars => ReportsInv'
  <1> SUFFICES ASSUME ReportsInv, [IncidentNext]_incidentVars
               PROVE  requests' \in 0..MaxRequests
    BY TextStep, CountStep DEF ReportsInv
  <1>1. requests' = requests \/ Receive
    BY DEF IncidentNext, Answered, CreateReport, ReadReport, EditReport, ReplaceLinks,
           FindReport, InsertUpdate, SettleReport, DeleteReport, Cut, DropService,
           AddService, incidentVars
  <1> QED BY <1>1, IncidentAssumption DEF ReportsInv, Receive

=============================================================================
