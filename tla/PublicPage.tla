------------------------------ MODULE PublicPage ------------------------------
(***************************************************************************)
(* A public status page from the visitor's browser to the database: the    *)
(* rate limiter, the password and the short-lived access token, and the    *)
(* daily budget of D1 row reads that every step reserves from before it    *)
(* reads (routes/publicStatus.ts, services/d1-budget.ts,                   *)
(* services/local-rate-limiter.ts, frontend routes/s/[slug]).              *)
(*                                                                         *)
(* One page and a few visitors.  A password is its version, 0 for none,    *)
(* and the token is what it signs: an expiry and a password hash.  The     *)
(* visitor's browser has one request at a time; statements are atomic, and *)
(* the clock value a reservation binds is read a step before it.  Costs    *)
(* are small numbers of rows.                                              *)
(***************************************************************************)
EXTENDS Integers, FiniteSets

CONSTANTS
  Visitors,
  ReadBudget,     \* PUBLIC_D1_READ_BUDGET_PER_DAY
  BaseCost,       \* PUBLIC_STATUS_BASE_READ_RESERVATION
  LinkLimit,      \* PUBLIC_INCIDENT_FEED_LINK_LIMIT
  AccessTtl,      \* STATUS_ACCESS_TTL_SECONDS
  RateLimit,      \* requests per window of a visitor
  RateWindow,     \* the limiter's 60 seconds
  MaxKeys,        \* visitors the limiter remembers
  PublicDay,      \* 86400
  PublicHorizon,  \* bound on the clock
  MaxVersions,    \* bound on passwords
  MaxLinks,       \* bound on incident links of the page's monitors
  MaxVisits       \* bound on requests, over all visitors

ASSUME PublicAssumption ==
  /\ ReadBudget \in Nat /\ BaseCost \in Nat \ {0} /\ LinkLimit \in 0..MaxLinks
  /\ AccessTtl \in Nat /\ RateLimit \in Nat \ {0} /\ RateWindow \in Nat \ {0}
  /\ MaxKeys \in Nat /\ PublicDay \in Nat \ {0} /\ PublicHorizon \in Nat
  /\ MaxVersions \in Nat \ {0} /\ MaxLinks \in Nat /\ MaxVisits \in Nat

VARIABLES
  hour,      \* wall clock
  quota,     \* the quota_budgets row: day, used
  password,  \* status_pages.password_hash, by version
  links,     \* sum of link_count over the page's monitors
  limiter,   \* nextSweep and the attempts of each visitor, resetAt 0 for none
  visit,     \* each visitor's browser and its request
  visits,    \* requests so far
  spent,     \* history: rows reserved by requests of each day
  setBack,   \* history: 1 once a request of an earlier day reset the row
  proved     \* history: when each visitor last showed each password, -1 never

publicVars == <<hour, quota, password, links, limiter, visit, visits, spent,
                setBack, proved>>

Hours      == 0..PublicHorizon
PublicDayOf(t) == t - (t % PublicDay)
Versions == 0..MaxVersions
NoAccess == [secret |-> 0, until |-> -1]

Browser == [access: [secret: Versions, until: Int], typed: Versions]
Request0 == [pc |-> "idle", kind |-> "page", shows |-> "nothing", secret |-> 0,
             day |-> 0, found |-> 0]

PublicTypeOK ==
  /\ hour \in Hours
  /\ quota \in [day: Hours, used: Nat]
  /\ password \in Versions /\ links \in 0..MaxLinks
  /\ limiter \in [sweep: Nat, tries: [Visitors -> [count: Nat, resetAt: Nat]]]
  /\ \A v \in Visitors :
       /\ visit[v].browser \in Browser
       /\ visit[v].req.pc \in {"idle", "limiting", "authorizing", "base", "counting",
            "feed", "analytics", "incidents", "updates", "unauthorized"}
       /\ visit[v].req.day \in Hours /\ visit[v].req.found \in 0..LinkLimit
  /\ visits \in 0..MaxVisits
  /\ setBack \in {0, 1}

PublicInit ==
  /\ hour = 0
  /\ quota = [day |-> 0, used |-> 0]
  /\ password \in {0, 1} /\ links = LinkLimit
  /\ limiter = [sweep |-> 0, tries |-> [v \in Visitors |-> [count |-> 0, resetAt |-> 0]]]
  /\ visit = [v \in Visitors |->
       [browser |-> [access |-> NoAccess, typed |-> 0], req |-> Request0]]
  /\ visits = 0
  /\ spent = [d \in {PublicDayOf(t) : t \in Hours} |-> 0]
  /\ setBack = 0
  /\ proved = [v \in Visitors |-> [s \in Versions |-> -1]]

Pc(v) == visit[v].req.pc
\* The request goes on to `place`; a reservation there binds the clock of now.
Request1(v, place) ==
  IF place = "idle" THEN Request0
  ELSE [visit[v].req EXCEPT !.pc = place, !.day = PublicDayOf(hour)]
Advance(v, place) == visit' = [visit EXCEPT ![v].req = Request1(v, place)]

-----------------------------------------------------------------------------
(* The browser: load() and loadRequest().                                  *)

\* A tick of the countdown, or the password form, unless one is in flight.
Load(v, kind) ==
  /\ Pc(v) = "idle"
  /\ visits < MaxVisits
  /\ visits' = visits + 1
  /\ visit' = [visit EXCEPT ![v].req =
       [Request0 EXCEPT !.pc = "limiting", !.kind = kind,
          !.shows = IF visit[v].browser.access # NoAccess THEN "access"
                    ELSE IF visit[v].browser.typed # 0 THEN "password"
                    ELSE "nothing"]]
  /\ UNCHANGED <<hour, quota, password, links, limiter, spent, setBack, proved>>

\* The visitor types the password they were told.
Type(v) ==
  /\ Pc(v) = "idle"
  /\ visit[v].browser.typed # password
  /\ visit' = [visit EXCEPT ![v].browser.typed = password]
  /\ UNCHANGED <<hour, quota, password, links, limiter, visits, spent, setBack, proved>>

\* A 401 under an access token: forget it, ask once more with the password.
Retry(v) ==
  /\ Pc(v) = "unauthorized"
  /\ visit' =
       IF visit[v].browser.access # NoAccess /\ visit[v].browser.typed # 0
         THEN [visit EXCEPT
                ![v].browser.access = NoAccess,
                ![v].req = [Request0 EXCEPT !.pc = "limiting", !.shows = "password",
                                            !.kind = visit[v].req.kind]]
         ELSE [visit EXCEPT ![v].req = Request0]
  /\ UNCHANGED <<hour, quota, password, links, limiter, visits, spent, setBack, proved>>

-----------------------------------------------------------------------------
(* Admission: limiter, page, password.                                     *)

\* createLocalRateLimiter(limit).limit(): sweep, then count.  The page is
\* looked up next.
Limit(v) ==
  /\ Pc(v) = "limiting"
  /\ LET swept == IF hour < limiter.sweep THEN limiter.tries
                  ELSE [w \in Visitors |->
                         IF limiter.tries[w].resetAt <= hour
                           THEN [count |-> 0, resetAt |-> 0] ELSE limiter.tries[w]]
         sweep == IF hour < limiter.sweep THEN limiter.sweep ELSE hour + RateWindow
         kept  == {w \in Visitors : swept[w].resetAt # 0}
         mine  == swept[v]
         fresh == mine.resetAt <= hour
         full  == fresh /\ v \notin kept /\ Cardinality(kept) >= MaxKeys
         next  == IF full THEN mine
                  ELSE IF fresh THEN [count |-> 1, resetAt |-> hour + RateWindow]
                  ELSE [mine EXCEPT !.count = @ + 1]
     IN  /\ limiter' = [sweep |-> sweep, tries |-> [swept EXCEPT ![v] = next]]
         /\ visit' = [visit EXCEPT ![v].req =
              IF full \/ next.count > RateLimit THEN Request0
              ELSE [Request1(v, "authorizing") EXCEPT !.secret = password]]
  /\ UNCHANGED <<hour, quota, password, links, visits, spent, setBack, proved>>

\* Mutant: the signature covers the slug and the expiry only.
TokenUnexpired(v) ==
  /\ visit[v].req.shows = "access"
  /\ visit[v].browser.access.until \in hour .. hour + AccessTtl

\* verifyStatusAccessToken: the page's present hash is part of the message.
TokenValid(v) ==
  /\ visit[v].req.shows = "access"
  /\ visit[v].browser.access.until \in hour .. hour + AccessTtl
  /\ visit[v].browser.access.secret = visit[v].req.secret

\* authorizeProtectedPage; a correct password earns a new token.  The
\* single-monitor endpoint then looks its monitor up and may end there.
Authorize(v) ==
  /\ Pc(v) = "authorizing"
  /\ \E place \in {"base"} \cup (IF visit[v].req.kind = "monitor" THEN {"idle"} ELSE {}) :
     LET secret == visit[v].req.secret
     IN  IF secret = 0 \/ TokenValid(v)
           THEN Advance(v, place) /\ UNCHANGED proved
         ELSE IF visit[v].req.shows = "password" /\ visit[v].browser.typed = secret
           THEN /\ visit' = [visit EXCEPT
                     ![v].req = Request1(v, place),
                     ![v].browser.access = [secret |-> secret, until |-> hour + AccessTtl]]
                /\ proved' = [proved EXCEPT ![v][secret] = hour]
         ELSE Advance(v, "unauthorized") /\ UNCHANGED proved
  /\ UNCHANGED <<hour, quota, password, links, limiter, visits, spent, setBack>>

-----------------------------------------------------------------------------
(* Reservations and reads.                                                 *)

\* Mutant: the row is only compared, the request is not added to it.
RoomForAnything(day, rows) == quota.day # day \/ quota.used <= ReadBudget

\* The WHERE clause of reservePublicD1ReadBudget.
HasRoom(day, rows) == quota.day # day \/ quota.used + rows <= ReadBudget

\* One upsert with the day of the request's clock, then on to `place`.
Reserve(v, rows, place) ==
  LET day == visit[v].req.day
  IN  IF rows <= ReadBudget /\ HasRoom(day, rows)
        THEN /\ quota' = [day |-> day,
                          used |-> IF quota.day = day THEN quota.used + rows ELSE rows]
             /\ spent' = [spent EXCEPT ![day] = @ + rows]
             /\ setBack' = IF day < quota.day THEN 1 ELSE setBack
             /\ Advance(v, place)
        ELSE /\ Advance(v, "idle")
             /\ UNCHANGED <<quota, spent, setBack>>

ReserveBase(v) ==
  /\ Pc(v) = "base"
  /\ Reserve(v, BaseCost, IF visit[v].req.kind = "page" THEN "counting" ELSE "analytics")
  /\ UNCHANGED <<hour, password, links, limiter, visits, proved>>

\* The monitors of the page (none: an empty page), then their link counters.
CountLinks(v) ==
  /\ Pc(v) = "counting"
  /\ \/ Advance(v, "idle")
     \/ IF links > LinkLimit
          THEN Advance(v, "idle")
          ELSE visit' = [visit EXCEPT ![v].req =
                 [Request1(v, "feed") EXCEPT !.found = links]]
  /\ UNCHANGED <<hour, quota, password, links, limiter, visits, spent, setBack, proved>>

\* PUBLIC_INCIDENT_FEED_READS_PER_LINK and PUBLIC_INCIDENT_FEED_FIXED_READS.
FeedReservation(found) == 3 * found + 1

ReserveFeed(v) ==
  /\ Pc(v) = "feed"
  /\ Reserve(v, FeedReservation(visit[v].req.found), "analytics")
  /\ UNCHANGED <<hour, password, links, limiter, visits, proved>>

\* getMonitorAnalytics: the frozen rows are in the cache or must be reserved.
\* The single-monitor endpoint then reads its logs and answers.
Analytics(v) ==
  /\ Pc(v) = "analytics"
  /\ \/ Reserve(v, 1, IF visit[v].req.kind = "page" THEN "incidents" ELSE "idle")
     \/ /\ Advance(v, IF visit[v].req.kind = "page" THEN "incidents" ELSE "idle")
        /\ UNCHANGED <<quota, spent, setBack>>
  /\ UNCHANGED <<hour, password, links, limiter, visits, proved>>

\* The feed query finds no report to show, or some.
QueryIncidents(v) ==
  /\ Pc(v) = "incidents"
  /\ \E visible \in {0, 1} :
       /\ visible <= links
       /\ Advance(v, IF visible = 0 THEN "idle" ELSE "updates")
  /\ UNCHANGED <<hour, quota, password, links, limiter, visits, spent, setBack, proved>>

\* Reserved again, for a second scan of the links and the updates of the
\* visible reports, which are then read and shown.
QueryUpdates(v) ==
  /\ Pc(v) = "updates"
  /\ Reserve(v, visit[v].req.found + 2, "idle")
  /\ UNCHANGED <<hour, password, links, limiter, visits, proved>>

-----------------------------------------------------------------------------
(* Around them: time, and the administrator.                               *)

PublicTick ==
  /\ hour < PublicHorizon
  /\ hour' = hour + 1
  /\ UNCHANGED <<quota, password, links, limiter, visit, visits, spent, setBack, proved>>

ChangePassword ==
  /\ password < MaxVersions
  /\ password' = password + 1
  /\ UNCHANGED <<hour, quota, links, limiter, visit, visits, spent, setBack, proved>>

\* An incident report of one of the monitors is saved.
LinkIncident ==
  /\ links < MaxLinks
  /\ links' = links + 1
  /\ UNCHANGED <<hour, quota, password, limiter, visit, visits, spent, setBack, proved>>

Serve(v) ==
  \/ Limit(v) \/ Authorize(v) \/ ReserveBase(v)
  \/ CountLinks(v) \/ ReserveFeed(v) \/ Analytics(v) \/ QueryIncidents(v)
  \/ QueryUpdates(v)

PublicNext ==
  \/ \E v \in Visitors :
       \/ \E kind \in {"page", "monitor"} : Load(v, kind)
       \/ Type(v) \/ Retry(v) \/ Serve(v)
  \/ PublicTick \/ ChangePassword \/ LinkIncident

PublicSpec == PublicInit /\ [][PublicNext]_publicVars

-----------------------------------------------------------------------------
(* Properties.                                                             *)

\* The public pages never reserve more rows of a UTC day than the budget
\* leaves them, whatever their requests interleave, unless a request that read
\* its clock before midnight reserved after one of the new day: the row then
\* goes back a day and forgets what was used (d1-budget.ts 21-49).
BudgetKept == setBack = 0 => \A d \in DOMAIN spent : spent[d] <= ReadBudget

\* A protected page is served to a visitor who has shown the password it had
\* when it was looked up, no longer than a token's lifetime before: a token
\* outlives neither its time nor the password it was issued for, although the
\* browser keeps sending it (publicStatus.ts 77-134).
AccessNeedsPassword ==
  [][\A v \in Visitors :
       /\ Pc(v) = "authorizing" /\ visit'[v].req.pc = "base"
       /\ visit[v].req.secret # 0
       => /\ proved'[v][visit[v].req.secret] >= 0
          /\ hour - proved'[v][visit[v].req.secret] <= AccessTtl]_publicVars

=============================================================================
