------------------------ MODULE AdministrationProofs ------------------------
(***************************************************************************)
(* Proofs about the administration of the monitor, for any requests,       *)
(* tokens, rows and bounds.                                                *)
(*                                                                         *)
(* A session that ended stays ended (Sessions).  And the configuration     *)
(* (Configuration): however the requests of several tabs interleave, its   *)
(* tables hold what their validation accepts, a pushed monitor has its     *)
(* token, a status page stays protected, and what is destroyed is within   *)
(* the write limit but for what the estimate is known to miss.             *)
(***************************************************************************)
EXTENDS Sessions, Configuration, FiniteSums

-----------------------------------------------------------------------------
(* The inductive invariant.  A revocation keeps its row until the token    *)
(* expires: it is dated with the token's own expiry, and a purge removes   *)
(* only what has expired.                                                  *)

Calls == [pc: {"idle", "lookup", "revoking", "admitted", "refused"},
          does: {"request", "logout"}, jti: Jtis \union {"none"}]

TypesInv ==
  /\ second \in Nat
  /\ issued \in [Jtis -> [creds: Nat, exp: Nat]]
  /\ revoked \in [Jtis -> Nat]
  /\ call \in [Callers -> Calls]
  /\ credentials \in Nat
  /\ loggedOut \subseteq Jtis

\* Requests carry tokens that were handed out, and so do logouts.
TokensInv ==
  /\ \A c \in Callers : call[c].pc \in {"lookup", "revoking"} =>
       call[c].jti \in Jtis /\ issued[call[c].jti] # NoToken
  /\ \A j \in loggedOut : issued[j] # NoToken

RowsInv ==
  /\ \A j \in Jtis : revoked[j] \in {0, issued[j].exp}
  /\ \A j \in loggedOut : second < issued[j].exp => revoked[j] # 0

SessionInv == TypesInv /\ TokensInv /\ RowsInv

LEMMA SessionInvInit == SessionInit => SessionInv
  BY SessionAssumption DEF SessionInit, SessionInv, TypesInv, TokensInv, RowsInv, Calls,
     NoCall, NoToken

LEMMA LoginKeeps ==
  ASSUME SessionInv, Login PROVE SessionInv'
  <1>1. PICK j \in Jtis :
          /\ issued[j] = NoToken
          /\ issued' = [issued EXCEPT ![j] =
               [creds |-> credentials, exp |-> second + SessionSeconds]]
          /\ UNCHANGED <<second, credentials, revoked, call, loggedOut>>
    BY DEF Login
  <1>2. second + SessionSeconds \in Nat \ {0}
    BY SessionAssumption DEF SessionInv, TypesInv
  <1>3. TypesInv'
    BY <1>1, <1>2 DEF SessionInv, TypesInv
  <1>4. issued'[j] # NoToken /\ \A k \in Jtis \ {j} : issued'[k] = issued[k]
    BY <1>1, <1>2 DEF SessionInv, TypesInv, NoToken
  <1>5. TokensInv'
    <2>1. \A k \in Jtis : issued[k] # NoToken => issued'[k] # NoToken
      BY <1>4
    <2> QED BY <1>1, <2>1 DEF SessionInv, TypesInv, TokensInv
  <1>6. RowsInv'
    <2>1. revoked[j] = 0 /\ j \notin loggedOut
      BY <1>1 DEF SessionInv, TokensInv, RowsInv, NoToken
    <2> QED BY <1>1, <1>4, <2>1 DEF SessionInv, TypesInv, RowsInv
  <1> QED BY <1>3, <1>5, <1>6 DEF SessionInv

LEMMA RevokeKeeps ==
  ASSUME SessionInv, NEW c \in Callers, Revoke(c) PROVE SessionInv'
  <1> DEFINE j == call[c].jti
             rows == [revoked EXCEPT ![j] = IF @ = 0 THEN RowExpiry(j) ELSE @]
             over == {k \in Jtis : rows[k] # 0 /\ rows[k] <= second}
             purged == {k \in over : Cardinality({x \in over : rows[x] < rows[k]}) < PurgeLimit}
  <1>1. /\ revoked' = [k \in Jtis |-> IF k \in purged THEN 0 ELSE rows[k]]
        /\ loggedOut' = loggedOut \union {j}
        /\ call' = [call EXCEPT ![c] = NoCall]
        /\ UNCHANGED <<second, credentials, issued>>
    BY DEF Revoke
  <1>2. j \in Jtis /\ issued[j] # NoToken
    BY DEF Revoke, SessionInv, TokensInv
  <1>3. \A k \in Jtis : rows[k] \in {0, issued[k].exp} /\ rows[k] \in Nat
    BY <1>2 DEF RowExpiry, SessionInv, TypesInv, RowsInv
  <1>4. rows[j] = issued[j].exp /\ \A k \in Jtis : revoked[k] # 0 => rows[k] # 0
    BY <1>2 DEF RowExpiry, SessionInv, TypesInv, RowsInv
  <1>5. \A k \in purged : k \in Jtis /\ rows[k] <= second
    OBVIOUS
  <1> HIDE DEF rows, purged
  <1>6. TypesInv'
    BY <1>1, <1>2, <1>3 DEF SessionInv, TypesInv, NoCall, Calls
  <1>7. TokensInv'
    BY <1>1, <1>2 DEF SessionInv, TypesInv, TokensInv, NoCall
  <1>8. \A k \in Jtis : revoked'[k] \in {0, issued[k].exp}
    BY <1>1, <1>3
  <1>9. ASSUME NEW k \in loggedOut', second < issued[k].exp
        PROVE  revoked'[k] # 0
    <2>1. k \in Jtis /\ issued[k].exp \in Nat /\ second \in Nat
      BY <1>1, <1>2 DEF SessionInv, TypesInv
    <2>2. rows[k] # 0
      BY <1>1, <1>4, <1>9, <2>1 DEF SessionInv, RowsInv
    <2>3. rows[k] = issued[k].exp
      BY <1>3, <2>1, <2>2
    <2>4. k \notin purged
      BY <1>5, <1>9, <2>1, <2>3
    <2> QED BY <1>1, <2>1, <2>2, <2>4
  <1>10. RowsInv'
    BY <1>1, <1>8, <1>9 DEF RowsInv
  <1> QED BY <1>6, <1>7, <1>10 DEF SessionInv

\* A request that moves on carries the token it came with.
LEMMA CallKeeps ==
  ASSUME SessionInv, NEW c \in Callers,
         \/ \E j \in Jtis, does \in {"request", "logout"} : PresentToken(c, j, does)
         \/ LookUpRevocation(c)
         \/ Answer(c)
  PROVE  SessionInv'
  <1>1. UNCHANGED <<second, credentials, issued, revoked, loggedOut>>
    BY DEF PresentToken, LookUpRevocation, Answer
  <1>2. RowsInv'
    BY <1>1 DEF SessionInv, RowsInv
  <1>3. CASE \E j \in Jtis, does \in {"request", "logout"} : PresentToken(c, j, does)
    <2>1. PICK j \in Jtis, does \in {"request", "logout"} : PresentToken(c, j, does)
      BY <1>3
    <2>2. PICK p \in {"lookup", "refused"} :
            call' = [call EXCEPT ![c] = [pc |-> p, does |-> does, jti |-> j]]
      BY <2>1 DEF PresentToken
    <2>3. TypesInv'
      BY <1>1, <2>2 DEF SessionInv, TypesInv, Calls
    <2>4. TokensInv'
      BY <1>1, <2>1, <2>2 DEF SessionInv, TypesInv, TokensInv, PresentToken
    <2> QED BY <1>2, <2>3, <2>4 DEF SessionInv
  <1>4. CASE LookUpRevocation(c)
    <2>1. PICK p \in {"refused", "revoking", "admitted"} :
            call' = [call EXCEPT ![c].pc = p]
      BY <1>4 DEF LookUpRevocation
    <2>2. call[c].pc = "lookup"
      BY <1>4 DEF LookUpRevocation
    <2>3. TypesInv'
      BY <1>1, <2>1 DEF SessionInv, TypesInv, Calls
    <2>4. TokensInv'
      BY <1>1, <2>1, <2>2 DEF SessionInv, TypesInv, Calls, TokensInv
    <2> QED BY <1>2, <2>3, <2>4 DEF SessionInv
  <1>5. CASE Answer(c)
    BY <1>1, <1>2, <1>5 DEF Answer, SessionInv, TypesInv, TokensInv, NoCall, Calls
  <1> QED BY <1>3, <1>4, <1>5

\* Every step preserves the invariant.
LEMMA SessionInvStep == SessionInv /\ [SessionNext]_sessionVars => SessionInv'
  <1> SUFFICES ASSUME SessionInv, [SessionNext]_sessionVars PROVE SessionInv'
    OBVIOUS
  <1>1. CASE SecondPasses
    BY <1>1 DEF SecondPasses, SessionInv, TypesInv, TokensInv, RowsInv
  <1>2. CASE ChangeCredentials
    BY <1>2 DEF ChangeCredentials, SessionInv, TypesInv, TokensInv, RowsInv
  <1>3. CASE UNCHANGED sessionVars
    BY <1>3 DEF sessionVars, SessionInv, TypesInv, TokensInv, RowsInv
  <1> QED BY <1>1, <1>2, <1>3, LoginKeeps, RevokeKeeps, CallKeeps DEF SessionNext

-----------------------------------------------------------------------------

\* The lookup that lets a request on is the only step of interest: it saw no
\* row, so the token had not been logged out, or had expired.
LEMMA OnlyUnrevokedPass ==
  ASSUME SessionInv, [SessionNext]_sessionVars, NEW c \in Callers,
         call[c].pc = "lookup", call'[c].pc \in {"admitted", "revoking"}
  PROVE  call[c].jti \notin loggedOut \/ second >= issued[call[c].jti].exp
  <1>1. CASE LookUpRevocation(c)
    <2>1. call'[c].pc = IF revoked[call[c].jti] # 0 THEN "refused"
                        ELSE IF call[c].does = "logout" THEN "revoking" ELSE "admitted"
      BY <1>1 DEF LookUpRevocation, SessionInv, TypesInv, Calls
    <2>2. revoked[call[c].jti] = 0
      BY <2>1
    <2> QED BY <2>2 DEF SessionInv, TypesInv, RowsInv
  <1>2. CASE UNCHANGED call
    BY <1>2
  <1>3. ASSUME NEW d \in Callers, d # c,
               \/ \E j \in Jtis, does \in {"request", "logout"} : PresentToken(d, j, does)
               \/ LookUpRevocation(d) \/ Revoke(d) \/ Answer(d)
        PROVE  FALSE
    <2>1. call'[c] = call[c]
      BY <1>3 DEF PresentToken, LookUpRevocation, Revoke, Answer, SessionInv, TypesInv
    <2> QED BY <2>1
  <1>4. CASE \/ \E j \in Jtis, does \in {"request", "logout"} : PresentToken(c, j, does)
             \/ Revoke(c) \/ Answer(c)
    <2>1. ~ Revoke(c) /\ \A j \in Jtis, does \in {"request", "logout"} : ~ PresentToken(c, j, does)
      BY DEF Revoke, PresentToken
    <2>2. call'[c] = NoCall
      BY <1>4, <2>1 DEF Answer, SessionInv, TypesInv
    <2> QED BY <2>2 DEF NoCall
  <1>5. Login \/ SecondPasses \/ ChangeCredentials \/ UNCHANGED sessionVars => UNCHANGED call
    BY DEF Login, SecondPasses, ChangeCredentials, sessionVars
  <1> QED BY <1>1, <1>2, <1>3, <1>4, <1>5 DEF SessionNext

\* After a logout its token lets no request in while it would still be valid,
\* whatever other logouts purge (admin-session.ts 24-47).
THEOREM SessionsLoggedOutStaysOut == SessionSpec => LoggedOutStaysOut
  <1>1. SessionInv /\ [SessionNext]_sessionVars =>
          [\A c \in Callers :
             call[c].pc = "lookup" /\ call'[c].pc \in {"admitted", "revoking"}
               => call[c].jti \notin loggedOut \/ second >= issued[call[c].jti].exp]_sessionVars
    BY OnlyUnrevokedPass
  <1> QED BY <1>1, SessionInvInit, SessionInvStep, PTL DEF SessionSpec, LoggedOutStaysOut

-----------------------------------------------------------------------------
(* The types of the sessions: the bounds on the clock and on credentials,  *)
(* which the argument above does not need.                                 *)

SessionTypeInv == SessionInv /\ SessionTypeOK

LEMMA SessionTypesStart == SessionInit => SessionTypeInv
  <1> SUFFICES ASSUME SessionInit PROVE SessionTypeOK
    BY SessionInvInit DEF SessionTypeInv
  <1> QED BY SessionAssumption DEF SessionInit, SessionTypeOK, Seconds, NoToken, NoCall

LEMMA SessionTypesStep ==
  SessionTypeInv /\ [SessionNext]_sessionVars => SessionTypeInv'
  <1> SUFFICES ASSUME SessionTypeInv, [SessionNext]_sessionVars PROVE SessionTypeOK'
    BY SessionInvStep DEF SessionTypeInv
  <1> USE SessionAssumption
  <1>1. TypesInv' /\ SessionTypeOK
    BY SessionInvStep DEF SessionTypeInv, SessionInv
  <1>2. second' \in Seconds /\ credentials' \in 1..MaxCredentials
    BY <1>1 DEF SessionNext, Login, SecondPasses, ChangeCredentials, PresentToken,
                LookUpRevocation, Revoke, Answer, sessionVars, SessionTypeOK, Seconds
  <1>3. issued' \in [Jtis -> [creds: 0..MaxCredentials, exp: Nat]]
    <2>1. CASE Login
      BY <1>1, <2>1 DEF Login, SessionTypeOK, Seconds
    <2>2. CASE UNCHANGED issued
      BY <1>1, <2>2 DEF SessionTypeOK
    <2> QED
      BY <2>1, <2>2 DEF SessionNext, SecondPasses, ChangeCredentials, PresentToken,
         LookUpRevocation, Revoke, Answer, sessionVars
  <1> QED BY <1>1, <1>2, <1>3 DEF TypesInv, Calls, SessionTypeOK

-----------------------------------------------------------------------------
(* The configuration an administrator edits.                               *)

\* The rows of the tables.  The validation of the handlers accepted them, or an
\* uploaded file brought them.
SoundMonitors == {row \in MonitorRows : imported \/ ValidMonitor(row)} \union {NoRow}
SoundChannels == {row \in ChannelRows : imported \/ ValidChannel(row)} \union {NoRow}
SoundWindows == {n \in Nat : imported \/ n <= WindowLimit}

SoundFiles == [monitor: [MonitorIds -> SoundMonitors],
               channel: [ChannelIds -> SoundChannels],
               page: [PageIds -> {"open", "locked", NoRow}],
               bound: SUBSET (MonitorIds \X ChannelIds),
               shown: SUBSET (PageIds \X MonitorIds),
               windows: [MonitorIds -> SoundWindows],
               retention: {"default", "custom"}]

\* What was or is in the tables: rows of ids that were given out.
Sound(file) == file \in SoundFiles /\ Present(file.page) \subseteq used

TablesInv ==
  /\ tables \in [file: SoundFiles, alert: SUBSET MonitorIds, token: SUBSET MonitorIds]
  /\ Sound(tables.file) /\ Consistent(tables.file)
  /\ used \subseteq MonitorIds \union ChannelIds \union PageIds
  /\ orders \in 0..MaxOrders /\ imported \in BOOLEAN

OrderFields == {"pc", "id", "row", "wish", "stale"}

OrderShape ==
  /\ DOMAIN order = Admins
  /\ \A q \in Admins : /\ DOMAIN order[q] = OrderFields
                       /\ order[q].pc \in Places
                       /\ order[q].stale \in {0, 1}

EditWishes == [type: {"http", "agent"}, target: {0, 1}, chosen: SUBSET ChannelIds,
               rebind: {0, 1}]
PageWishes == [access: {"same", "open", "locked"}, chosen: SUBSET MonitorIds,
               relink: {0, 1}]
ChannelWishes == [kind: {"slack", "discord"}, config: {"absent", "blank", "secret"}]

\* What a request remembers: what it read and was asked for.
Remembers(q) ==
  LET o == order[q]
  IN  /\ o.pc \in {"insertAlert", "insertToken", "bind"} =>
           o.id \in MonitorIds /\ o.row \in MonitorRows /\ o.wish \in SUBSET ChannelIds
      /\ o.pc \in {"editMonitor", "editToken", "editBindings"} =>
           /\ o.id \in MonitorIds /\ o.row \in MonitorRows /\ o.wish \in EditWishes
           /\ ValidMonitor(Merged(o.row, o.wish))
      /\ o.pc = "deleting" => o.id = "deletion" /\ o.row \in SUBSET MonitorIds
      /\ o.pc = "editChannel" =>
           /\ o.id \in ChannelIds /\ o.row \in ChannelRows /\ o.wish \in ChannelWishes
           /\ ValidChannel(MergedChannel(o.row, o.wish))
      /\ o.pc = "applying" => o.id \in ChannelIds
      /\ o.pc \in {"editPage", "editLinks"} =>
           o.id \in PageIds /\ o.row \in {"open", "locked"} /\ o.wish \in PageWishes
      /\ o.pc = "addWindows" => o.id \in MonitorIds /\ o.wish \in 1..WindowLimit
      /\ o.pc = "exporting" => o.id = "export"
      /\ o.pc = "restoring" => o.id = NoRow /\ Sound(o.row) /\ Consistent(o.row)

\* The tables read after k queries.
FirstQueries(k) == {Queries[i] : i \in 1..k}

ReadSoFar(row, k, file) == row = [table \in FirstQueries(k) |-> file[table]]

\* An export has read a part of one sound configuration: its tables may be of
\* different moments.
ExportInv ==
  \A q \in Admins : At(q, "exporting") =>
    \E file \in SoundFiles, k \in 0..7 :
      Sound(file) /\ ReadSoFar(order[q].row, k, file)

BackupInv == \A file \in backup : Sound(file)

\* A page edit that no other write of the page outdated knows its access.
PageInv ==
  \A q \in Admins : At(q, "editPage") =>
    /\ order[q].id \in used
    /\ order[q].stale = 0 => order[q].row = tables.file.page[order[q].id]

Handles(q, m) == ~At(q, "idle") /\ order[q].id \in {m, NoRow}

\* Request q is about to write the token of monitor m.
Brings(q, m) ==
  /\ order[q].id = m
  /\ \/ At(q, "insertAlert") \/ At(q, "insertToken")
     \/ At(q, "editToken") /\ ~HadToken(q)

LacksToken(m) ==
  m \in Monitors \ tables.token /\ tables.file.monitor[m].type \in PushTypes

\* What a request on a monitor nobody else is at knows of the monitor's row, as
\* long as the monitor was not deleted.
Knows(q) ==
  LET m == order[q].id
      type == tables.file.monitor[m].type
  IN  m \in Monitors =>
        /\ order[q].pc \in {"insertAlert", "insertToken", "editMonitor"} =>
             type = order[q].row.type
        /\ At(q, "insertToken") => type \in PushTypes
        /\ At(q, "editToken") =>
             /\ type = order[q].wish.type
             /\ HadToken(q) => m \in tables.token

TokenInv ==
  \A m \in MonitorIds \ shaken :
    /\ \A q, r \in Admins : Handles(q, m) /\ Handles(r, m) => q = r
    /\ \A q \in Admins : order[q].id = m => Knows(q)
    /\ LacksToken(m) => \E q \in Admins : Brings(q, m)

HistoryInv == history \in [MonitorIds -> [HistoryTables -> Nat]]

\* What a destruction that was counted would write is within the limit, and what
\* it was charged too little for.
CountedInv ==
  /\ HistoryInv
  /\ grown \in [Admins -> Nat]
  /\ \A q \in Admins : order[q].pc \in Destructions =>
       Destroys(q) <= WriteLimit + grown[q]

ConfInv ==
  /\ TablesInv /\ OrderShape /\ (\A q \in Admins : Remembers(q))
  /\ ExportInv /\ BackupInv /\ PageInv /\ TokenInv /\ CountedInv

ConfTables == [file: SoundFiles, alert: SUBSET MonitorIds, token: SUBSET MonitorIds]

\* What a step of request q leaves of the others: they remember the same.
OthersFollow(q) ==
  \A r \in Admins \ {q} :
    /\ order'[r].pc = order[r].pc /\ order'[r].id = order[r].id
    /\ order'[r].row = order[r].row /\ order'[r].wish = order[r].wish
    /\ order'[r].stale \in {order[r].stale, 1}

\* A request ends, goes on with the same row, or starts.
GoesOn(q) ==
  /\ shaken \subseteq shaken'
  /\ \/ order'[q].pc = "idle"
     \/ order[q].pc # "idle" /\ order'[q].id = order[q].id
     \/ Ask(order'[q].id)

LEMMA OrdersFollow ==
  ASSUME OrderShape, NEW q \in Admins, Remembers(q), Handle(q)
  PROVE  OrderShape' /\ OthersFollow(q) /\ GoesOn(q)
<1>1. ASSUME CreateMonitor(q) PROVE OrderShape' /\ OthersFollow(q) /\ GoesOn(q)
  BY <1>1 DEF CreateMonitor, At, Ask, Start, InFlightOn, NoOrder, Places, OrderShape,
     OrderFields, OthersFollow, GoesOn
<1>2. ASSUME InsertAlert(q) PROVE OrderShape' /\ OthersFollow(q) /\ GoesOn(q)
  <2> DEFINE place == IF order[q].row.type \in PushTypes THEN "insertToken" ELSE "bind"
  <2>1. place \in {"insertToken", "bind"}
    OBVIOUS
  <2>2. (Then(q, place) /\ UNCHANGED shaken) \/ Abandon(q)
    BY <1>2 DEF InsertAlert, Attempt
  <2>3. order[q].pc # "idle"
    BY <1>2 DEF InsertAlert, At
  <2> HIDE DEF place
  <2> QED
    BY <2>1, <2>2, <2>3 DEF Then, Abandon, Reply, NoOrder, Places, OrderShape,
       OrderFields, OthersFollow, GoesOn
<1>3. ASSUME InsertToken(q) PROVE OrderShape' /\ OthersFollow(q) /\ GoesOn(q)
  BY <1>3 DEF InsertToken, At, Attempt, Then, Abandon, Reply, NoOrder, Places,
     OrderShape, OrderFields, OthersFollow, GoesOn
<1>4. ASSUME BindChannels(q) PROVE OrderShape' /\ OthersFollow(q) /\ GoesOn(q)
  BY <1>4 DEF BindChannels, At, Reply, Abandon, NoOrder, Places, OrderShape,
     OrderFields, OthersFollow, GoesOn
<1>5. ASSUME ReadMonitor(q) PROVE OrderShape' /\ OthersFollow(q) /\ GoesOn(q)
  BY <1>5 DEF ReadMonitor, At, Ask, Start, InFlightOn, NoOrder, Places, OrderShape,
     OrderFields, OthersFollow, GoesOn
<1>6. ASSUME EditMonitor(q) PROVE OrderShape' /\ OthersFollow(q) /\ GoesOn(q)
  BY <1>6 DEF EditMonitor, At, Then, NoOrder, Places, OrderShape, OrderFields,
     OthersFollow, GoesOn
<1>7. ASSUME EditToken(q) PROVE OrderShape' /\ OthersFollow(q) /\ GoesOn(q)
  BY <1>7 DEF EditToken, At, Attempt, Then, Abandon, Reply, NoOrder, Places,
     OrderShape, OrderFields, OthersFollow, GoesOn
<1>8. ASSUME EditBindings(q) PROVE OrderShape' /\ OthersFollow(q) /\ GoesOn(q)
  BY <1>8 DEF EditBindings, At, Reply, Abandon, NoOrder, Places, OrderShape,
     OrderFields, OthersFollow, GoesOn
<1>9. ASSUME CountForDelete(q) PROVE OrderShape' /\ OthersFollow(q) /\ GoesOn(q)
  BY <1>9 DEF CountForDelete, At, Ask, Start, InFlightOn, NoOrder, Places,
     OrderShape, OrderFields, OthersFollow, GoesOn
<1>10. ASSUME DeleteMonitors(q) PROVE OrderShape' /\ OthersFollow(q) /\ GoesOn(q)
  BY <1>10 DEF DeleteMonitors, At, Reply, NoOrder, Places, OrderShape, OrderFields,
     OthersFollow, GoesOn
<1>11. ASSUME CreateChannel(q) PROVE OrderShape' /\ OthersFollow(q) /\ GoesOn(q)
  BY <1>11 DEF CreateChannel, At, Ask, InFlightOn, NoOrder, Places, OrderShape,
     OrderFields, OthersFollow, GoesOn
<1>12. ASSUME ReadChannel(q) PROVE OrderShape' /\ OthersFollow(q) /\ GoesOn(q)
  BY <1>12 DEF ReadChannel, At, Ask, Start, InFlightOn, NoOrder, Places, OrderShape,
     OrderFields, OthersFollow, GoesOn
<1>13. ASSUME EditChannel(q) PROVE OrderShape' /\ OthersFollow(q) /\ GoesOn(q)
  BY <1>13 DEF EditChannel, At, Reply, NoOrder, Places, OrderShape, OrderFields,
     OthersFollow, GoesOn
<1>14. ASSUME DeleteChannel(q) PROVE OrderShape' /\ OthersFollow(q) /\ GoesOn(q)
  BY <1>14 DEF DeleteChannel, At, Ask, InFlightOn, NoOrder, Places, OrderShape,
     OrderFields, OthersFollow, GoesOn
<1>15. ASSUME FindChannel(q) PROVE OrderShape' /\ OthersFollow(q) /\ GoesOn(q)
  BY <1>15 DEF FindChannel, At, Ask, Start, InFlightOn, NoOrder, Places, OrderShape,
     OrderFields, OthersFollow, GoesOn
<1>16. ASSUME ApplyToAll(q) PROVE OrderShape' /\ OthersFollow(q) /\ GoesOn(q)
  BY <1>16 DEF ApplyToAll, At, Reply, Abandon, NoOrder, Places, OrderShape,
     OrderFields, OthersFollow, GoesOn
<1>17. ASSUME CreatePage(q) PROVE OrderShape' /\ OthersFollow(q) /\ GoesOn(q)
  BY <1>17 DEF CreatePage, At, Ask, InFlightOn, NoOrder, Places, OrderShape,
     OrderFields, OthersFollow, GoesOn
<1>18. ASSUME ReadPage(q) PROVE OrderShape' /\ OthersFollow(q) /\ GoesOn(q)
  BY <1>18 DEF ReadPage, At, Ask, Start, InFlightOn, NoOrder, Places, OrderShape,
     OrderFields, OthersFollow, GoesOn
<1>19. ASSUME EditPage(q) PROVE OrderShape' /\ OthersFollow(q) /\ GoesOn(q)
  BY <1>19 DEF EditPage, At, Outdate, NoOrder, Places, OrderShape, OrderFields,
     OthersFollow, GoesOn
<1>20. ASSUME EditLinks(q) PROVE OrderShape' /\ OthersFollow(q) /\ GoesOn(q)
  BY <1>20 DEF EditLinks, At, Reply, Abandon, NoOrder, Places, OrderShape,
     OrderFields, OthersFollow, GoesOn
<1>21. ASSUME DeletePage(q) PROVE OrderShape' /\ OthersFollow(q) /\ GoesOn(q)
  BY <1>21 DEF DeletePage, At, Ask, Outdate, InFlightOn, NoOrder, Places, OrderShape,
     OrderFields, OthersFollow, GoesOn
<1>22. ASSUME PutSettings(q) PROVE OrderShape' /\ OthersFollow(q) /\ GoesOn(q)
  BY <1>22 DEF PutSettings, At, Ask, InFlightOn, NoOrder, Places, OrderShape,
     OrderFields, OthersFollow, GoesOn
<1>23. ASSUME FindMonitorForWindows(q) PROVE OrderShape' /\ OthersFollow(q) /\ GoesOn(q)
  BY <1>23 DEF FindMonitorForWindows, At, Ask, Start, InFlightOn, NoOrder, Places,
     OrderShape, OrderFields, OthersFollow, GoesOn
<1>24. ASSUME AddWindows(q) PROVE OrderShape' /\ OthersFollow(q) /\ GoesOn(q)
  BY <1>24 DEF AddWindows, At, Reply, Abandon, NoOrder, Places, OrderShape,
     OrderFields, OthersFollow, GoesOn
<1>25. ASSUME BeginExport(q) PROVE OrderShape' /\ OthersFollow(q) /\ GoesOn(q)
  BY <1>25 DEF BeginExport, At, Ask, Start, InFlightOn, NoOrder, Places, OrderShape,
     OrderFields, OthersFollow, GoesOn
<1>26. ASSUME ReadTable(q) PROVE OrderShape' /\ OthersFollow(q) /\ GoesOn(q)
  BY <1>26 DEF ReadTable, At, NoOrder, Places, OrderShape, OrderFields, OthersFollow,
     GoesOn
<1>27. ASSUME Download(q) PROVE OrderShape' /\ OthersFollow(q) /\ GoesOn(q)
  BY <1>27 DEF Download, At, Reply, NoOrder, Places, OrderShape, OrderFields,
     OthersFollow, GoesOn
<1>28. ASSUME CountForRestore(q) PROVE OrderShape' /\ OthersFollow(q) /\ GoesOn(q)
  BY <1>28 DEF CountForRestore, At, Ask, Start, InFlightOn, NoOrder, Places,
     OrderShape, OrderFields, OthersFollow, GoesOn
<1>29. ASSUME Restore(q) PROVE OrderShape' /\ OthersFollow(q) /\ GoesOn(q)
  <2>1. /\ order' = [r \in Admins |-> IF r = q THEN NoOrder ELSE [order[r] EXCEPT !.stale = 1]]
        /\ UNCHANGED shaken
    BY <1>29 DEF Restore
  <2> QED
    BY <2>1 DEF NoOrder, Places, OrderShape, OrderFields, OthersFollow, GoesOn
<1>30. ASSUME CutOff(q) PROVE OrderShape' /\ OthersFollow(q) /\ GoesOn(q)
  BY <1>30 DEF CutOff, Abandon, Reply, NoOrder, Places, OrderShape, OrderFields,
     OthersFollow, GoesOn
<1> QED
  BY <1>1, <1>2, <1>3, <1>4, <1>5, <1>6, <1>7, <1>8, <1>9, <1>10, <1>11,
     <1>12, <1>13, <1>14, <1>15, <1>16, <1>17, <1>18, <1>19, <1>20, <1>21,
     <1>22, <1>23, <1>24, <1>25, <1>26, <1>27, <1>28, <1>29, <1>30 DEF Handle

\* What was accepted stays accepted: an uploaded file can only add to it.
LEMMA SameSound ==
  imported' = imported => /\ SoundMonitors' = SoundMonitors /\ SoundChannels' = SoundChannels
                          /\ SoundWindows' = SoundWindows /\ SoundFiles' = SoundFiles
  BY DEF SoundMonitors, SoundChannels, SoundWindows, SoundFiles

LEMMA FilesStaySound ==
  ASSUME imported => imported'
  PROVE  SoundFiles \subseteq SoundFiles'
<1>1. /\ SoundMonitors \subseteq SoundMonitors' /\ SoundChannels \subseteq SoundChannels'
      /\ SoundWindows \subseteq SoundWindows'
  BY DEF SoundMonitors, SoundChannels, SoundWindows
<1> QED
  BY <1>1 DEF SoundFiles

LEMMA SoundStays ==
  ASSUME used \subseteq used', imported => imported', NEW file, Sound(file)
  PROVE  file \in SoundFiles' /\ Present(file.page) \subseteq used'
  BY FilesStaySound DEF Sound

\* One table is written, and the others stay.
OnlyWrites(table, value) ==
  /\ tables' \in ConfTables
  /\ tables'.alert = tables.alert /\ tables'.token = tables.token
  /\ tables'.file = [tables.file EXCEPT ![table] = value]

LEMMA MonitorWritten ==
  ASSUME TablesInv, NEW m \in MonitorIds, NEW row \in SoundMonitors, row # NoRow,
         WriteRow("monitor", m, row)
  PROVE  /\ OnlyWrites("monitor", [tables.file.monitor EXCEPT ![m] = row])
         /\ Present(tables'.file.monitor) = Monitors \union {m}
<1>1. tables.file \in SoundFiles /\ tables \in ConfTables
  BY DEF TablesInv, ConfTables
<1>2. tables' = [tables EXCEPT !.file = [tables.file EXCEPT !.monitor = [tables.file.monitor EXCEPT ![m] = row]]]
  BY DEF WriteRow
<1>3. tables'.file = [tables.file EXCEPT !.monitor = [tables.file.monitor EXCEPT ![m] = row]]
      /\ tables'.alert = tables.alert /\ tables'.token = tables.token
  BY <1>1, <1>2 DEF ConfTables
<1>4. tables'.file \in SoundFiles
  BY <1>1, <1>3 DEF SoundFiles
<1>5. tables' \in ConfTables
  BY <1>1, <1>2, <1>3, <1>4 DEF ConfTables
<1>6. Present(tables'.file.monitor) = Monitors \union {m}
  BY <1>1, <1>3 DEF SoundFiles, Present, Monitors
<1> QED
  BY <1>3, <1>5, <1>6 DEF OnlyWrites

LEMMA ChannelWritten ==
  ASSUME TablesInv, NEW c \in ChannelIds, NEW row \in SoundChannels, row # NoRow,
         WriteRow("channel", c, row)
  PROVE  /\ OnlyWrites("channel", [tables.file.channel EXCEPT ![c] = row])
         /\ Present(tables'.file.channel) = Channels \union {c}
<1>1. tables.file \in SoundFiles /\ tables \in ConfTables
  BY DEF TablesInv, ConfTables
<1>2. tables' = [tables EXCEPT !.file = [tables.file EXCEPT !.channel = [tables.file.channel EXCEPT ![c] = row]]]
  BY DEF WriteRow
<1>3. tables'.file = [tables.file EXCEPT !.channel = [tables.file.channel EXCEPT ![c] = row]]
      /\ tables'.alert = tables.alert /\ tables'.token = tables.token
  BY <1>1, <1>2 DEF ConfTables
<1>4. tables'.file \in SoundFiles
  BY <1>1, <1>3 DEF SoundFiles
<1>5. tables' \in ConfTables
  BY <1>1, <1>2, <1>3, <1>4 DEF ConfTables
<1>6. Present(tables'.file.channel) = Channels \union {c}
  BY <1>1, <1>3 DEF SoundFiles, Present, Channels
<1> QED
  BY <1>3, <1>5, <1>6 DEF OnlyWrites

LEMMA PageWritten ==
  ASSUME TablesInv, NEW p \in PageIds, NEW access \in {"open", "locked"},
         WriteRow("page", p, access)
  PROVE  /\ OnlyWrites("page", [tables.file.page EXCEPT ![p] = access])
         /\ Present(tables'.file.page) = ShownPages \union {p}
<1>1. tables.file \in SoundFiles /\ tables \in ConfTables
  BY DEF TablesInv, ConfTables
<1>2. tables' = [tables EXCEPT !.file = [tables.file EXCEPT !.page = [tables.file.page EXCEPT ![p] = access]]]
  BY DEF WriteRow
<1>3. tables'.file = [tables.file EXCEPT !.page = [tables.file.page EXCEPT ![p] = access]]
      /\ tables'.alert = tables.alert /\ tables'.token = tables.token
  BY <1>1, <1>2 DEF ConfTables
<1>4. tables'.file \in SoundFiles
  BY <1>1, <1>3 DEF SoundFiles
<1>5. tables' \in ConfTables
  BY <1>1, <1>2, <1>3, <1>4 DEF ConfTables
<1>6. Present(tables'.file.page) = ShownPages \union {p}
  BY <1>1, <1>3, IdsAssumption DEF SoundFiles, Present, ShownPages
<1> QED
  BY <1>3, <1>5, <1>6 DEF OnlyWrites

\* A row more leaves every reference with its end.
LEMMA MoreRowsConsistent ==
  ASSUME TablesInv, tables'.file \in SoundFiles,
         Monitors \subseteq Present(tables'.file.monitor),
         Channels \subseteq Present(tables'.file.channel),
         ShownPages \subseteq Present(tables'.file.page),
         tables'.file.bound = tables.file.bound, tables'.file.shown = tables.file.shown,
         tables'.file.windows = tables.file.windows
  PROVE  Consistent(tables.file)'
  BY DEF TablesInv, Consistent, Present, Monitors, Channels, ShownPages, SoundFiles,
     SoundWindows

\* What follows from the tables after a step, with those ids given out.
LEMMA TablesOf ==
  ASSUME TablesInv, used \subseteq used', tables' \in ConfTables,
         Present(tables'.file.page) \subseteq used', Consistent(tables.file)',
         used' \subseteq MonitorIds \union ChannelIds \union PageIds,
         orders' \in 0..MaxOrders, imported' = imported
  PROVE  TablesInv'
  BY SameSound DEF TablesInv, ConfTables, Sound

LEMMA CreateMonitorTables ==
  ASSUME TablesInv, NEW q \in Admins, CreateMonitor(q)
  PROVE  TablesInv'
<1>1. PICK m \in MonitorIds, row \in SoundMonitors :
        /\ row # NoRow /\ WriteRow("monitor", m, row) /\ used' = used \union {m}
        /\ Ask(m) /\ imported' = imported
  BY IdsAssumption DEF CreateMonitor, SoundMonitors, MonitorRows
<1>2. OnlyWrites("monitor", [tables.file.monitor EXCEPT ![m] = row])
         /\ Present(tables'.file.monitor) = Monitors \union {m}
  BY <1>1, MonitorWritten
<1>3. tables' \in ConfTables /\ tables.file \in SoundFiles /\ tables'.file \in SoundFiles
   BY <1>2 DEF OnlyWrites, TablesInv, ConfTables
<1>4. Consistent(tables.file)'
  BY <1>2, <1>3, MoreRowsConsistent DEF OnlyWrites, SoundFiles, Monitors, Channels, ShownPages
<1>5. tables'.file.page = tables.file.page
  BY <1>2, <1>3 DEF OnlyWrites, SoundFiles
<1> QED
  BY <1>1, <1>3, <1>4, <1>5, TablesOf, ConfigurationAssumption DEF TablesInv, Sound, Ask

LEMMA EditMonitorTables ==
  ASSUME TablesInv, NEW q \in Admins, Remembers(q), EditMonitor(q)
  PROVE  TablesInv'
<1> DEFINE m == order[q].id
           row == Merged(order[q].row, order[q].wish)
<1>1. m \in MonitorIds /\ row \in SoundMonitors /\ row # NoRow
  BY IdsAssumption DEF Remembers, EditMonitor, At, SoundMonitors, MonitorRows, Merged, EditWishes
<1>2. UNCHANGED <<used, orders, imported>>
  BY DEF EditMonitor
<1>3. CASE m \in Monitors
  <2> HIDE DEF row
  <2>0. WriteRow("monitor", m, row)
    BY <1>3 DEF EditMonitor, row
  <2>1. OnlyWrites("monitor", [tables.file.monitor EXCEPT ![m] = row])
         /\ Present(tables'.file.monitor) = Monitors \union {m}
    BY <1>1, <2>0, MonitorWritten
  <2>2. tables' \in ConfTables /\ tables.file \in SoundFiles /\ tables'.file \in SoundFiles
    BY <2>1 DEF OnlyWrites, TablesInv, ConfTables
  <2>3. Consistent(tables.file)'
    BY <2>1, <2>2, MoreRowsConsistent DEF OnlyWrites, SoundFiles, Monitors, Channels, ShownPages
  <2>4. tables'.file.page = tables.file.page
    BY <2>1, <2>2 DEF OnlyWrites, SoundFiles
  <2> QED
    BY <1>2, <2>2, <2>3, <2>4, TablesOf DEF TablesInv, Sound
<1>4. CASE m \notin Monitors
  BY <1>2, <1>4, SameSound DEF EditMonitor, TablesInv, Sound, Consistent
<1> QED
  BY <1>3, <1>4

LEMMA CreateChannelTables ==
  ASSUME TablesInv, NEW q \in Admins, CreateChannel(q)
  PROVE  TablesInv'
<1>1. PICK c \in ChannelIds, row \in SoundChannels :
        /\ row # NoRow /\ WriteRow("channel", c, row) /\ used' = used \union {c}
        /\ Ask(c) /\ imported' = imported
  BY IdsAssumption DEF CreateChannel, SoundChannels, ChannelRows
<1>2. OnlyWrites("channel", [tables.file.channel EXCEPT ![c] = row])
         /\ Present(tables'.file.channel) = Channels \union {c}
  BY <1>1, ChannelWritten
<1>3. tables' \in ConfTables /\ tables.file \in SoundFiles /\ tables'.file \in SoundFiles
  BY <1>2 DEF OnlyWrites, TablesInv, ConfTables
<1>4. Consistent(tables.file)'
  BY <1>2, <1>3, MoreRowsConsistent DEF OnlyWrites, SoundFiles, Monitors, Channels, ShownPages
<1>5. tables'.file.page = tables.file.page
  BY <1>2, <1>3 DEF OnlyWrites, SoundFiles
<1> QED
  BY <1>1, <1>3, <1>4, <1>5, TablesOf, ConfigurationAssumption DEF TablesInv, Sound, Ask

LEMMA EditChannelTables ==
  ASSUME TablesInv, NEW q \in Admins, Remembers(q), EditChannel(q)
  PROVE  TablesInv'
<1> DEFINE c == order[q].id
           row == MergedChannel(order[q].row, order[q].wish)
<1>1. c \in ChannelIds /\ row \in SoundChannels /\ row # NoRow
  BY IdsAssumption DEF Remembers, EditChannel, At, SoundChannels, ChannelRows, MergedChannel,
     ChannelWishes
<1>2. UNCHANGED <<used, orders, imported>>
  BY DEF EditChannel
<1>3. CASE c \in Channels
  <2> HIDE DEF row
  <2>0. WriteRow("channel", c, row)
    BY <1>3 DEF EditChannel, row
  <2>1. OnlyWrites("channel", [tables.file.channel EXCEPT ![c] = row])
         /\ Present(tables'.file.channel) = Channels \union {c}
    BY <1>1, <2>0, ChannelWritten
  <2>2. tables' \in ConfTables /\ tables.file \in SoundFiles /\ tables'.file \in SoundFiles
    BY <2>1 DEF OnlyWrites, TablesInv, ConfTables
  <2>3. Consistent(tables.file)'
    BY <2>1, <2>2, MoreRowsConsistent DEF OnlyWrites, SoundFiles, Monitors, Channels, ShownPages
  <2>4. tables'.file.page = tables.file.page
    BY <2>1, <2>2 DEF OnlyWrites, SoundFiles
  <2> QED
    BY <1>2, <2>2, <2>3, <2>4, TablesOf DEF TablesInv, Sound
<1>4. CASE c \notin Channels
  BY <1>2, <1>4, SameSound DEF EditChannel, TablesInv, Sound, Consistent
<1> QED
  BY <1>3, <1>4

LEMMA DeleteChannelTables ==
  ASSUME TablesInv, NEW q \in Admins, DeleteChannel(q)
  PROVE  TablesInv'
<1>1. PICK c \in ChannelIds :
        /\ Ask(c)
        /\ tables' = [tables EXCEPT !.file.channel[c] = NoRow,
                                    !.file.bound = {b \in @ : b[2] # c}]
  <2>1. Channels \subseteq ChannelIds
    BY DEF Channels, TablesInv, Sound, SoundFiles, Present
  <2> QED
    BY <2>1 DEF DeleteChannel
<1>2. tables.file \in SoundFiles /\ tables \in ConfTables /\ Consistent(tables.file)
      /\ UNCHANGED <<used, imported>>
  BY DEF TablesInv, ConfTables, DeleteChannel
<1>3. /\ tables'.file = [tables.file EXCEPT
           !.channel = [tables.file.channel EXCEPT ![c] = NoRow],
           !.bound = {b \in tables.file.bound : b[2] # c}]
      /\ tables'.alert = tables.alert /\ tables'.token = tables.token
      /\ tables' = [tables EXCEPT !.file = tables'.file]
  BY <1>1, <1>2 DEF ConfTables, SoundFiles
<1>4. tables'.file \in SoundFiles
  <2> DEFINE channel == [tables.file.channel EXCEPT ![c] = NoRow]
             bound == {b \in tables.file.bound : b[2] # c}
  <2>1. /\ channel \in [ChannelIds -> SoundChannels]
        /\ bound \in SUBSET (MonitorIds \X ChannelIds)
    BY <1>2 DEF SoundFiles, SoundChannels
  <2> HIDE DEF channel, bound
  <2> QED
    BY <1>2, <1>3, <2>1 DEF SoundFiles, channel, bound
<1>5. tables' \in ConfTables
  BY <1>2, <1>3, <1>4 DEF ConfTables
<1>6. Consistent(tables.file)'
  BY <1>2, <1>3 DEF Consistent, SoundFiles, Present
<1>7. tables'.file.page = tables.file.page
  BY <1>2, <1>3 DEF SoundFiles
<1>8. orders' \in 0..MaxOrders
  BY <1>1, ConfigurationAssumption DEF TablesInv, Ask
<1>9. Present(tables'.file.page) \subseteq used
  BY <1>7 DEF TablesInv, Sound
<1> QED
  BY <1>2, <1>5, <1>6, <1>8, <1>9, TablesOf DEF TablesInv

LEMMA CreatePageTables ==
  ASSUME TablesInv, NEW q \in Admins, CreatePage(q)
  PROVE  TablesInv'
<1>1. PICK p \in PageIds, access \in {"open", "locked"}, chosen \in SUBSET Monitors :
        /\ Ask(p) /\ used' = used \union {p} /\ imported' = imported
        /\ tables' = [tables EXCEPT !.file.page[p] = access,
                                    !.file.shown = @ \union ({p} \X chosen)]
  BY DEF CreatePage
<1>2. tables.file \in SoundFiles /\ tables \in ConfTables /\ Consistent(tables.file)
  BY DEF TablesInv, ConfTables
<1>3. /\ tables'.file = [tables.file EXCEPT
           !.page = [tables.file.page EXCEPT ![p] = access],
           !.shown = tables.file.shown \union ({p} \X chosen)]
      /\ tables'.alert = tables.alert /\ tables'.token = tables.token
      /\ tables' = [tables EXCEPT !.file = tables'.file]
  BY <1>1, <1>2 DEF ConfTables, SoundFiles
<1>4. Monitors \subseteq MonitorIds
  BY <1>2 DEF Monitors, Present, SoundFiles
<1>5. tables'.file \in SoundFiles
  <2> DEFINE page == [tables.file.page EXCEPT ![p] = access]
             links == tables.file.shown \union ({p} \X chosen)
  <2>1. /\ page \in [PageIds -> {"open", "locked", NoRow}]
        /\ links \in SUBSET (PageIds \X MonitorIds)
    BY <1>2, <1>4 DEF SoundFiles
  <2> HIDE DEF page, links
  <2> QED
    BY <1>2, <1>3, <2>1 DEF SoundFiles, page, links
<1>6. tables' \in ConfTables
  BY <1>2, <1>3, <1>5 DEF ConfTables
<1>7. Present(tables'.file.page) = ShownPages \union {p}
  BY <1>2, <1>3, IdsAssumption DEF SoundFiles, Present, ShownPages
<1>8. Consistent(tables.file)'
  BY <1>2, <1>3, <1>7 DEF Consistent, SoundFiles, Monitors, ShownPages
<1> QED
  BY <1>1, <1>2, <1>6, <1>7, <1>8, TablesOf, ConfigurationAssumption
     DEF TablesInv, Sound, Ask, ShownPages

LEMMA EditPageTables ==
  ASSUME TablesInv, NEW q \in Admins, Remembers(q), EditPage(q)
  PROVE  TablesInv'
<1> DEFINE p == order[q].id
           access == MergedAccess(order[q].row, order[q].wish)
<1>1. p \in PageIds /\ access \in {"open", "locked"}
  BY DEF Remembers, EditPage, At, MergedAccess, PageWishes
<1>2. UNCHANGED <<used, orders, imported>>
  BY DEF EditPage
<1>3. CASE p \in ShownPages
  <2> HIDE DEF access
  <2>0. WriteRow("page", p, access)
    BY <1>3 DEF EditPage, access
  <2>1. OnlyWrites("page", [tables.file.page EXCEPT ![p] = access])
         /\ Present(tables'.file.page) = ShownPages \union {p}
    BY <1>1, <2>0, PageWritten
  <2>2. tables' \in ConfTables /\ tables.file \in SoundFiles /\ tables'.file \in SoundFiles
    BY <2>1 DEF OnlyWrites, TablesInv, ConfTables
  <2>3. Consistent(tables.file)'
    BY <2>1, <2>2, MoreRowsConsistent DEF OnlyWrites, SoundFiles, Monitors, Channels, ShownPages
  <2>4. Present(tables'.file.page) \subseteq used
    BY <1>3, <2>1 DEF TablesInv, Sound, ShownPages
  <2> QED
    BY <1>2, <2>2, <2>3, <2>4, TablesOf DEF TablesInv
<1>4. CASE p \notin ShownPages
  BY <1>2, <1>4, SameSound DEF EditPage, TablesInv, Sound, Consistent
<1> QED
  BY <1>3, <1>4

LEMMA DeletePageTables ==
  ASSUME TablesInv, NEW q \in Admins, DeletePage(q)
  PROVE  TablesInv'
<1>1. PICK p \in PageIds :
        /\ Ask(p)
        /\ tables' = [tables EXCEPT !.file.page[p] = NoRow,
                                    !.file.shown = {s \in @ : s[1] # p}]
  <2>1. ShownPages \subseteq PageIds
    BY DEF ShownPages, TablesInv, Sound, SoundFiles, Present
  <2> QED
    BY <2>1 DEF DeletePage
<1>2. tables.file \in SoundFiles /\ tables \in ConfTables /\ Consistent(tables.file)
      /\ UNCHANGED <<used, imported>>
  BY DEF TablesInv, ConfTables, DeletePage
<1>3. /\ tables'.file = [tables.file EXCEPT
           !.page = [tables.file.page EXCEPT ![p] = NoRow],
           !.shown = {s \in tables.file.shown : s[1] # p}]
      /\ tables'.alert = tables.alert /\ tables'.token = tables.token
      /\ tables' = [tables EXCEPT !.file = tables'.file]
  BY <1>1, <1>2 DEF ConfTables, SoundFiles
<1>4. tables'.file \in SoundFiles
  <2> DEFINE page == [tables.file.page EXCEPT ![p] = NoRow]
             links == {s \in tables.file.shown : s[1] # p}
  <2>1. /\ page \in [PageIds -> {"open", "locked", NoRow}]
        /\ links \in SUBSET (PageIds \X MonitorIds)
    BY <1>2 DEF SoundFiles
  <2> HIDE DEF page, links
  <2> QED
    BY <1>2, <1>3, <2>1 DEF SoundFiles, page, links
<1>5. tables' \in ConfTables
  BY <1>2, <1>3, <1>4 DEF ConfTables
<1>6. Consistent(tables.file)'
  BY <1>2, <1>3 DEF Consistent, SoundFiles, Present
<1>7. Present(tables'.file.page) \subseteq ShownPages
  BY <1>2, <1>3 DEF SoundFiles, Present, ShownPages
<1>8. orders' \in 0..MaxOrders
  BY <1>1, ConfigurationAssumption DEF TablesInv, Ask
<1>9. Present(tables'.file.page) \subseteq used
  BY <1>7 DEF TablesInv, Sound, ShownPages
<1> QED
  BY <1>2, <1>5, <1>6, <1>8, <1>9, TablesOf DEF TablesInv

LEMMA DeleteMonitorsTables ==
  ASSUME TablesInv, NEW q \in Admins, DeleteMonitors(q)
  PROVE  TablesInv'
<1> DEFINE S == order[q].row
<1>1. tables.file \in SoundFiles /\ tables \in ConfTables /\ Consistent(tables.file)
      /\ UNCHANGED <<used, orders, imported>>
  BY DEF TablesInv, ConfTables, DeleteMonitors
<1>2. tables' = Without(S)
  BY DEF DeleteMonitors
<1> HIDE DEF S
<1>3. tables'.file = [tables.file EXCEPT
        !.monitor = [m \in MonitorIds |-> IF m \in S THEN NoRow ELSE tables.file.monitor[m]],
        !.windows = [m \in MonitorIds |-> IF m \in S THEN 0 ELSE tables.file.windows[m]],
        !.bound = {b \in tables.file.bound : b[1] \notin S},
        !.shown = {s \in tables.file.shown : s[2] \notin S}]
      /\ tables'.alert = tables.alert \ S /\ tables'.token = tables.token \ S
      /\ tables' = [file |-> tables'.file, alert |-> tables'.alert, token |-> tables'.token]
  BY <1>2 DEF Without
<1>4. tables'.file \in SoundFiles
  <2> DEFINE monitor == [m \in MonitorIds |-> IF m \in S THEN NoRow ELSE tables.file.monitor[m]]
             windows == [m \in MonitorIds |-> IF m \in S THEN 0 ELSE tables.file.windows[m]]
             bound == {b \in tables.file.bound : b[1] \notin S}
             links == {s \in tables.file.shown : s[2] \notin S}
  <2>1. /\ monitor \in [MonitorIds -> SoundMonitors]
        /\ windows \in [MonitorIds -> SoundWindows]
        /\ bound \in SUBSET (MonitorIds \X ChannelIds)
        /\ links \in SUBSET (PageIds \X MonitorIds)
    BY <1>1, ConfigurationAssumption DEF SoundFiles, SoundMonitors, SoundWindows
  <2> HIDE DEF monitor, windows, bound, links
  <2> QED
    BY <1>1, <1>3, <2>1 DEF SoundFiles, monitor, windows, bound, links
<1>5. tables' \in ConfTables
  BY <1>1, <1>3, <1>4 DEF ConfTables
<1>6. Consistent(tables.file)'
  BY <1>1, <1>3 DEF Consistent, SoundFiles, Present
<1>7. tables'.file.page = tables.file.page
  BY <1>1, <1>3 DEF SoundFiles
<1> QED
  BY <1>1, <1>5, <1>6, <1>7, TablesOf DEF TablesInv, Sound

LEMMA RestoreTables ==
  ASSUME TablesInv, NEW q \in Admins, Remembers(q), Restore(q)
  PROVE  TablesInv'
<1> DEFINE file == order[q].row
<1>1. Sound(file) /\ Consistent(file) /\ UNCHANGED <<used, orders, imported>>
  BY DEF Remembers, Restore, At
<1> DEFINE most == Windows(file, MonitorIds)
<1>2. PICK ended \in [MonitorIds -> 0..most] :
        /\ \A m \in MonitorIds : ended[m] <= file.windows[m]
        /\ tables' =
             [file |-> [file EXCEPT !.windows =
                          [m \in MonitorIds |-> file.windows[m] - ended[m]]],
              alert |-> Present(file.monitor),
              token |-> Pushed(file)]
  BY DEF Restore
<1> HIDE DEF file, most
<1>3. /\ tables'.file = [file EXCEPT !.windows =
                          [m \in MonitorIds |-> file.windows[m] - ended[m]]]
      /\ tables'.alert = Present(file.monitor)
      /\ tables'.token \subseteq Present(file.monitor)
      /\ tables' = [file |-> tables'.file, alert |-> tables'.alert, token |-> tables'.token]
  BY <1>2 DEF Pushed
<1>4. \A m \in MonitorIds : /\ file.windows[m] \in SoundWindows
                            /\ file.windows[m] - ended[m] \in SoundWindows
  BY <1>1, <1>2, ConfigurationAssumption DEF Sound, SoundFiles, SoundWindows
<1>5. tables'.file \in SoundFiles
  BY <1>1, <1>3, <1>4 DEF Sound, SoundFiles
<1>6. tables' \in ConfTables
  BY <1>1, <1>3, <1>5 DEF ConfTables, Present, Sound, SoundFiles
<1>7. \A m \in MonitorIds : tables'.file.windows[m] <= file.windows[m]
      /\ tables'.file.windows[m] \in Nat /\ file.windows[m] \in Nat
  BY <1>1, <1>2, <1>3, <1>4 DEF Sound, SoundFiles, SoundWindows
<1>8. /\ tables'.file.monitor = file.monitor /\ tables'.file.channel = file.channel
      /\ tables'.file.page = file.page
      /\ tables'.file.bound = file.bound /\ tables'.file.shown = file.shown
  BY <1>1, <1>3 DEF Sound, SoundFiles
<1>9. Consistent(tables.file)'
  BY <1>1, <1>7, <1>8 DEF Consistent, Present
<1> QED
  BY <1>1, <1>6, <1>8, <1>9, TablesOf DEF TablesInv, Sound

\* What a restore counts is a file of this configuration, or an uploaded one.
LEMMA FileToRestore ==
  ASSUME TablesInv, BackupInv, NEW q \in Admins, CountForRestore(q)
  PROVE  /\ used \subseteq used' /\ (imported => imported')
         /\ used' \subseteq MonitorIds \union ChannelIds \union PageIds
         /\ imported' \in BOOLEAN
         /\ \E file : /\ file \in SoundFiles' /\ Present(file.page) \subseteq used'
                      /\ Consistent(file) /\ Replacement(Weight, file) <= WriteLimit
                      /\ Start(q, "restoring", NoRow, file, NoRow)
<1>1. PICK file \in backup \union Uploads :
        /\ Consistent(file) /\ Replacement(Weight, file) <= WriteLimit
        /\ Start(q, "restoring", NoRow, file, NoRow)
        /\ used' = used \union Present(file.monitor) \union Present(file.channel)
                        \union Present(file.page)
        /\ imported' = (imported \/ file \notin backup)
  BY DEF CountForRestore
<1>2. imported' \in BOOLEAN /\ (imported => imported')
  BY <1>1 DEF TablesInv
<1>3. file \in SoundFiles'
  <2>1. CASE file \in backup
    BY <1>2, <2>1, FilesStaySound DEF BackupInv, Sound
  <2>2. CASE file \notin backup
    <3>1. imported' /\ file \in Files
      BY <1>1, <2>2, UploadsAssumption
    <3>2. SoundMonitors' = MonitorRows \union {NoRow} /\ SoundChannels' = ChannelRows \union {NoRow}
          /\ SoundWindows' = Nat
      BY <3>1 DEF SoundMonitors, SoundChannels, SoundWindows
    <3> QED
      BY <3>1, <3>2 DEF SoundFiles, Files
  <2> QED
    BY <2>1, <2>2
<1>4. /\ Present(file.monitor) \subseteq MonitorIds /\ Present(file.channel) \subseteq ChannelIds
      /\ Present(file.page) \subseteq PageIds
  BY <1>3 DEF SoundFiles, Present
<1> QED
  BY <1>1, <1>2, <1>3, <1>4 DEF TablesInv

\* The rows stay accepted, and the references lead somewhere.
LEMMA TablesFollow ==
  ASSUME TablesInv, BackupInv, OrderShape, NEW q \in Admins, Remembers(q), Handle(q)
  PROVE  TablesInv'
<1>1. ASSUME CreateMonitor(q) PROVE TablesInv'
  BY <1>1, CreateMonitorTables
<1>2. ASSUME InsertAlert(q) PROVE TablesInv'
  BY ConfigurationAssumption, SameSound, <1>2 DEF InsertAlert, At, Monitors, Attempt, PushTypes, Present, Abandon,
     TablesInv, Sound, SoundFiles, Consistent, Remembers
<1>3. ASSUME InsertToken(q) PROVE TablesInv'
  BY ConfigurationAssumption, SameSound, <1>3 DEF InsertToken, At, Monitors, Attempt, Present, Abandon, TablesInv, Sound,
     SoundFiles, Consistent, Remembers
<1>4. ASSUME BindChannels(q) PROVE TablesInv'
  BY ConfigurationAssumption, SameSound, <1>4 DEF BindChannels, At, Monitors, Channels, Write, Abandon, Present,
     TablesInv, Sound, SoundFiles, Consistent, Remembers
<1>5. ASSUME ReadMonitor(q) PROVE TablesInv'
  BY ConfigurationAssumption, SameSound, <1>5 DEF ReadMonitor, Ask, TablesInv, Sound, Consistent
<1>6. ASSUME EditMonitor(q) PROVE TablesInv'
  BY <1>6, EditMonitorTables
<1>7. ASSUME EditToken(q) PROVE TablesInv'
  BY ConfigurationAssumption, SameSound, <1>7 DEF EditToken, At, PushTypes, Attempt, Monitors, Abandon, Present,
     TablesInv, Sound, SoundFiles, Consistent, Remembers
<1>8. ASSUME EditBindings(q) PROVE TablesInv'
  BY ConfigurationAssumption, SameSound, <1>8 DEF EditBindings, At, Monitors, Channels, Write, Abandon, Present,
     TablesInv, Sound, SoundFiles, Consistent, Remembers
<1>9. ASSUME CountForDelete(q) PROVE TablesInv'
  BY ConfigurationAssumption, SameSound, <1>9 DEF CountForDelete, Ask, TablesInv, Sound, Consistent
<1>10. ASSUME DeleteMonitors(q) PROVE TablesInv'
  BY <1>10, DeleteMonitorsTables
<1>11. ASSUME CreateChannel(q) PROVE TablesInv'
  BY <1>11, CreateChannelTables
<1>12. ASSUME ReadChannel(q) PROVE TablesInv'
  BY ConfigurationAssumption, SameSound, <1>12 DEF ReadChannel, Ask, TablesInv, Sound, Consistent
<1>13. ASSUME EditChannel(q) PROVE TablesInv'
  BY <1>13, EditChannelTables
<1>14. ASSUME DeleteChannel(q) PROVE TablesInv'
  BY <1>14, DeleteChannelTables
<1>15. ASSUME FindChannel(q) PROVE TablesInv'
  BY ConfigurationAssumption, SameSound, <1>15 DEF FindChannel, Ask, TablesInv, Sound, Consistent
<1>16. ASSUME ApplyToAll(q) PROVE TablesInv'
  BY ConfigurationAssumption, SameSound, <1>16 DEF ApplyToAll, At, Channels, Write, Monitors, Abandon, Present, TablesInv,
     Sound, SoundFiles, Consistent, Remembers
<1>17. ASSUME CreatePage(q) PROVE TablesInv'
  BY <1>17, CreatePageTables
<1>18. ASSUME ReadPage(q) PROVE TablesInv'
  BY ConfigurationAssumption, SameSound, <1>18 DEF ReadPage, Ask, TablesInv, Sound, Consistent
<1>19. ASSUME EditPage(q) PROVE TablesInv'
  BY <1>19, EditPageTables
<1>20. ASSUME EditLinks(q) PROVE TablesInv'
  BY ConfigurationAssumption, SameSound, <1>20 DEF EditLinks, At, ShownPages, Monitors, Write, Abandon, Present,
     TablesInv, Sound, SoundFiles, Consistent, Remembers
<1>21. ASSUME DeletePage(q) PROVE TablesInv'
  BY <1>21, DeletePageTables
<1>22. ASSUME PutSettings(q) PROVE TablesInv'
  <2>1. /\ Ask("settings") /\ tables' = [tables EXCEPT !.file = [@ EXCEPT !.retention = "custom"]]
        /\ UNCHANGED <<used, imported>>
    BY <1>22 DEF PutSettings, Write
  <2>2. tables' \in ConfTables
    BY <2>1 DEF TablesInv, ConfTables, SoundFiles
  <2>3. Consistent(tables.file)' /\ tables'.file.page = tables.file.page
    BY <2>1 DEF TablesInv, SoundFiles, Consistent
  <2> QED
    BY <2>1, <2>2, <2>3, TablesOf, ConfigurationAssumption DEF TablesInv, Sound, Ask
<1>23. ASSUME FindMonitorForWindows(q) PROVE TablesInv'
  BY ConfigurationAssumption, SameSound, <1>23 DEF FindMonitorForWindows, Ask, TablesInv, Sound, Consistent
<1>24. ASSUME AddWindows(q) PROVE TablesInv'
  <2> DEFINE m == order[q].id
             windows == [tables.file.windows EXCEPT ![m] = @ + order[q].wish]
  <2>1. UNCHANGED <<used, orders, imported>>
    BY <1>24 DEF AddWindows
  <2>2. CASE RoomForWindows(m, order[q].wish) /\ m \in Monitors
    <3>1. /\ tables' = [tables EXCEPT !.file = [@ EXCEPT !.windows = windows]]
          /\ m \in MonitorIds /\ order[q].wish \in 1..WindowLimit
      BY <1>24, <2>2 DEF AddWindows, WriteRow, At, Remembers, TablesInv, SoundFiles
    <3>2. windows \in [MonitorIds -> SoundWindows]
      BY <2>2, <3>1, ConfigurationAssumption DEF RoomForWindows, TablesInv, SoundFiles, SoundWindows
    <3> HIDE DEF windows
    <3>3. tables' \in ConfTables
      BY <3>1, <3>2 DEF TablesInv, ConfTables, SoundFiles
    <3>4. tables'.file = [tables.file EXCEPT !.windows = windows]
      BY <3>1 DEF TablesInv
    <3>5. Consistent(tables.file)' /\ tables'.file.page = tables.file.page
      BY <2>2, <3>1, <3>4 DEF TablesInv, SoundFiles, Consistent, Monitors, Present, windows
    <3> QED
      BY <2>1, <3>3, <3>5, TablesOf DEF TablesInv, Sound
  <2>3. CASE ~(RoomForWindows(m, order[q].wish) /\ m \in Monitors)
    <3>1. UNCHANGED tables
      BY <1>24, <2>3 DEF AddWindows
    <3> QED
      BY <2>1, <3>1, SameSound DEF TablesInv, Sound, Consistent
  <2> QED
    BY <2>2, <2>3
<1>25. ASSUME BeginExport(q) PROVE TablesInv'
  BY ConfigurationAssumption, SameSound, <1>25 DEF BeginExport, Ask, TablesInv, Sound, Consistent
<1>26. ASSUME ReadTable(q) PROVE TablesInv'
  BY ConfigurationAssumption, SameSound, <1>26 DEF ReadTable, TablesInv, Sound, Consistent
<1>27. ASSUME Download(q) PROVE TablesInv'
  BY ConfigurationAssumption, SameSound, <1>27 DEF Download, TablesInv, Sound, Consistent
<1>28. ASSUME CountForRestore(q) PROVE TablesInv'
  <2>1. UNCHANGED tables /\ Ask(NoRow)
    BY <1>28 DEF CountForRestore
  <2>2. tables.file \in SoundFiles' /\ SoundFiles \subseteq SoundFiles'
    BY <1>28, FileToRestore, FilesStaySound DEF TablesInv
  <2> QED
    BY <1>28, <2>1, <2>2, FileToRestore, ConfigurationAssumption
       DEF TablesInv, Sound, Consistent, Ask
<1>29. ASSUME Restore(q) PROVE TablesInv'
  BY <1>29, RestoreTables
<1>30. ASSUME CutOff(q) PROVE TablesInv'
  BY ConfigurationAssumption, SameSound, <1>30 DEF CutOff, TablesInv, Sound, Consistent
<1> QED
  BY <1>1, <1>2, <1>3, <1>4, <1>5, <1>6, <1>7, <1>8, <1>9, <1>10, <1>11,
     <1>12, <1>13, <1>14, <1>15, <1>16, <1>17, <1>18, <1>19, <1>20, <1>21,
     <1>22, <1>23, <1>24, <1>25, <1>26, <1>27, <1>28, <1>29, <1>30 DEF Handle

LEMMA RequestRemembers ==
  ASSUME TablesInv, BackupInv, OrderShape, NEW q \in Admins, Remembers(q), Handle(q)
  PROVE  Remembers(q)'
<1>1. ASSUME CreateMonitor(q) PROVE Remembers(q)'
  BY <1>1 DEF CreateMonitor, Start, NoOrder, OrderShape, OrderFields, Remembers
<1>2. ASSUME InsertAlert(q) PROVE Remembers(q)'
  BY <1>2 DEF InsertAlert, At, Monitors, Attempt, Present, Then, Abandon, Reply,
     NoOrder, OrderShape, OrderFields, Remembers
<1>3. ASSUME InsertToken(q) PROVE Remembers(q)'
  BY <1>3 DEF InsertToken, At, Monitors, Attempt, Present, Then, Abandon, Reply,
     NoOrder, OrderShape, OrderFields, Remembers
<1>4. ASSUME BindChannels(q) PROVE Remembers(q)'
  BY <1>4 DEF BindChannels, At, Monitors, Channels, Reply, Abandon, Present, NoOrder,
     OrderShape, OrderFields, Remembers
<1>5. ASSUME ReadMonitor(q) PROVE Remembers(q)'
  BY <1>5 DEF ReadMonitor, At, Monitors, Start, Present, NoOrder, OrderShape,
     OrderFields, Remembers, EditWishes, ChannelWishes, PageWishes,
     TablesInv, SoundFiles, SoundMonitors, SoundChannels
<1>6. ASSUME EditMonitor(q) PROVE Remembers(q)'
  BY <1>6 DEF EditMonitor, At, Monitors, Then, Present, NoOrder, OrderShape,
     OrderFields, Remembers
<1>7. ASSUME EditToken(q) PROVE Remembers(q)'
  BY <1>7 DEF EditToken, At, Attempt, Monitors, Then, Abandon, Present, Reply,
     NoOrder, OrderShape, OrderFields, Remembers
<1>8. ASSUME EditBindings(q) PROVE Remembers(q)'
  BY <1>8 DEF EditBindings, At, Monitors, Channels, Reply, Abandon, Present, NoOrder,
     OrderShape, OrderFields, Remembers
<1>9. ASSUME CountForDelete(q) PROVE Remembers(q)'
  <2>1. Monitors \subseteq MonitorIds
    BY DEF Monitors, Present, TablesInv, SoundFiles
  <2>2. PICK S \in SUBSET Monitors : Start(q, "deleting", "deletion", S, NoRow)
    BY <1>9 DEF CountForDelete
  <2> QED
    BY <2>1, <2>2 DEF Start, NoOrder, OrderShape, OrderFields, Remembers
<1>10. ASSUME DeleteMonitors(q) PROVE Remembers(q)'
  BY <1>10 DEF DeleteMonitors, At, Reply, NoOrder, OrderShape, OrderFields, Remembers
<1>11. ASSUME CreateChannel(q) PROVE Remembers(q)'
  BY <1>11 DEF CreateChannel, At, NoOrder, OrderShape, OrderFields, Remembers
<1>12. ASSUME ReadChannel(q) PROVE Remembers(q)'
  BY <1>12 DEF ReadChannel, At, Channels, Start, Present, NoOrder, OrderShape,
     OrderFields, Remembers, EditWishes, ChannelWishes, PageWishes,
     TablesInv, SoundFiles, SoundMonitors, SoundChannels
<1>13. ASSUME EditChannel(q) PROVE Remembers(q)'
  BY <1>13 DEF EditChannel, At, Channels, Reply, Present, NoOrder, OrderShape,
     OrderFields, Remembers
<1>14. ASSUME DeleteChannel(q) PROVE Remembers(q)'
  BY <1>14 DEF DeleteChannel, At, Channels, Present, NoOrder, OrderShape, OrderFields,
     Remembers
<1>15. ASSUME FindChannel(q) PROVE Remembers(q)'
  BY <1>15 DEF FindChannel, At, Channels, Start, Present, NoOrder, OrderShape,
     OrderFields, Remembers, TablesInv, SoundFiles
<1>16. ASSUME ApplyToAll(q) PROVE Remembers(q)'
  BY <1>16 DEF ApplyToAll, At, Channels, Monitors, Reply, Abandon, Present, NoOrder,
     OrderShape, OrderFields, Remembers
<1>17. ASSUME CreatePage(q) PROVE Remembers(q)'
  BY <1>17 DEF CreatePage, At, Monitors, Present, NoOrder, OrderShape, OrderFields,
     Remembers
<1>18. ASSUME ReadPage(q) PROVE Remembers(q)'
  BY <1>18 DEF ReadPage, At, ShownPages, Start, Present, NoOrder, OrderShape,
     OrderFields, Remembers, EditWishes, ChannelWishes, PageWishes,
     TablesInv, SoundFiles, SoundMonitors, SoundChannels
<1>19. ASSUME EditPage(q) PROVE Remembers(q)'
  BY <1>19 DEF EditPage, At, ShownPages, MergedAccess, Outdate, Present, NoOrder,
     OrderShape, OrderFields, Remembers
<1>20. ASSUME EditLinks(q) PROVE Remembers(q)'
  BY <1>20 DEF EditLinks, At, ShownPages, Monitors, Reply, Abandon, Present, NoOrder,
     OrderShape, OrderFields, Remembers
<1>21. ASSUME DeletePage(q) PROVE Remembers(q)'
  BY <1>21 DEF DeletePage, At, ShownPages, Outdate, Present, NoOrder, OrderShape,
     OrderFields, Remembers
<1>22. ASSUME PutSettings(q) PROVE Remembers(q)'
  BY <1>22 DEF PutSettings, At, NoOrder, OrderShape, OrderFields, Remembers
<1>23. ASSUME FindMonitorForWindows(q) PROVE Remembers(q)'
  BY <1>23 DEF FindMonitorForWindows, At, Monitors, Start, Present, NoOrder,
     OrderShape, OrderFields, Remembers, TablesInv, SoundFiles
<1>24. ASSUME AddWindows(q) PROVE Remembers(q)'
  BY <1>24 DEF AddWindows, At, Reply, Monitors, Abandon, NoOrder, Present, OrderShape,
     OrderFields, Remembers
<1>25. ASSUME BeginExport(q) PROVE Remembers(q)'
  BY <1>25 DEF BeginExport, At, Start, NoOrder, OrderShape, OrderFields, Remembers
<1>26. ASSUME ReadTable(q) PROVE Remembers(q)'
  BY <1>26 DEF ReadTable, At, NoOrder, OrderShape, OrderFields, Remembers
<1>27. ASSUME Download(q) PROVE Remembers(q)'
  BY <1>27 DEF Download, At, Reply, NoOrder, OrderShape, OrderFields, Remembers
<1>28. ASSUME CountForRestore(q) PROVE Remembers(q)'
  <2>1. PICK file : /\ file \in SoundFiles' /\ Present(file.page) \subseteq used'
                    /\ Consistent(file) /\ Start(q, "restoring", NoRow, file, NoRow)
    BY <1>28, FileToRestore
  <2>2. order'[q].pc = "restoring" /\ order'[q].id = NoRow /\ order'[q].row = file
    BY <2>1 DEF Start, NoOrder, OrderShape
  <2> QED
    BY <2>1, <2>2 DEF Remembers, Sound, Consistent
<1>29. ASSUME Restore(q) PROVE Remembers(q)'
  BY <1>29 DEF Restore, At, NoOrder, OrderShape, OrderFields, Remembers
<1>30. ASSUME CutOff(q) PROVE Remembers(q)'
  BY <1>30 DEF CutOff, Abandon, Reply, NoOrder, OrderShape, OrderFields, Remembers
<1> QED
  BY <1>1, <1>2, <1>3, <1>4, <1>5, <1>6, <1>7, <1>8, <1>9, <1>10, <1>11,
     <1>12, <1>13, <1>14, <1>15, <1>16, <1>17, <1>18, <1>19, <1>20, <1>21,
     <1>22, <1>23, <1>24, <1>25, <1>26, <1>27, <1>28, <1>29, <1>30 DEF Handle

LEMMA TableNames ==
  TablesInv => /\ DOMAIN tables = {"file", "alert", "token"}
               /\ DOMAIN tables.file = {"monitor", "channel", "page", "bound", "shown",
                                         "windows", "retention"}
  BY DEF TablesInv, SoundFiles
\* Which requests write what, and which start what.
Touches(q) ==
  /\ used \subseteq used' /\ (imported => imported')
  /\ tables'.file.monitor # tables.file.monitor =>
       CreateMonitor(q) \/ EditMonitor(q) \/ DeleteMonitors(q) \/ Restore(q)
  /\ tables'.token # tables.token =>
       InsertToken(q) \/ EditToken(q) \/ DeleteMonitors(q) \/ Restore(q)
  /\ tables'.file.page # tables.file.page =>
       CreatePage(q) \/ EditPage(q) \/ DeletePage(q) \/ Restore(q)
  /\ history' # history => DeleteMonitors(q) \/ Restore(q)
  /\ backup' # backup => Download(q)
  /\ order'[q].pc = "exporting" => BeginExport(q) \/ ReadTable(q)
  /\ order'[q].pc = "editPage" => ReadPage(q)
  /\ order'[q].pc = "deleting" => CountForDelete(q)
  /\ order'[q].pc = "restoring" => CountForRestore(q)

LEMMA RequestWrites ==
  ASSUME TablesInv, BackupInv, OrderShape, NEW q \in Admins, Remembers(q), Handle(q)
  PROVE  Touches(q)
<1>1. ASSUME CreateMonitor(q) PROVE Touches(q)
  <2>1. /\ UNCHANGED <<history, backup, imported>>
        /\ used \subseteq used'
        /\ order'[q].pc = "insertAlert"
        /\ tables'.token = tables.token
        /\ tables'.file.page = tables.file.page
    <3>1. PICK m \in MonitorIds, row \in MonitorRows, chosen \in SUBSET ChannelIds :
            WriteRow("monitor", m, row) /\ Start(q, "insertAlert", m, row, chosen)
      BY <1>1 DEF CreateMonitor
    <3>2. tables'.token = tables.token /\ tables'.file.page = tables.file.page
      BY <3>1, TableNames DEF WriteRow
    <3>3. order'[q].pc = "insertAlert"
      BY <3>1 DEF Start, NoOrder, OrderShape
    <3> QED
      BY <1>1, <3>2, <3>3 DEF CreateMonitor
  <2> QED
    BY <1>1, <2>1 DEF Touches
<1>2. ASSUME InsertAlert(q) PROVE Touches(q)
  BY <1>2 DEF InsertAlert, At, Attempt, Then, Abandon, Reply, NoOrder, OrderShape,
     OrderFields, TablesInv, SoundFiles, Sound, Touches
<1>3. ASSUME InsertToken(q) PROVE Touches(q)
  BY <1>3 DEF InsertToken, At, Attempt, Then, Abandon, Reply, NoOrder, OrderShape,
     OrderFields, TablesInv, SoundFiles, Sound, Touches
<1>4. ASSUME BindChannels(q) PROVE Touches(q)
  BY <1>4 DEF BindChannels, At, Write, Reply, Abandon, NoOrder, OrderShape,
     OrderFields, TablesInv, SoundFiles, Sound, Touches
<1>5. ASSUME ReadMonitor(q) PROVE Touches(q)
  BY <1>5 DEF ReadMonitor, At, Start, NoOrder, OrderShape, OrderFields, TablesInv,
     SoundFiles, Sound, Touches
<1>6. ASSUME EditMonitor(q) PROVE Touches(q)
  BY <1>6 DEF EditMonitor, At, WriteRow, Then, NoOrder, OrderShape, OrderFields,
     TablesInv, SoundFiles, Sound, Touches
<1>7. ASSUME EditToken(q) PROVE Touches(q)
  BY <1>7 DEF EditToken, At, Attempt, Then, Abandon, Reply, NoOrder, OrderShape,
     OrderFields, TablesInv, SoundFiles, Sound, Touches
<1>8. ASSUME EditBindings(q) PROVE Touches(q)
  BY <1>8 DEF EditBindings, At, Write, Reply, Abandon, NoOrder, OrderShape,
     OrderFields, TablesInv, SoundFiles, Sound, Touches
<1>9. ASSUME CountForDelete(q) PROVE Touches(q)
  <2>1. /\ UNCHANGED <<tables, history, used, backup, imported>>
        /\ order'[q].pc = "deleting"
    BY TableNames, <1>9 DEF CountForDelete, Start, NoOrder, OrderShape
  <2> QED
    BY <1>9, <2>1 DEF Touches
<1>10. ASSUME DeleteMonitors(q) PROVE Touches(q)
  BY <1>10 DEF DeleteMonitors, At, Without, Reply, NoOrder, OrderShape, OrderFields,
     TablesInv, SoundFiles, Sound, Touches
<1>11. ASSUME CreateChannel(q) PROVE Touches(q)
  BY <1>11 DEF CreateChannel, At, WriteRow, NoOrder, OrderShape, OrderFields,
     TablesInv, SoundFiles, Sound, Touches
<1>12. ASSUME ReadChannel(q) PROVE Touches(q)
  BY <1>12 DEF ReadChannel, At, Start, NoOrder, OrderShape, OrderFields, TablesInv,
     SoundFiles, Sound, Touches
<1>13. ASSUME EditChannel(q) PROVE Touches(q)
  BY <1>13 DEF EditChannel, At, WriteRow, Reply, NoOrder, OrderShape, OrderFields,
     TablesInv, SoundFiles, Sound, Touches
<1>14. ASSUME DeleteChannel(q) PROVE Touches(q)
  <2>1. /\ UNCHANGED <<history, used, backup, order, imported>>
        /\ order[q].pc = "idle"
        /\ tables'.token = tables.token
        /\ tables'.file.page = tables.file.page
        /\ tables'.file.monitor = tables.file.monitor
    <3>1. PICK c \in Channels :
            tables' = [tables EXCEPT !.file.channel[c] = NoRow,
                                     !.file.bound = {b \in @ : b[2] # c}]
      BY <1>14 DEF DeleteChannel
    <3> QED
      BY <1>14, <3>1, TableNames DEF DeleteChannel, At
  <2> QED
    BY <1>14, <2>1 DEF Touches
<1>15. ASSUME FindChannel(q) PROVE Touches(q)
  BY <1>15 DEF FindChannel, At, Start, NoOrder, OrderShape, OrderFields, TablesInv,
     SoundFiles, Sound, Touches
<1>16. ASSUME ApplyToAll(q) PROVE Touches(q)
  BY <1>16 DEF ApplyToAll, At, Write, Reply, Abandon, NoOrder, OrderShape,
     OrderFields, TablesInv, SoundFiles, Sound, Touches
<1>17. ASSUME CreatePage(q) PROVE Touches(q)
  <2>1. /\ UNCHANGED <<history, backup, order, imported>>
        /\ order[q].pc = "idle"
        /\ used \subseteq used'
        /\ tables'.token = tables.token
        /\ tables'.file.monitor = tables.file.monitor
    BY TableNames, <1>17 DEF CreatePage, At
  <2> QED
    BY <1>17, <2>1 DEF Touches
<1>18. ASSUME ReadPage(q) PROVE Touches(q)
  <2>1. /\ UNCHANGED <<tables, history, used, backup, imported>>
        /\ order'[q].pc = "editPage"
    BY TableNames, <1>18 DEF ReadPage, Start, NoOrder, OrderShape
  <2> QED
    BY <1>18, <2>1 DEF Touches
<1>19. ASSUME EditPage(q) PROVE Touches(q)
  BY <1>19 DEF EditPage, At, WriteRow, MergedAccess, Outdate, NoOrder, OrderShape,
     OrderFields, TablesInv, SoundFiles, Sound, Touches
<1>20. ASSUME EditLinks(q) PROVE Touches(q)
  BY <1>20 DEF EditLinks, At, Write, Reply, Abandon, NoOrder, OrderShape, OrderFields,
     TablesInv, SoundFiles, Sound, Touches
<1>21. ASSUME DeletePage(q) PROVE Touches(q)
  <2>1. /\ UNCHANGED <<history, used, backup, imported>>
        /\ tables'.token = tables.token /\ tables'.file.monitor = tables.file.monitor
    BY TableNames, <1>21 DEF DeletePage
  <2>2. order'[q].pc = "idle"
    <3>1. PICK p : order' = Outdate(p)
      BY <1>21 DEF DeletePage
    <3> QED
      BY <1>21, <3>1 DEF DeletePage, At, Outdate, OrderShape
  <2> QED
    BY <1>21, <2>1, <2>2 DEF Touches
<1>22. ASSUME PutSettings(q) PROVE Touches(q)
  BY <1>22 DEF PutSettings, At, Write, NoOrder, OrderShape, OrderFields, TablesInv,
     SoundFiles, Sound, Touches
<1>23. ASSUME FindMonitorForWindows(q) PROVE Touches(q)
  BY <1>23 DEF FindMonitorForWindows, At, Start, NoOrder, OrderShape, OrderFields,
     TablesInv, SoundFiles, Sound, Touches
<1>24. ASSUME AddWindows(q) PROVE Touches(q)
  BY <1>24 DEF AddWindows, At, Reply, WriteRow, Abandon, NoOrder, OrderShape,
     OrderFields, TablesInv, SoundFiles, Sound, Touches
<1>25. ASSUME BeginExport(q) PROVE Touches(q)
  BY <1>25 DEF BeginExport, At, Start, NoOrder, OrderShape, OrderFields, TablesInv,
     SoundFiles, Sound, Touches
<1>26. ASSUME ReadTable(q) PROVE Touches(q)
  BY <1>26 DEF ReadTable, At, NoOrder, OrderShape, OrderFields, TablesInv, SoundFiles,
     Sound, Touches
<1>27. ASSUME Download(q) PROVE Touches(q)
  BY <1>27 DEF Download, At, Reply, NoOrder, OrderShape, OrderFields, TablesInv,
     SoundFiles, Sound, Touches
<1>28. ASSUME CountForRestore(q) PROVE Touches(q)
  <2>1. /\ UNCHANGED <<tables, history, backup>>
        /\ used \subseteq used' /\ (imported => imported')
    BY <1>28 DEF CountForRestore
  <2>2. order'[q].pc = "restoring"
    BY <1>28, FileToRestore DEF Start, NoOrder, OrderShape
  <2> QED
    BY <1>28, <2>1, <2>2 DEF Touches
<1>29. ASSUME Restore(q) PROVE Touches(q)
  BY <1>29 DEF Restore, At, NoOrder, OrderShape, OrderFields,
     TablesInv, SoundFiles, Sound, Touches
<1>30. ASSUME CutOff(q) PROVE Touches(q)
  BY <1>30 DEF CutOff, Abandon, Reply, NoOrder, OrderShape, OrderFields, TablesInv,
     SoundFiles, Sound, Touches
<1> QED
  BY <1>1, <1>2, <1>3, <1>4, <1>5, <1>6, <1>7, <1>8, <1>9, <1>10, <1>11,
     <1>12, <1>13, <1>14, <1>15, <1>16, <1>17, <1>18, <1>19, <1>20, <1>21,
     <1>22, <1>23, <1>24, <1>25, <1>26, <1>27, <1>28, <1>29, <1>30 DEF Handle

-----------------------------------------------------------------------------
(* Exports read the tables in order.                                       *)

LEMMA NextQuery ==
  ASSUME NEW k \in 0..7
  PROVE  LET table == Queries[Cardinality(FirstQueries(k)) + 1]
         IN  \/ k = 7 /\ FirstQueries(k) = {"monitor", "channel", "page", "bound",
                                            "shown", "windows", "retention"}
             \/ /\ k + 1 \in 0..7
                /\ FirstQueries(k + 1) = FirstQueries(k) \union {table}
                /\ table \in {"monitor", "channel", "page", "bound", "shown", "windows",
                              "retention"} \ FirstQueries(k)
<1>1. /\ FirstQueries(0) = {}
      /\ FirstQueries(1) = {"retention"}
      /\ FirstQueries(2) = {"retention", "monitor"}
      /\ FirstQueries(3) = {"retention", "monitor", "channel"}
      /\ FirstQueries(4) = {"retention", "monitor", "channel", "page"}
      /\ FirstQueries(5) = {"retention", "monitor", "channel", "page", "bound"}
      /\ FirstQueries(6) = {"retention", "monitor", "channel", "page", "bound", "shown"}
      /\ FirstQueries(7) = {"retention", "monitor", "channel", "page", "bound", "shown",
                            "windows"}
  BY DEF FirstQueries, Queries
<1>2. /\ IsFiniteSet(FirstQueries(0)) /\ Cardinality(FirstQueries(0)) = 0
  BY <1>1, FS_EmptySet
<1>3. /\ IsFiniteSet(FirstQueries(1)) /\ Cardinality(FirstQueries(1)) = 1
  <2>1. FirstQueries(1) = FirstQueries(0) \union {"retention"} /\ "retention" \notin FirstQueries(0)
    BY <1>1
  <2> QED
    BY <1>2, <2>1, FS_AddElement
<1>4. /\ IsFiniteSet(FirstQueries(2)) /\ Cardinality(FirstQueries(2)) = 2
  <2>1. FirstQueries(2) = FirstQueries(1) \union {"monitor"} /\ "monitor" \notin FirstQueries(1)
    BY <1>1
  <2> QED
    BY <1>3, <2>1, FS_AddElement
<1>5. /\ IsFiniteSet(FirstQueries(3)) /\ Cardinality(FirstQueries(3)) = 3
  <2>1. FirstQueries(3) = FirstQueries(2) \union {"channel"} /\ "channel" \notin FirstQueries(2)
    BY <1>1
  <2> QED
    BY <1>4, <2>1, FS_AddElement
<1>6. /\ IsFiniteSet(FirstQueries(4)) /\ Cardinality(FirstQueries(4)) = 4
  <2>1. FirstQueries(4) = FirstQueries(3) \union {"page"} /\ "page" \notin FirstQueries(3)
    BY <1>1
  <2> QED
    BY <1>5, <2>1, FS_AddElement
<1>7. /\ IsFiniteSet(FirstQueries(5)) /\ Cardinality(FirstQueries(5)) = 5
  <2>1. FirstQueries(5) = FirstQueries(4) \union {"bound"} /\ "bound" \notin FirstQueries(4)
    BY <1>1
  <2> QED
    BY <1>6, <2>1, FS_AddElement
<1>8. /\ IsFiniteSet(FirstQueries(6)) /\ Cardinality(FirstQueries(6)) = 6
  <2>1. FirstQueries(6) = FirstQueries(5) \union {"shown"} /\ "shown" \notin FirstQueries(5)
    BY <1>1
  <2> QED
    BY <1>7, <2>1, FS_AddElement
<1> QED
  BY <1>1, <1>2, <1>3, <1>4, <1>5, <1>6, <1>7, <1>8 DEF Queries

\* A read gives an export one table more, of the configuration as it is.
LEMMA ExportGoesOn ==
  ASSUME TablesInv, OrderShape, NEW q \in Admins, ReadTable(q), NEW file \in SoundFiles,
         NEW k \in 0..7, ReadSoFar(order[q].row, k, file)
  PROVE  \E now \in SoundFiles :
           /\ k + 1 \in 0..7
           /\ ReadSoFar(order'[q].row, k + 1, now)
           /\ now.page \in {file.page, tables.file.page}
<1> DEFINE table == Queries[Cardinality(FirstQueries(k)) + 1]
           row == order[q].row
<1>1. row = [t \in FirstQueries(k) |-> file[t]] /\ DOMAIN row = FirstQueries(k)
  BY DEF ReadSoFar
<1>2. /\ FirstQueries(k) # DOMAIN tables.file
      /\ order' = [order EXCEPT ![q].row =
           [t \in FirstQueries(k) \union {table} |-> IF t = table THEN tables.file[t] ELSE row[t]]]
  BY <1>1 DEF ReadTable
<1> HIDE DEF table
<1>3. /\ k + 1 \in 0..7 /\ FirstQueries(k + 1) = FirstQueries(k) \union {table}
      /\ table \in DOMAIN tables.file \ FirstQueries(k)
  BY <1>2, NextQuery, TableNames DEF table
<1>4. order'[q].row =
        [t \in FirstQueries(k + 1) |-> IF t = table THEN tables.file[t] ELSE file[t]]
  BY <1>1, <1>2, <1>3 DEF OrderShape, OrderFields
<1> DEFINE now == [file EXCEPT ![table] = tables.file[table]]
<1>5. tables.file \in SoundFiles
  BY DEF TablesInv, Sound
<1>6. now \in SoundFiles /\ now.page \in {file.page, tables.file.page}
  BY <1>3, <1>5, TableNames DEF SoundFiles
<1>7. \A t \in FirstQueries(k + 1) : t \in DOMAIN file
  BY <1>3, <1>5, NextQuery, TableNames DEF SoundFiles, FirstQueries, Queries
<1>8. ReadSoFar(order'[q].row, k + 1, now)
  BY <1>4, <1>7 DEF ReadSoFar
<1> HIDE DEF now
<1> QED
  BY <1>3, <1>6, <1>8

LEMMA ExportKeeps ==
  ASSUME TablesInv, OrderShape, ExportInv, NEW q \in Admins, Handle(q), OthersFollow(q),
         Touches(q)
  PROVE  ExportInv'
<1> SUFFICES ASSUME NEW r \in Admins, order'[r].pc = "exporting"
             PROVE  \E file \in SoundFiles', k \in 0..7 :
                      /\ Present(file.page) \subseteq used'
                      /\ ReadSoFar(order'[r].row, k, file)
  BY DEF ExportInv, At, Sound
<1>1. used \subseteq used' /\ SoundFiles \subseteq SoundFiles'
  BY FilesStaySound DEF Touches
<1>2. CASE r # q
  <2>1. At(r, "exporting") /\ order'[r].row = order[r].row
    BY <1>2 DEF OthersFollow, At
  <2>2. PICK file \in SoundFiles, k \in 0..7 : Sound(file) /\ ReadSoFar(order[r].row, k, file)
    BY <2>1 DEF ExportInv
  <2> QED
    BY <1>1, <2>1, <2>2 DEF Sound
<1>3. CASE r = q /\ BeginExport(q)
  <2>1. order'[q].row = << >>
    BY <1>3 DEF BeginExport, Start, NoOrder, OrderShape
  <2>2. FirstQueries(0) = {} /\ 0 \in 0..7
    BY DEF FirstQueries, Queries
  <2>3. ReadSoFar(order'[q].row, 0, tables.file)
    BY <2>1, <2>2 DEF ReadSoFar
  <2>4. tables.file \in SoundFiles' /\ Present(tables.file.page) \subseteq used'
    BY <1>1 DEF TablesInv, Sound
  <2> QED
    BY <1>3, <2>2, <2>3, <2>4
<1>4. CASE r = q /\ ReadTable(q)
  <2>1. At(q, "exporting")
    BY <1>4 DEF ReadTable
  <2>2. PICK file \in SoundFiles, k \in 0..7 : Sound(file) /\ ReadSoFar(order[q].row, k, file)
    BY <2>1 DEF ExportInv
  <2>3. PICK now \in SoundFiles :
          /\ k + 1 \in 0..7
          /\ ReadSoFar(order'[q].row, k + 1, now)
          /\ now.page \in {file.page, tables.file.page}
    BY <1>4, <2>2, ExportGoesOn
  <2>4. Present(now.page) \subseteq used'
    BY <1>1, <2>2, <2>3 DEF Sound, TablesInv
  <2> QED
    BY <1>1, <1>4, <2>3, <2>4
<1> QED
  BY <1>2, <1>3, <1>4 DEF Touches

\* A complete export is what it read, less the references of rows it lacks.
LEMMA BackupKeeps ==
  ASSUME TablesInv, OrderShape, ExportInv, BackupInv, NEW q \in Admins, Handle(q), Touches(q)
  PROVE  BackupInv'
<1> SUFFICES ASSUME NEW file \in backup'
             PROVE  file \in SoundFiles' /\ Present(file.page) \subseteq used'
  BY DEF BackupInv, Sound
<1>1. used \subseteq used' /\ SoundFiles \subseteq SoundFiles'
  BY FilesStaySound DEF Touches
<1>2. CASE backup' = backup
  BY <1>1, <1>2 DEF BackupInv, Sound
<1>3. CASE Download(q)
  <2> DEFINE read == order[q].row
  <2>1. /\ At(q, "exporting") /\ DOMAIN read = DOMAIN tables.file
        /\ file = [read EXCEPT !.bound = {b \in read.bound : b[1] \in Present(read.monitor)},
                               !.shown = {s \in read.shown : s[1] \in Present(read.page)}]
    BY <1>3 DEF Download
  <2>2. PICK whole \in SoundFiles, k \in 0..7 : Sound(whole) /\ ReadSoFar(read, k, whole)
    BY <2>1 DEF ExportInv
  <2>3. read = whole
    BY <2>1, <2>2, TableNames DEF SoundFiles, ReadSoFar
  <2> HIDE DEF read
  <2>4. file \in SoundFiles /\ file.page = whole.page
    <3> DEFINE bound == {b \in read.bound : b[1] \in Present(read.monitor)}
               shown == {s \in read.shown : s[1] \in Present(read.page)}
    <3>1. /\ bound \in SUBSET (MonitorIds \X ChannelIds)
          /\ shown \in SUBSET (PageIds \X MonitorIds)
      BY <2>3 DEF SoundFiles
    <3> HIDE DEF bound, shown
    <3>2. file = [read EXCEPT !.bound = bound, !.shown = shown]
      BY <2>1 DEF bound, shown
    <3> QED
      BY <2>3, <3>1, <3>2 DEF SoundFiles
  <2> QED
    BY <1>1, <2>2, <2>4 DEF Sound
<1> QED
  BY <1>2, <1>3 DEF Touches

-----------------------------------------------------------------------------
(* The protection of pages.                                                *)

LEMMA PageKeeps ==
  ASSUME TablesInv, OrderShape, PageInv, \A r \in Admins : Remembers(r),
         NEW q \in Admins, Handle(q), Touches(q), OthersFollow(q)
  PROVE  PageInv'
<1> SUFFICES ASSUME NEW r \in Admins, order'[r].pc = "editPage"
             PROVE  /\ order'[r].id \in used'
                    /\ order'[r].stale = 0 => order'[r].row = tables'.file.page[order'[r].id]
  BY DEF PageInv, At
<1>1. used \subseteq used'
  BY DEF Touches
<1>2. CASE r = q
  <2>1. ReadPage(q)
    BY <1>2 DEF Touches
  <2>2. PICK p \in ShownPages : order'[q].id = p /\ order'[q].row = tables.file.page[p]
    BY <2>1 DEF ReadPage, Start, NoOrder, OrderShape
  <2>3. UNCHANGED <<tables, used>>
    BY <2>1 DEF ReadPage
  <2> QED
    BY <1>2, <2>2, <2>3 DEF TablesInv, Sound, ShownPages
<1>3. CASE r # q
  <2> DEFINE p == order[r].id
  <2>1. /\ At(r, "editPage") /\ order'[r].id = p /\ order'[r].row = order[r].row
        /\ order'[r].stale \in {order[r].stale, 1}
    BY <1>3 DEF OthersFollow, At
  <2>2. p \in used /\ (order[r].stale = 0 => order[r].row = tables.file.page[p])
    BY <2>1 DEF PageInv
  <2>3. CASE tables'.file.page[p] = tables.file.page[p]
    BY <1>1, <2>1, <2>2, <2>3 DEF OrderShape
  <2>4. CASE CreatePage(q)
    <3>1. PICK n \in PageIds \ used, access \in {"open", "locked"}, chosen \in SUBSET Monitors :
            tables' = [tables EXCEPT !.file.page[n] = access,
                                     !.file.shown = @ \union ({n} \X chosen)]
      BY <2>4 DEF CreatePage
    <3>2. tables'.file.page = [tables.file.page EXCEPT ![n] = access]
      BY <3>1, TableNames
    <3>3. n # p
      BY <2>2
    <3>4. tables'.file.page[p] = tables.file.page[p]
      BY <3>2, <3>3
    <3> QED
      BY <2>3, <3>4
  <2>5. CASE EditPage(q)
    <3> DEFINE n == order[q].id
    <3>1. CASE p = n
      <4>1. order' = [Outdate(n) EXCEPT ![q] = [order[q] EXCEPT !.pc = "editLinks"]]
        BY <2>5 DEF EditPage
      <4>2. order'[r].stale = 1
        BY <1>3, <2>1, <3>1, <4>1 DEF Outdate, At, OrderShape, OrderFields
      <4> QED
        BY <1>1, <2>1, <2>2, <4>2
    <3>2. CASE p # n
      <4> DEFINE access == MergedAccess(order[q].row, order[q].wish)
      <4>1. UNCHANGED tables \/ tables' = [tables EXCEPT !.file["page"][n] = access]
        BY <2>5 DEF EditPage, WriteRow
      <4> HIDE DEF access
      <4>2. \/ tables' = tables
            \/ tables'.file.page = [tables.file.page EXCEPT ![n] = access]
        BY <4>1, TableNames
      <4>3. CASE tables' = tables
        BY <2>3, <4>3
      <4>4. CASE tables'.file.page = [tables.file.page EXCEPT ![n] = access]
        <5>1. p \in DOMAIN tables.file.page
          BY <2>1 DEF Remembers, At, TablesInv, Sound, SoundFiles
        <5> QED
          BY <2>3, <3>2, <4>4, <5>1
      <4> QED
        BY <4>2, <4>3, <4>4
    <3> QED
      BY <3>1, <3>2
  <2>6. CASE DeletePage(q)
    <3>1. PICK n : /\ tables' = [tables EXCEPT !.file.page[n] = NoRow,
                                   !.file.shown = {s \in @ : s[1] # n}]
                   /\ order' = Outdate(n)
      BY <2>6 DEF DeletePage
    <3>2. CASE p = n
      <4>1. order'[r].stale = 1
        BY <2>1, <3>1, <3>2 DEF Outdate, At, OrderShape, OrderFields
      <4> QED
        BY <1>1, <2>1, <2>2, <4>1
    <3>3. CASE p # n
      <4>1. tables'.file.page = [tables.file.page EXCEPT ![n] = NoRow]
        BY <3>1, TableNames
      <4> QED
        BY <2>3, <3>3, <4>1
    <3> QED
      BY <3>2, <3>3
  <2>7. CASE Restore(q)
    <3>1. order' = [s \in Admins |-> IF s = q THEN NoOrder
                                    ELSE [order[s] EXCEPT !.stale = 1]]
      BY <2>7 DEF Restore
    <3>2. order'[r].stale = 1
      BY <1>3, <3>1 DEF OrderShape, OrderFields
    <3> QED
      BY <1>1, <2>1, <2>2, <3>2
  <2> QED
    BY <2>3, <2>4, <2>5, <2>6, <2>7 DEF Touches
<1> QED
  BY <1>2, <1>3

-----------------------------------------------------------------------------
(* The tokens of monitors that are pushed to.                              *)

\* What one request owes monitor m.
Keeps(q, m) ==
  /\ order[q].id = m => Knows(q)
  /\ LacksToken(m) => Brings(q, m)

LEMMA DeletedOrKept ==
  ASSUME TablesInv, NEW q \in Admins, DeleteMonitors(q), NEW m \in MonitorIds
  PROVE  \/ m \in order[q].row /\ tables'.file.monitor[m] = NoRow
         \/ /\ m \notin order[q].row
            /\ tables'.file.monitor[m] = tables.file.monitor[m]
            /\ m \in tables'.token <=> m \in tables.token
<1> DEFINE S == order[q].row
           rows == [n \in MonitorIds |-> IF n \in S THEN NoRow ELSE tables.file.monitor[n]]
<1>1. tables'.file.monitor = rows /\ tables'.token = tables.token \ S
  BY TableNames DEF DeleteMonitors, Without
<1> QED
  BY <1>1

\* A request deletes the monitors it is not about, or leaves them alone.
LEMMA OthersUntouched ==
  ASSUME TablesInv, OrderShape, NEW q \in Admins, Handle(q), Remembers(q), Touches(q),
         NEW m \in MonitorIds, ~Handles(q, m), ~Handles(q, m)'
  PROVE  \/ tables'.file.monitor[m] = NoRow
         \/ /\ tables'.file.monitor[m] = tables.file.monitor[m]
            /\ m \in tables'.token <=> m \in tables.token
<1>1. CASE CreateMonitor(q)
  <2>1. PICK n \in MonitorIds, row \in MonitorRows, chosen \in SUBSET ChannelIds :
          WriteRow("monitor", n, row) /\ Start(q, "insertAlert", n, row, chosen)
    BY <1>1 DEF CreateMonitor
  <2>2. order'[q].id = n /\ order'[q].pc = "insertAlert"
    BY <2>1 DEF Start, NoOrder, OrderShape
  <2>3. n # m
    BY <2>2 DEF Handles, At
  <2>4. /\ tables'.file.monitor = [tables.file.monitor EXCEPT ![n] = row]
        /\ tables'.token = tables.token
    BY <2>1, TableNames DEF WriteRow
  <2> QED
    BY <2>3, <2>4
<1>2. CASE EditMonitor(q)
  <2> DEFINE row == Merged(order[q].row, order[q].wish)
  <2>1. order[q].id # m
    BY <1>2 DEF EditMonitor, Handles, At
  <2>2. tables' = tables \/ WriteRow("monitor", order[q].id, row)
    BY <1>2 DEF EditMonitor
  <2> HIDE DEF row
  <2>3. CASE tables' = tables
    BY <2>3
  <2>4. CASE WriteRow("monitor", order[q].id, row)
    <3>1. /\ tables'.file.monitor = [tables.file.monitor EXCEPT ![order[q].id] = row]
          /\ tables'.token = tables.token
      BY <2>4, TableNames DEF WriteRow
    <3> QED
      BY <2>1, <3>1
  <2> QED
    BY <2>2, <2>3, <2>4
<1>3. CASE InsertToken(q)
  BY <1>3, TableNames DEF InsertToken, Attempt, Then, Abandon, Handles, At
<1>4. CASE EditToken(q)
  BY <1>4, TableNames DEF EditToken, Attempt, Then, Abandon, Handles, At
<1>5. CASE DeleteMonitors(q)
  BY <1>5, DeletedOrKept
<1>6. CASE Restore(q)
  BY <1>6 DEF Restore, Handles, At, Remembers
<1> QED
  BY <1>1, <1>2, <1>3, <1>4, <1>5, <1>6 DEF Touches

LEMMA TokenKeeps ==
  ASSUME TablesInv, TablesInv', OrderShape, OrderShape', TokenInv,
         NEW q \in Admins, Handle(q), Remembers(q), Touches(q), OthersFollow(q), GoesOn(q),
         \A m \in MonitorIds \ shaken' :
           (Handles(q, m) \/ Handles(q, m)') /\ Keeps(q, m) => Keeps(q, m)'
  PROVE  TokenInv'
<1> SUFFICES ASSUME NEW m \in MonitorIds \ shaken'
             PROVE  /\ \A r, s \in Admins : Handles(r, m)' /\ Handles(s, m)' => r = s
                    /\ \A r \in Admins : order'[r].id = m => Knows(r)'
                    /\ LacksToken(m)' => \E r \in Admins : Brings(r, m)'
  BY DEF TokenInv
<1>1. /\ \A r, s \in Admins : Handles(r, m) /\ Handles(s, m) => r = s
      /\ \A r \in Admins : order[r].id = m => Knows(r)
      /\ LacksToken(m) => \E r \in Admins : Brings(r, m)
  BY DEF TokenInv, GoesOn
<1>2. \A r \in Admins \ {q} : Handles(r, m)' <=> Handles(r, m)
  BY DEF OthersFollow, Handles, At
<1>3. ASSUME NEW r \in Admins \ {q}, Handles(r, m), Handles(q, m)'
      PROVE  FALSE
  <2>1. ~Handles(q, m)
    BY <1>1, <1>3
  <2>2. order'[q].pc # "idle" /\ order'[q].id \in {m, NoRow}
    BY <1>3 DEF Handles, At
  <2>3. Ask(order'[q].id)
    BY <2>1, <2>2 DEF GoesOn, Handles, At
  <2>4. InFlightOn(m)
    BY <1>3 DEF Handles, InFlightOn
  <2> QED
    BY <2>2, <2>3, <2>4 DEF Ask
<1>4. \A r, s \in Admins : Handles(r, m)' /\ Handles(s, m)' => r = s
  BY <1>1, <1>2, <1>3
<1>5. \A r \in Admins : ~Handles(r, m) => ~Brings(r, m)
  BY DEF Handles, Brings, At
<1>6. \A r \in Admins : order'[r].id = m /\ ~Handles(r, m)' => Knows(r)'
  BY DEF Handles, Knows, At
<1>7. CASE ~Handles(q, m) /\ ~Handles(q, m)'
  <2>0. /\ m \in Monitors <=> tables.file.monitor[m] # NoRow
        /\ m \in Monitors' <=> tables'.file.monitor[m] # NoRow
    BY DEF TablesInv, Sound, SoundFiles, Monitors, Present
  <2>1. m \in Monitors' => /\ tables'.file.monitor[m] = tables.file.monitor[m]
                            /\ (m \in tables'.token <=> m \in tables.token)
    BY <1>7, <2>0, OthersUntouched
  <2>2. m \in Monitors' => m \in Monitors
    BY <2>0, <2>1
  <2>3. \A r \in Admins \ {q} : order'[r].id = m => Knows(r)'
    <3> SUFFICES ASSUME NEW r \in Admins \ {q}, order'[r].id = m PROVE Knows(r)'
      OBVIOUS
    <3>1. /\ order[r].id = m /\ order'[r].pc = order[r].pc
          /\ order'[r].row = order[r].row /\ order'[r].wish = order[r].wish
      BY DEF OthersFollow
    <3>2. Knows(r)
      BY <1>1, <3>1
    <3> QED
      BY <2>1, <2>2, <3>1, <3>2 DEF Knows, HadToken, At
  <2>4. LacksToken(m)' => LacksToken(m)
    BY <2>1, <2>2 DEF LacksToken
  <2>5. \A r \in Admins : Brings(r, m) => Brings(r, m)'
    BY <1>5, <1>7 DEF Brings, OthersFollow, HadToken, At
  <2> QED
    BY <1>1, <1>4, <1>6, <1>7, <2>3, <2>4, <2>5
<1>8. CASE Handles(q, m) \/ Handles(q, m)'
  <2>1. \A r \in Admins \ {q} : ~Handles(r, m) /\ ~Handles(r, m)'
    BY <1>1, <1>2, <1>3, <1>8
  <2>2. Keeps(q, m)
    BY <1>1, <1>5, <2>1 DEF Keeps
  <2>3. Keeps(q, m)'
    BY <1>8, <2>2
  <2> QED
    BY <1>4, <1>6, <2>1, <2>3 DEF Keeps
<1> QED
  BY <1>7, <1>8

\* The handlers of monitors take their steps in order.
Moves(q) ==
  /\ order[q].pc = "insertAlert" => InsertAlert(q) \/ CutOff(q)
  /\ order[q].pc = "insertToken" => InsertToken(q) \/ CutOff(q)
  /\ order[q].pc = "editToken" => EditToken(q) \/ CutOff(q)
  /\ order'[q].pc = "insertAlert" => CreateMonitor(q)
  /\ order'[q].pc = "insertToken" => InsertAlert(q)
  /\ order'[q].pc = "editMonitor" => ReadMonitor(q)
  /\ order'[q].pc = "editToken" => EditMonitor(q)

LEMMA RequestMoves ==
  ASSUME TablesInv, OrderShape, NEW q \in Admins, Handle(q)
  PROVE  Moves(q)
<1>1. ASSUME CreateMonitor(q) PROVE Moves(q)
  <2>1. order[q].pc = "idle"
    BY <1>1 DEF CreateMonitor, At
  <2>2. order'[q].pc = "insertAlert"
    BY <1>1 DEF CreateMonitor, Start, NoOrder, OrderShape
  <2> QED
    BY <1>1, <2>1, <2>2 DEF Moves
<1>2. ASSUME InsertAlert(q) PROVE Moves(q)
  <2>1. order[q].pc = "insertAlert" /\ order'[q].pc \in {"insertToken", "bind", "idle"}
    BY <1>2 DEF InsertAlert, At, Attempt, Then, Abandon, Reply, NoOrder, OrderShape,
       OrderFields
  <2> QED
    BY <1>2, <2>1 DEF Moves
<1>3. ASSUME InsertToken(q) PROVE Moves(q)
  <2>1. order[q].pc = "insertToken" /\ order'[q].pc \in {"bind", "idle"}
    BY <1>3 DEF InsertToken, At, Attempt, Then, Abandon, Reply, NoOrder, OrderShape,
       OrderFields
  <2> QED
    BY <1>3, <2>1 DEF Moves
<1>4. ASSUME BindChannels(q) PROVE Moves(q)
  <2>1. order[q].pc = "bind" /\ order'[q].pc = "idle"
    BY <1>4 DEF BindChannels, At, Reply, Abandon, NoOrder, OrderShape, OrderFields
  <2> QED
    BY <1>4, <2>1 DEF Moves
<1>5. ASSUME ReadMonitor(q) PROVE Moves(q)
  <2>1. order[q].pc = "idle" /\ order'[q].pc = "editMonitor"
    BY <1>5 DEF ReadMonitor, At, Start, NoOrder, OrderShape, OrderFields
  <2> QED
    BY <1>5, <2>1 DEF Moves
<1>6. ASSUME EditMonitor(q) PROVE Moves(q)
  <2>1. order[q].pc = "editMonitor" /\ order'[q].pc = "editToken"
    BY <1>6 DEF EditMonitor, At, Then, NoOrder, OrderShape, OrderFields
  <2> QED
    BY <1>6, <2>1 DEF Moves
<1>7. ASSUME EditToken(q) PROVE Moves(q)
  <2>1. order[q].pc = "editToken" /\ order'[q].pc \in {"editBindings", "idle"}
    BY <1>7 DEF EditToken, At, Attempt, Then, Abandon, Reply, NoOrder, OrderShape,
       OrderFields
  <2> QED
    BY <1>7, <2>1 DEF Moves
<1>8. ASSUME EditBindings(q) PROVE Moves(q)
  <2>1. order[q].pc = "editBindings" /\ order'[q].pc = "idle"
    BY <1>8 DEF EditBindings, At, Reply, Abandon, NoOrder, OrderShape, OrderFields
  <2> QED
    BY <1>8, <2>1 DEF Moves
<1>9. ASSUME CountForDelete(q) PROVE Moves(q)
  <2>1. order[q].pc = "idle" /\ order'[q].pc = "deleting"
    BY <1>9 DEF CountForDelete, At, Start, NoOrder, OrderShape, OrderFields
  <2> QED
    BY <1>9, <2>1 DEF Moves
<1>10. ASSUME DeleteMonitors(q) PROVE Moves(q)
  <2>1. order[q].pc = "deleting" /\ order'[q].pc = "idle"
    BY <1>10 DEF DeleteMonitors, At, Reply, NoOrder, OrderShape, OrderFields
  <2> QED
    BY <1>10, <2>1 DEF Moves
<1>11. ASSUME CreateChannel(q) PROVE Moves(q)
  <2>1. order[q].pc = "idle" /\ order'[q].pc = "idle"
    BY <1>11 DEF CreateChannel, At, NoOrder, OrderShape, OrderFields
  <2> QED
    BY <1>11, <2>1 DEF Moves
<1>12. ASSUME ReadChannel(q) PROVE Moves(q)
  <2>1. order[q].pc = "idle" /\ order'[q].pc = "editChannel"
    BY <1>12 DEF ReadChannel, At, Start, NoOrder, OrderShape, OrderFields
  <2> QED
    BY <1>12, <2>1 DEF Moves
<1>13. ASSUME EditChannel(q) PROVE Moves(q)
  <2>1. order[q].pc = "editChannel" /\ order'[q].pc = "idle"
    BY <1>13 DEF EditChannel, At, Reply, NoOrder, OrderShape, OrderFields
  <2> QED
    BY <1>13, <2>1 DEF Moves
<1>14. ASSUME DeleteChannel(q) PROVE Moves(q)
  <2>1. order[q].pc = "idle" /\ order'[q].pc = "idle"
    BY <1>14 DEF DeleteChannel, At, NoOrder, OrderShape, OrderFields
  <2> QED
    BY <1>14, <2>1 DEF Moves
<1>15. ASSUME FindChannel(q) PROVE Moves(q)
  <2>1. order[q].pc = "idle" /\ order'[q].pc = "applying"
    BY <1>15 DEF FindChannel, At, Start, NoOrder, OrderShape, OrderFields
  <2> QED
    BY <1>15, <2>1 DEF Moves
<1>16. ASSUME ApplyToAll(q) PROVE Moves(q)
  <2>1. order[q].pc = "applying" /\ order'[q].pc = "idle"
    BY <1>16 DEF ApplyToAll, At, Reply, Abandon, NoOrder, OrderShape, OrderFields
  <2> QED
    BY <1>16, <2>1 DEF Moves
<1>17. ASSUME CreatePage(q) PROVE Moves(q)
  <2>1. order[q].pc = "idle" /\ order'[q].pc = "idle"
    BY <1>17 DEF CreatePage, At, NoOrder, OrderShape, OrderFields
  <2> QED
    BY <1>17, <2>1 DEF Moves
<1>18. ASSUME ReadPage(q) PROVE Moves(q)
  <2>1. order[q].pc = "idle" /\ order'[q].pc = "editPage"
    BY <1>18 DEF ReadPage, At, Start, NoOrder, OrderShape, OrderFields
  <2> QED
    BY <1>18, <2>1 DEF Moves
<1>19. ASSUME EditPage(q) PROVE Moves(q)
  <2>1. order[q].pc = "editPage" /\ order'[q].pc = "editLinks"
    BY <1>19 DEF EditPage, At, Outdate, NoOrder, OrderShape, OrderFields
  <2> QED
    BY <1>19, <2>1 DEF Moves
<1>20. ASSUME EditLinks(q) PROVE Moves(q)
  <2>1. order[q].pc = "editLinks" /\ order'[q].pc = "idle"
    BY <1>20 DEF EditLinks, At, Reply, Abandon, NoOrder, OrderShape, OrderFields
  <2> QED
    BY <1>20, <2>1 DEF Moves
<1>21. ASSUME DeletePage(q) PROVE Moves(q)
  <2>1. order[q].pc = "idle" /\ \E p : order' = Outdate(p)
    BY <1>21 DEF DeletePage, At
  <2>2. order'[q].pc = "idle"
    BY <2>1 DEF Outdate, OrderShape
  <2> QED
    BY <2>1, <2>2 DEF Moves
<1>22. ASSUME PutSettings(q) PROVE Moves(q)
  <2>1. order[q].pc = "idle" /\ order'[q].pc = "idle"
    BY <1>22 DEF PutSettings, At, NoOrder, OrderShape, OrderFields
  <2> QED
    BY <1>22, <2>1 DEF Moves
<1>23. ASSUME FindMonitorForWindows(q) PROVE Moves(q)
  <2>1. order[q].pc = "idle" /\ order'[q].pc = "addWindows"
    BY <1>23 DEF FindMonitorForWindows, At, Start, NoOrder, OrderShape, OrderFields
  <2> QED
    BY <1>23, <2>1 DEF Moves
<1>24. ASSUME AddWindows(q) PROVE Moves(q)
  <2>1. order[q].pc = "addWindows" /\ order'[q].pc = "idle"
    BY <1>24 DEF AddWindows, At, Reply, Abandon, NoOrder, OrderShape, OrderFields
  <2> QED
    BY <1>24, <2>1 DEF Moves
<1>25. ASSUME BeginExport(q) PROVE Moves(q)
  <2>1. order[q].pc = "idle" /\ order'[q].pc = "exporting"
    BY <1>25 DEF BeginExport, At, Start, NoOrder, OrderShape, OrderFields
  <2> QED
    BY <1>25, <2>1 DEF Moves
<1>26. ASSUME ReadTable(q) PROVE Moves(q)
  <2>1. order[q].pc = "exporting" /\ order'[q].pc = "exporting"
    BY <1>26 DEF ReadTable, At, NoOrder, OrderShape, OrderFields
  <2> QED
    BY <1>26, <2>1 DEF Moves
<1>27. ASSUME Download(q) PROVE Moves(q)
  <2>1. order[q].pc = "exporting" /\ order'[q].pc = "idle"
    BY <1>27 DEF Download, At, Reply, NoOrder, OrderShape, OrderFields
  <2> QED
    BY <1>27, <2>1 DEF Moves
<1>28. ASSUME CountForRestore(q) PROVE Moves(q)
  <2>1. order[q].pc = "idle" /\ order'[q].pc = "restoring"
    BY <1>28 DEF CountForRestore, At, Start, NoOrder, OrderShape, OrderFields
  <2> QED
    BY <1>28, <2>1 DEF Moves
<1>29. ASSUME Restore(q) PROVE Moves(q)
  <2>1. order[q].pc = "restoring" /\ order'[q].pc = "idle"
    BY <1>29 DEF Restore, At, NoOrder, OrderShape, OrderFields
  <2> QED
    BY <1>29, <2>1 DEF Moves
<1>30. ASSUME CutOff(q) PROVE Moves(q)
  <2>1. order'[q].pc = "idle"
    BY <1>30 DEF CutOff, Abandon, Reply, NoOrder, OrderShape
  <2> QED
    BY <1>30, <2>1 DEF Moves
<1> QED
  BY <1>1, <1>2, <1>3, <1>4, <1>5, <1>6, <1>7, <1>8, <1>9, <1>10, <1>11,
     <1>12, <1>13, <1>14, <1>15, <1>16, <1>17, <1>18, <1>19, <1>20, <1>21,
     <1>22, <1>23, <1>24, <1>25, <1>26, <1>27, <1>28, <1>29, <1>30 DEF Handle

\* Each handler keeps what it owes a monitor nobody else is at, or is cut off.
LEMMA RequestKeeps ==
  ASSUME TablesInv, TablesInv', OrderShape, NEW q \in Admins, Handle(q), Remembers(q),
         Touches(q), Moves(q), NEW m \in MonitorIds \ shaken',
         Handles(q, m) \/ Handles(q, m)', Keeps(q, m)
  PROVE  Keeps(q, m)'
<1>1. /\ m \in Monitors <=> tables.file.monitor[m] # NoRow
      /\ m \in Monitors' <=> tables'.file.monitor[m] # NoRow
  BY DEF TablesInv, Sound, SoundFiles, Monitors, Present
<1>2. CASE CreateMonitor(q)
  <2>1. PICK n \in MonitorIds, row \in MonitorRows, chosen \in SUBSET ChannelIds :
          WriteRow("monitor", n, row) /\ Start(q, "insertAlert", n, row, chosen)
    BY <1>2 DEF CreateMonitor
  <2>2. /\ order'[q].pc = "insertAlert" /\ order'[q].id = n /\ order'[q].row = row
        /\ order[q].pc = "idle"
    BY <1>2, <2>1 DEF Start, NoOrder, OrderShape, CreateMonitor, At
  <2>3. n = m
    BY <2>2, IdsAssumption DEF Handles, At
  <2>4. tables'.file.monitor = [tables.file.monitor EXCEPT ![n] = row]
    BY <2>1, TableNames DEF WriteRow
  <2>5. tables'.file.monitor[m] = row /\ m \in Monitors'
    BY <1>1, <2>3, <2>4, IdsAssumption DEF TablesInv, Sound, SoundFiles, MonitorRows
  <2> QED
    BY <2>2, <2>3, <2>5 DEF Keeps, Knows, Brings, At
<1>3. CASE InsertAlert(q)
  <2>1. order[q].id = m
    BY <1>3, IdsAssumption DEF InsertAlert, At, Remembers, Handles, Attempt, Then, Abandon, Reply,
       NoOrder, OrderShape, OrderFields
  <2>2. m \in Monitors \ tables.alert
    BY <1>3, <2>1 DEF InsertAlert, Attempt, Abandon
  <2>3. /\ order'[q].id = m /\ order'[q].row = order[q].row
        /\ order'[q].pc = IF order[q].row.type \in PushTypes THEN "insertToken" ELSE "bind"
    BY <1>3, <2>1, <2>2 DEF InsertAlert, Attempt, Then, OrderShape, OrderFields
  <2>4. /\ tables'.file = tables.file /\ tables'.token = tables.token
    BY <1>3, <2>1, <2>2, TableNames DEF InsertAlert
  <2>5. tables.file.monitor[m].type = order[q].row.type
    BY <1>3, <2>1, <2>2 DEF Keeps, Knows, InsertAlert, At
  <2> QED
    BY <1>1, <2>2, <2>3, <2>4, <2>5 DEF Keeps, Knows, LacksToken, Brings, At
<1>4. CASE InsertToken(q)
  <2>1. order[q].id = m
    BY <1>4, IdsAssumption DEF InsertToken, At, Remembers, Handles, Attempt, Then, Abandon, Reply,
       NoOrder, OrderShape, OrderFields
  <2>2. m \in Monitors \ tables.token
    BY <1>4, <2>1 DEF InsertToken, Attempt, Abandon
  <2>3. order'[q].pc = "bind"
    BY <1>4, <2>1, <2>2 DEF InsertToken, Attempt, Then, OrderShape, OrderFields
  <2>4. m \in tables'.token
    BY <1>4, <2>1, <2>2, TableNames DEF InsertToken
  <2> QED
    BY <2>3, <2>4 DEF Keeps, Knows, LacksToken, At
<1>5. CASE ReadMonitor(q)
  <2>1. PICK n \in Monitors : order'[q].id = n /\ order'[q].row = tables.file.monitor[n]
    BY <1>5 DEF ReadMonitor, Start, NoOrder, OrderShape
  <2>2. UNCHANGED tables /\ order[q].pc = "idle" /\ order'[q].pc = "editMonitor"
    BY <1>5 DEF ReadMonitor, Start, NoOrder, OrderShape, At
  <2>3. ~LacksToken(m)
    BY <2>2 DEF Keeps, Brings, At
  <2> QED
    BY <2>1, <2>2, <2>3 DEF Keeps, Knows, LacksToken, At, Monitors
<1>6. CASE EditMonitor(q)
  <2> DEFINE row == Merged(order[q].row, order[q].wish)
  <2>1. order[q].pc = "editMonitor" /\ order'[q] = [order[q] EXCEPT !.pc = "editToken"]
    BY <1>6 DEF EditMonitor, At, Then, OrderShape
  <2>2. order[q].id = m /\ order'[q].id = m /\ order'[q].pc = "editToken"
        /\ order'[q].row = order[q].row /\ order'[q].wish = order[q].wish
    BY <2>1, IdsAssumption DEF Remembers, Handles, At, OrderShape, OrderFields
  <2>3. ~LacksToken(m) /\ (m \in Monitors => tables.file.monitor[m].type = order[q].row.type)
    BY <2>1, <2>2 DEF Keeps, Knows, Brings, At
  <2>4. CASE m \in Monitors
    <3>1. WriteRow("monitor", m, row)
      BY <1>6, <2>2, <2>4 DEF EditMonitor
    <3>2. row.type = order[q].wish.type /\ row # NoRow
      BY <2>1, IdsAssumption DEF Merged, Remembers, EditWishes, MonitorRows
    <3> HIDE DEF row
    <3>3. /\ tables'.file.monitor = [tables.file.monitor EXCEPT ![m] = row]
          /\ tables'.token = tables.token
      BY <3>1, TableNames DEF WriteRow
    <3>4. tables'.file.monitor[m] = row
      BY <3>3 DEF TablesInv, Sound, SoundFiles
    <3> QED
      BY <2>2, <2>3, <2>4, <3>2, <3>3, <3>4 DEF Keeps, Knows, LacksToken, Brings, HadToken, At
  <2>5. CASE m \notin Monitors
    <3>1. UNCHANGED tables
      BY <1>6, <2>2, <2>5 DEF EditMonitor
    <3>2. m \notin Monitors'
      BY <2>5, <3>1 DEF Monitors
    <3> QED
      BY <2>2, <3>2 DEF Keeps, Knows, LacksToken
  <2> QED
    BY <2>4, <2>5
<1>7. CASE EditToken(q)
  <2>1. order[q].pc = "editToken"
    BY <1>7 DEF EditToken, At
  <2>2. order[q].id = m
    BY <1>7, <2>1, IdsAssumption DEF EditToken, Remembers, Handles, Attempt, Then, Abandon, Reply,
       NoOrder, At, OrderShape, OrderFields
  <2>3. m \in Monitors => /\ tables.file.monitor[m].type = order[q].wish.type
                          /\ HadToken(q) => m \in tables.token
    BY <2>1, <2>2 DEF Keeps, Knows, At
  <2>4. order'[q].pc = "editBindings"
    BY <1>7, <2>2 DEF EditToken, Attempt, Abandon, Then, OrderShape, OrderFields
  <2>5. tables'.file = tables.file
    BY <1>7, <2>2, TableNames DEF EditToken, Attempt, Abandon
  <2>6. m \in Monitors /\ order[q].wish.type \in PushTypes => m \in tables'.token
    BY <1>7, <2>2, <2>3, TableNames DEF EditToken
  <2> QED
    BY <2>3, <2>4, <2>5, <2>6 DEF Keeps, Knows, LacksToken, Monitors, At
<1>8. CASE DeleteMonitors(q)
  <2>1. order[q].pc = "deleting" /\ order'[q].pc = "idle"
    BY <1>8 DEF DeleteMonitors, At, Reply, NoOrder, OrderShape
  <2>2. \/ tables'.file.monitor[m] = NoRow
        \/ /\ tables'.file.monitor[m] = tables.file.monitor[m]
           /\ m \in tables'.token <=> m \in tables.token
    BY <1>8, DeletedOrKept
  <2> QED
    BY <1>1, <2>1, <2>2 DEF Keeps, Knows, LacksToken, Brings, At
<1>9. CASE Restore(q)
  <2>1. order'[q].pc = "idle"
    BY <1>9 DEF Restore, NoOrder, OrderShape
  <2> DEFINE file == order[q].row
  <2>4. DOMAIN file = {"monitor", "channel", "page", "bound", "shown", "windows", "retention"}
    BY <1>9 DEF Remembers, Restore, At, Sound, SoundFiles
  <2>2. /\ tables'.file.monitor = file.monitor
        /\ tables'.token = {n \in Present(file.monitor) :
                              file.monitor[n].type \in PushTypes}
    BY <1>9, <2>4 DEF Restore, Pushed
  <2>3. ~LacksToken(m)'
    BY <2>2 DEF LacksToken, Monitors
  <2> QED
    BY <2>1, <2>3 DEF Keeps, Knows, At
<1>10. CASE CutOff(q)
  <2>1. order'[q].pc = "idle" /\ m # order[q].id /\ UNCHANGED tables
    BY <1>10 DEF CutOff, Abandon, Reply, NoOrder, OrderShape
  <2> QED
    BY <2>1 DEF Keeps, Knows, LacksToken, Brings, At, Monitors
<1>11. CASE /\ order[q].pc \notin {"insertAlert", "insertToken", "editToken"}
            /\ order'[q].pc \notin {"insertAlert", "insertToken", "editMonitor", "editToken"}
            /\ tables'.file.monitor = tables.file.monitor /\ tables'.token = tables.token
  BY <1>11 DEF Keeps, Knows, LacksToken, Brings, At, Monitors
<1> QED
  BY <1>2, <1>3, <1>4, <1>5, <1>6, <1>7, <1>8, <1>9, <1>10, <1>11 DEF Touches, Moves

-----------------------------------------------------------------------------
(* What deletions and restores write.                                      *)

\* The sums of the model, of any function: of numbers, ...
SumOf(h, S) == MapThenSumSet(LAMBDA m : h[m], S)

\* ... and of tables of numbers.
SumIn(h, table, S) == MapThenSumSet(LAMBDA m : h[m][table], S)

LEMMA SumOfIsNumber ==
  ASSUME NEW h, NEW S \in SUBSET MonitorIds, \A m \in S : h[m] \in Nat
  PROVE  SumOf(h, S) \in Nat
<1> DEFINE cost == [m \in S |-> h[m]]
           Solves(iter) ==
             iter = [s \in SUBSET S |->
               IF s = {} THEN 0 ELSE h[OneOf(s)] + iter[s \ {OneOf(s)}]]
           sum == CHOOSE iter : Solves(iter)
<1>1. SumOf(h, S) = sum[S]
  BY DEF SumOf, MapThenSumSet, MapThenFoldSet, OneOf
<1>2. IsFiniteSet(S) /\ cost \in [S -> Nat]
  BY IdsAssumption, FS_Subset
<1>3. PICK f : f \in [SUBSET S -> Nat] /\ Sums(f, cost, SUBSET S)
  <2> HIDE DEF cost
  <2> QED
    BY <1>2, SumsExist
<1>4. \A s \in SUBSET S : s # {} => OneOf(s) \in S /\ cost[OneOf(s)] = h[OneOf(s)]
  BY DEF OneOf
<1>5. Solves(f)
  BY <1>3, <1>4 DEF Sums
<1>6. Solves(sum)
  BY <1>5
<1> HIDE DEF sum
<1>7. Sums(sum, cost, SUBSET S)
  BY <1>4, <1>6 DEF Sums
<1> HIDE DEF cost
<1>8. sum[S] = f[S]
  <2>1. S \subseteq S /\ SameTerms(S, cost, cost)
    BY DEF SameTerms
  <2> QED
    BY <1>2, <1>3, <1>7, <2>1, SumsAgree
<1> QED
  BY <1>1, <1>3, <1>8

LEMMA SumInIsNumber ==
  ASSUME NEW h, NEW table, NEW S \in SUBSET MonitorIds, \A m \in S : h[m][table] \in Nat
  PROVE  SumIn(h, table, S) \in Nat
<1> DEFINE cost == [m \in S |-> h[m][table]]
           Solves(iter) ==
             iter = [s \in SUBSET S |->
               IF s = {} THEN 0 ELSE h[OneOf(s)][table] + iter[s \ {OneOf(s)}]]
           sum == CHOOSE iter : Solves(iter)
<1>1. SumIn(h, table, S) = sum[S]
  BY DEF SumIn, MapThenSumSet, MapThenFoldSet, OneOf
<1>2. IsFiniteSet(S) /\ cost \in [S -> Nat]
  BY IdsAssumption, FS_Subset
<1>3. PICK f : f \in [SUBSET S -> Nat] /\ Sums(f, cost, SUBSET S)
  <2> HIDE DEF cost
  <2> QED
    BY <1>2, SumsExist
<1>4. \A s \in SUBSET S : s # {} => OneOf(s) \in S /\ cost[OneOf(s)] = h[OneOf(s)][table]
  BY DEF OneOf
<1>5. Solves(f)
  BY <1>3, <1>4 DEF Sums
<1>6. Solves(sum)
  BY <1>5
<1> HIDE DEF sum
<1>7. Sums(sum, cost, SUBSET S)
  BY <1>4, <1>6 DEF Sums
<1> HIDE DEF cost
<1>8. sum[S] = f[S]
  <2>1. S \subseteq S /\ SameTerms(S, cost, cost)
    BY DEF SameTerms
  <2> QED
    BY <1>2, <1>3, <1>7, <2>1, SumsAgree
<1> QED
  BY <1>1, <1>3, <1>8

LEMMA RecordedIsNumber ==
  ASSUME HistoryInv, NEW table \in HistoryTables, NEW S \in SUBSET MonitorIds
  PROVE  Recorded(table, S) \in Nat
<1>1. Recorded(table, S) = SumIn(history, table, S)
  BY DEF Recorded, SumIn
<1>2. \A m \in S : history[m][table] \in Nat
  BY DEF HistoryInv
<1> QED
  BY <1>1, <1>2, SumInIsNumber

LEMMA WindowsAreNumber ==
  ASSUME NEW file \in SoundFiles, NEW S \in SUBSET MonitorIds
  PROVE  Windows(file, S) \in Nat
<1>1. Windows(file, S) = SumOf(file.windows, S)
  BY DEF Windows, SumOf
<1>2. \A m \in S : file.windows[m] \in Nat
  BY DEF SoundFiles, SoundWindows
<1> QED
  BY <1>1, <1>2, SumOfIsNumber

LEMMA PartIsNumber ==
  ASSUME NEW S, NEW T, IsFiniteSet(T), S \subseteq T
  PROVE  Cardinality(S) \in Nat
  BY FS_Subset, FS_CardinalityType

\* What a deletion writes is what its estimate charges and what that misses.
LEMMA DeletionCharged ==
  ASSUME TablesInv, HistoryInv, NEW S \in SUBSET MonitorIds
  PROVE  /\ Deletion(Weight, S) \in Nat
         /\ 2 * Recorded("agent_metric_samples", S) + Recorded("incident_monitors", S)
              + Cardinality(tables.token \intersect S) \in Nat
         /\ Deletion(Writes, S) =
              Deletion(Weight, S)
                + (2 * Recorded("agent_metric_samples", S) + Recorded("incident_monitors", S)
                     + Cardinality(tables.token \intersect S))
<1> DEFINE monitors == Cardinality(Monitors \intersect S)
           alerts == Cardinality(tables.alert \intersect S)
           tokens == Cardinality(tables.token \intersect S)
           bound == Cardinality({b \in tables.file.bound : b[1] \in S})
           shown == Cardinality({s \in tables.file.shown : s[2] \in S})
           windows == Windows(tables.file, S)
           logs == Recorded("status_logs", S)
           rollups == Recorded("monitor_daily_rollups", S)
           incidents == Recorded("incidents", S)
           events == Recorded("incident_report_events", S)
           deliveries == Recorded("notification_deliveries", S)
           links == Recorded("incident_monitors", S)
           samples == Recorded("agent_metric_samples", S)
<1>1. /\ tables.file \in SoundFiles
      /\ tables.file.bound \subseteq MonitorIds \X ChannelIds
      /\ tables.file.shown \subseteq PageIds \X MonitorIds
  BY DEF TablesInv, SoundFiles
<1>2. IsFiniteSet(MonitorIds \X ChannelIds) /\ IsFiniteSet(PageIds \X MonitorIds)
  BY IdsAssumption, FS_Product
<1>3. monitors \in Nat /\ alerts \in Nat /\ tokens \in Nat
  <2>1. /\ Monitors \intersect S \subseteq MonitorIds /\ tables.alert \intersect S \subseteq MonitorIds
        /\ tables.token \intersect S \subseteq MonitorIds
    OBVIOUS
  <2> QED
    BY <2>1, IdsAssumption, PartIsNumber
<1>4. bound \in Nat /\ shown \in Nat
  <2>1. /\ {b \in tables.file.bound : b[1] \in S} \subseteq MonitorIds \X ChannelIds
        /\ {s \in tables.file.shown : s[2] \in S} \subseteq PageIds \X MonitorIds
    BY <1>1
  <2> QED
    BY <1>2, <2>1, PartIsNumber
<1>5. windows \in Nat
  BY <1>1, WindowsAreNumber
<1>6. /\ logs \in Nat /\ rollups \in Nat /\ incidents \in Nat
      /\ events \in Nat /\ deliveries \in Nat
      /\ links \in Nat /\ samples \in Nat
  BY RecordedIsNumber DEF HistoryTables
<1>7. Deletion(Writes, S) =
        7 * monitors + 2 * alerts + 3 * tokens + 2 * bound + 2 * shown + 3 * windows
        + 4 * logs + 3 * rollups + 4 * incidents
        + 3 * events + 5 * deliveries
        + 6 * links + 2 * samples
  BY DEF Deletion, Writes
<1>8. Deletion(Weight, S) =
        7 * monitors + 2 * alerts + 2 * tokens + 2 * bound + 2 * shown + 3 * windows
        + 4 * logs + 3 * rollups + 4 * incidents
        + 3 * events + 5 * deliveries
        + 5 * links + 0 * samples
  BY DEF Deletion, Weight
<1> HIDE DEF monitors, alerts, tokens, bound, shown, windows, logs, rollups, incidents, events,
         deliveries, links, samples
<1> QED
  <2>1. /\ tokens = Cardinality(tables.token \intersect S)
        /\ samples = Recorded("agent_metric_samples", S)
        /\ links = Recorded("incident_monitors", S)
    BY DEF tokens, samples, links
  <2>2. 0 * samples = 0 /\ 6 * links = 5 * links + links /\ 3 * tokens = 2 * tokens + tokens
    BY <1>3, <1>6
  <2>3. /\ Deletion(Weight, S) \in Nat /\ 2 * samples + links + tokens \in Nat
        /\ Deletion(Writes, S) = Deletion(Weight, S) + (2 * samples + links + tokens)
    BY <1>3, <1>4, <1>5, <1>6, <1>7, <1>8, <2>2
  <2> QED
    BY <2>1, <2>3

LEMMA InsertionCharged ==
  ASSUME NEW file \in SoundFiles
  PROVE  /\ Insertion(Weight, file) \in Nat /\ Cardinality(Pushed(file)) \in Nat
         /\ Insertion(Writes, file) = Insertion(Weight, file) + Cardinality(Pushed(file))
<1> DEFINE monitors == Cardinality(Present(file.monitor))
           tokens == Cardinality(Pushed(file))
           channels == Cardinality(Present(file.channel))
           bound == Cardinality(file.bound)
           pages == Cardinality(Present(file.page))
           shown == Cardinality(file.shown)
           windows == Windows(file, MonitorIds)
<1>1. /\ Present(file.monitor) \subseteq MonitorIds /\ Pushed(file) \subseteq MonitorIds
      /\ Present(file.channel) \subseteq ChannelIds /\ Present(file.page) \subseteq PageIds
      /\ file.bound \subseteq MonitorIds \X ChannelIds /\ file.shown \subseteq PageIds \X MonitorIds
  BY DEF SoundFiles, Present, Pushed
<1>2. IsFiniteSet(MonitorIds \X ChannelIds) /\ IsFiniteSet(PageIds \X MonitorIds)
  BY IdsAssumption, FS_Product
<1>3. /\ monitors \in Nat /\ tokens \in Nat /\ channels \in Nat /\ bound \in Nat
      /\ pages \in Nat /\ shown \in Nat
  BY <1>1, <1>2, IdsAssumption, PartIsNumber
<1>4. windows \in Nat
  BY WindowsAreNumber
<1>5. Insertion(Writes, file) =
        2 + 9 * monitors + 3 * tokens + 2 * channels + 2 * bound + 3 * pages + 2 * shown
        + 3 * windows
  BY DEF Insertion, Writes
<1>6. Insertion(Weight, file) =
        2 + 9 * monitors + 2 * tokens + 2 * channels + 2 * bound + 3 * pages + 2 * shown
        + 3 * windows
  BY DEF Insertion, Weight
<1> HIDE DEF monitors, tokens, channels, bound, pages, shown, windows
<1>7. /\ Insertion(Weight, file) \in Nat
      /\ Insertion(Writes, file) = Insertion(Weight, file) + tokens
  BY <1>3, <1>4, <1>5, <1>6
<1> QED
  BY <1>3, <1>7 DEF tokens

\* What the destruction of a request would be charged at this moment.
Charged(q) == IF At(q, "deleting") THEN Deletion(Weight, order[q].row)
                                   ELSE Replacement(Weight, order[q].row)

LEMMA ReplacementCharged ==
  ASSUME TablesInv, HistoryInv, NEW file \in SoundFiles
  PROVE  /\ Replacement(Weight, file) \in Nat
         /\ 2 * Recorded("agent_metric_samples", MonitorIds)
              + Recorded("incident_monitors", MonitorIds)
              + Cardinality(tables.token \intersect MonitorIds)
              + Cardinality(Pushed(file)) \in Nat
         /\ Replacement(Writes, file) =
              Replacement(Weight, file)
                + (2 * Recorded("agent_metric_samples", MonitorIds)
                     + Recorded("incident_monitors", MonitorIds)
                     + Cardinality(tables.token \intersect MonitorIds)
                     + Cardinality(Pushed(file)))
<1> DEFINE lost == 2 * Recorded("agent_metric_samples", MonitorIds)
                     + Recorded("incident_monitors", MonitorIds)
                     + Cardinality(tables.token \intersect MonitorIds)
           channels == Cardinality(Channels)
           pages == Cardinality(ShownPages)
           tokens == Cardinality(Pushed(file))
           old == Deletion(Weight, MonitorIds)
           new == Insertion(Weight, file)
<1>1. /\ old \in Nat /\ lost \in Nat /\ Deletion(Writes, MonitorIds) = old + lost
  <2>1. MonitorIds \in SUBSET MonitorIds
    OBVIOUS
  <2> QED
    BY <2>1, DeletionCharged
<1>2. new \in Nat /\ tokens \in Nat /\ Insertion(Writes, file) = new + tokens
  BY InsertionCharged
<1>3. channels \in Nat /\ pages \in Nat
  <2>1. Channels \subseteq ChannelIds /\ ShownPages \subseteq PageIds
    BY DEF TablesInv, SoundFiles, Channels, ShownPages, Present
  <2> QED
    BY <2>1, IdsAssumption, PartIsNumber
<1>4. Replacement(Writes, file) =
        Deletion(Writes, MonitorIds) + 2 * channels + 3 * pages + 2 + Insertion(Writes, file)
  BY DEF Replacement, Writes
<1>5. Replacement(Weight, file) = old + 2 * channels + 3 * pages + 2 + new
  BY DEF Replacement, Weight
<1> HIDE DEF lost, channels, pages, tokens, old, new
<1>6. /\ Replacement(Weight, file) \in Nat /\ lost + tokens \in Nat
      /\ Replacement(Writes, file) = Replacement(Weight, file) + (lost + tokens)
  BY <1>1, <1>2, <1>3, <1>4, <1>5
<1> QED
  BY <1>6 DEF lost, tokens

Counting(q) == TablesInv /\ HistoryInv /\ Remembers(q) /\ order[q].pc \in Destructions

LEMMA DestroysCharged ==
  ASSUME NEW q \in Admins
  PROVE  Counting(q) => /\ Destroys(q) \in Nat /\ Charged(q) \in Nat /\ Missed(q) \in Nat
                        /\ Destroys(q) = Charged(q) + Missed(q)
<1> SUFFICES ASSUME Counting(q)
             PROVE  /\ Destroys(q) \in Nat /\ Charged(q) \in Nat /\ Missed(q) \in Nat
                    /\ Destroys(q) = Charged(q) + Missed(q)
  OBVIOUS
<1>1. CASE At(q, "deleting")
  <2> DEFINE S == order[q].row
             lost == 2 * Recorded("agent_metric_samples", S) + Recorded("incident_monitors", S)
                       + Cardinality(tables.token \intersect S)
  <2>1. S \in SUBSET MonitorIds
    BY <1>1 DEF Counting, Remembers, At
  <2>2. /\ Deletion(Weight, S) \in Nat /\ lost \in Nat
        /\ Deletion(Writes, S) = Deletion(Weight, S) + lost
    BY <2>1, DeletionCharged DEF Counting
  <2>3. Missed(q) = lost + 0
    BY <1>1 DEF Missed
  <2> HIDE DEF S, lost
  <2>4. Destroys(q) = Deletion(Writes, S) /\ Charged(q) = Deletion(Weight, S)
    BY <1>1 DEF Destroys, Charged, S
  <2> QED
    BY <2>2, <2>3, <2>4
<1>2. CASE ~At(q, "deleting")
  <2> DEFINE file == order[q].row
             lost == 2 * Recorded("agent_metric_samples", MonitorIds)
                       + Recorded("incident_monitors", MonitorIds)
                       + Cardinality(tables.token \intersect MonitorIds)
                       + Cardinality(Pushed(file))
  <2>1. file \in SoundFiles
    BY <1>2 DEF Counting, Destructions, Remembers, Sound, At
  <2>2. /\ Replacement(Weight, file) \in Nat /\ lost \in Nat
        /\ Replacement(Writes, file) = Replacement(Weight, file) + lost
    BY <2>1, ReplacementCharged DEF Counting
  <2>3. Missed(q) = lost
    BY <1>2 DEF Missed
  <2> HIDE DEF file, lost
  <2>4. Destroys(q) = Replacement(Writes, file) /\ Charged(q) = Replacement(Weight, file)
    BY <1>2 DEF Destroys, Charged, file
  <2> QED
    BY <2>2, <2>3, <2>4
<1> QED
  BY <1>1, <1>2

\* The same of the state a step leads to.
LEMMA DestroysChargedNext ==
  ASSUME NEW q \in Admins
  PROVE  (Counting(q) => /\ Destroys(q) \in Nat /\ Charged(q) \in Nat /\ Missed(q) \in Nat
                         /\ Destroys(q) = Charged(q) + Missed(q))'
<1>1. Counting(q) => /\ Destroys(q) \in Nat /\ Charged(q) \in Nat /\ Missed(q) \in Nat
                     /\ Destroys(q) = Charged(q) + Missed(q)
  BY DestroysCharged
<1> QED
  BY <1>1, PTL

\* What was counted within the limit, and what is added to it and noted, stays
\* within the limit and what was noted.
LEMMA CountedKeeps ==
  ASSUME TablesInv, TablesInv', OrderShape', HistoryInv', CountedInv, Watch,
         \A r \in Admins : Remembers(r), \A r \in Admins : Remembers(r)',
         \A r \in Admins : order'[r].pc \in Destructions /\ order[r].pc \notin Destructions =>
           Charged(r)' <= WriteLimit
  PROVE  CountedInv'
<1> SUFFICES ASSUME NEW r \in Admins
             PROVE  /\ grown'[r] \in Nat
                    /\ order'[r].pc \in Destructions => Destroys(r)' <= WriteLimit + grown'[r]
  <2>1. grown' = [q \in Admins |-> grown'[q]]
    BY DEF Watch
  <2> HIDE DEF Watch
  <2>2. ASSUME \A q \in Admins : grown'[q] \in Nat PROVE grown' \in [Admins -> Nat]
    BY <2>1, <2>2
  <2> QED
    BY <2>2 DEF CountedInv
<1>1. grown[r] \in Nat /\ WriteLimit \in Nat
  BY ConfigurationAssumption DEF CountedInv
<1>2. CASE order'[r].pc \notin Destructions
  BY <1>2 DEF Watch
<1>3. CASE order'[r].pc \in Destructions
  <2>1. /\ Destroys(r)' \in Nat /\ Missed(r)' \in Nat /\ Charged(r)' \in Nat
        /\ Destroys(r)' = Charged(r)' + Missed(r)'
    BY <1>3, DestroysChargedNext DEF Counting
  <2>2. CASE order[r].pc \notin Destructions
    <3>1. grown'[r] = Missed(r)' /\ Charged(r)' <= WriteLimit
      BY <1>3, <2>2 DEF Watch
    <3> QED
      BY <1>1, <2>1, <3>1
  <2>3. CASE order[r].pc \in Destructions
    <3>1. Destroys(r) \in Nat /\ Destroys(r) <= WriteLimit + grown[r]
      BY <2>3, DestroysCharged DEF Counting, CountedInv
    <3>2. grown'[r] = grown[r] + Rise(Destroys(r), Destroys(r)')
      BY <1>3, <2>3 DEF Watch
    <3> QED
      BY <1>1, <2>1, <3>1, <3>2 DEF Rise
  <2> QED
    BY <2>2, <2>3
<1> QED
  BY <1>2, <1>3

\* What the next state charges a request for the rows it has then.
LEMMA ChargedNext ==
  ASSUME NEW q \in Admins, NEW x
  PROVE  (order[q].row = x =>
            /\ order[q].pc = "deleting" => Charged(q) = Deletion(Weight, x)
            /\ order[q].pc = "restoring" => Charged(q) = Replacement(Weight, x))'
<1>1. order[q].row = x =>
        /\ order[q].pc = "deleting" => Charged(q) = Deletion(Weight, x)
        /\ order[q].pc = "restoring" => Charged(q) = Replacement(Weight, x)
  BY DEF Charged, At
<1> QED
  BY <1>1, PTL

\* The same rows have the same price.
LEMMA PriceStays ==
  ASSUME tables' = tables, history' = history, NEW S, NEW file, NEW price
  PROVE  /\ Deletion(price, S)' = Deletion(price, S)
         /\ Replacement(price, file)' = Replacement(price, file)
<1>1. \A table, T : Recorded(table, T)' = Recorded(table, T)
  BY DEF Recorded, MapThenSumSet, MapThenFoldSet
<1>2. Monitors' = Monitors /\ Channels' = Channels /\ ShownPages' = ShownPages
  BY DEF Monitors, Channels, ShownPages
<1>3. \A T : Deletion(price, T)' = Deletion(price, T)
  BY <1>1, <1>2 DEF Deletion
<1> QED
  BY <1>2, <1>3 DEF Replacement

\* A request starts a destruction only within the limit.
LEMMA StartsWithinLimit ==
  ASSUME TablesInv, BackupInv, OrderShape, NEW q \in Admins, Handle(q), Touches(q),
         order'[q].pc \in Destructions, order[q].pc \notin Destructions
  PROVE  Charged(q)' <= WriteLimit
<1>1. CASE CountForDelete(q)
  <2>1. PICK S \in SUBSET Monitors :
          /\ Deletion(Weight, S) <= WriteLimit
          /\ Start(q, "deleting", "deletion", S, NoRow)
    BY <1>1 DEF CountForDelete
  <2>2. order'[q].pc = "deleting" /\ order'[q].row = S
    BY <2>1 DEF Start, NoOrder, OrderShape
  <2>3. Charged(q)' = Deletion(Weight, S)'
    BY <2>2, ChargedNext
  <2>4. Deletion(Weight, S)' = Deletion(Weight, S)
    BY <1>1, PriceStays DEF CountForDelete
  <2> QED
    BY <2>1, <2>3, <2>4
<1>2. CASE CountForRestore(q)
  <2>1. PICK file : /\ Replacement(Weight, file) <= WriteLimit
                    /\ Start(q, "restoring", NoRow, file, NoRow)
    BY <1>2, FileToRestore
  <2>2. order'[q].pc = "restoring" /\ order'[q].row = file
    BY <2>1 DEF Start, NoOrder, OrderShape
  <2>3. Charged(q)' = Replacement(Weight, file)'
    BY <2>2, ChargedNext
  <2>4. Replacement(Weight, file)' = Replacement(Weight, file)
    BY <1>2, PriceStays DEF CountForRestore
  <2> QED
    BY <2>1, <2>3, <2>4
<1> QED
  BY <1>1, <1>2 DEF Touches, Destructions

LEMMA HistoryKeeps ==
  ASSUME HistoryInv, NEW q \in Admins, Touches(q)
  PROVE  HistoryInv'
<1>1. NoHistory \in [HistoryTables -> Nat]
  BY DEF NoHistory
<1>2. CASE history' = history
  BY <1>2 DEF HistoryInv
<1>3. CASE DeleteMonitors(q) \/ Restore(q)
  BY <1>1, <1>3 DEF DeleteMonitors, Restore, HistoryInv
<1> QED
  BY <1>2, <1>3 DEF Touches

-----------------------------------------------------------------------------
(* The invariant.                                                          *)

LEMMA FirstFileSound ==
  ASSUME NEW type \in {NoRow, "http", "agent"}
  PROVE  /\ FirstFile(type) \in SoundFiles /\ Consistent(FirstFile(type))
         /\ \A m \in MonitorIds : m \in Present(FirstFile(type).monitor) =>
              type # NoRow /\ FirstFile(type).monitor[m].type = type
<1> DEFINE file == FirstFile(type)
<1>1. CASE type = NoRow
  <2>1. /\ file.monitor = [m \in MonitorIds |-> NoRow] /\ file.channel = [c \in ChannelIds |-> NoRow]
        /\ file.page = [p \in PageIds |-> NoRow] /\ file.bound = {} /\ file.shown = {}
        /\ file.windows = [m \in MonitorIds |-> 0]
    BY <1>1 DEF FirstFile
  <2>2. file \in SoundFiles
    BY <1>1, ConfigurationAssumption DEF FirstFile, SoundFiles, SoundMonitors, SoundChannels,
       SoundWindows
  <2>3. Consistent(file) /\ Present(file.monitor) = {}
    BY <2>1 DEF Consistent, Present
  <2> QED
    BY <2>2, <2>3
<1>2. CASE type \in {"http", "agent"} /\ type # NoRow
  <2> DEFINE monitor == [type |-> type, target |-> 1]
             channel == [kind |-> "slack", secret |-> "sealed"]
  <2>1. /\ monitor \in SoundMonitors /\ channel \in SoundChannels
        /\ monitor # NoRow /\ channel # NoRow /\ NoRow # "locked"
    BY <1>2, IdsAssumption DEF SoundMonitors, SoundChannels, MonitorRows, ChannelRows,
       ValidMonitor, ValidChannel
  <2>2. file = [monitor |-> [m \in MonitorIds |-> monitor],
                channel |-> [c \in ChannelIds |-> channel],
                page |-> [p \in PageIds |-> "locked"],
                bound |-> MonitorIds \X ChannelIds, shown |-> PageIds \X MonitorIds,
                windows |-> [m \in MonitorIds |-> 0], retention |-> "default"]
    BY <1>2 DEF FirstFile
  <2> HIDE DEF file, channel
  <2>3. monitor.type = type
    OBVIOUS
  <2> HIDE DEF monitor
  <2>4. file \in SoundFiles
    BY <2>1, <2>2, ConfigurationAssumption DEF SoundFiles, SoundWindows
  <2>5. /\ Present(file.monitor) = MonitorIds /\ Present(file.channel) = ChannelIds
        /\ Present(file.page) = PageIds
    BY <2>1, <2>2 DEF Present
  <2>6. Consistent(file)
    BY <2>2, <2>5 DEF Consistent
  <2> QED
    BY <1>2, <2>2, <2>3, <2>4, <2>6 DEF file
<1> QED
  BY <1>1, <1>2

LEMMA ConfInvInit == ConfInit => ConfInv
<1> SUFFICES ASSUME ConfInit PROVE ConfInv
  OBVIOUS
<1>1. PICK type \in {NoRow, "http", "agent"} :
        LET file == FirstFile(type)
            ids  == Present(file.monitor)
        IN  /\ tables = [file |-> file, alert |-> ids,
                         token |-> IF type \in PushTypes THEN ids ELSE {}]
            /\ used = ids \union Present(file.channel) \union Present(file.page)
  BY DEF ConfInit
<1> DEFINE file == FirstFile(type)
<1>2. /\ file \in SoundFiles /\ Consistent(file)
      /\ \A m \in MonitorIds : m \in Present(file.monitor) =>
           type # NoRow /\ file.monitor[m].type = type
  BY FirstFileSound
<1> HIDE DEF file
<1>3. /\ tables = [file |-> file, alert |-> Present(file.monitor),
                   token |-> IF type \in PushTypes THEN Present(file.monitor) ELSE {}]
      /\ used = Present(file.monitor) \union Present(file.channel) \union Present(file.page)
  BY <1>1 DEF file
<1>4. /\ history = [m \in MonitorIds |-> NoHistory] /\ order = [q \in Admins |-> NoOrder]
      /\ orders = 0 /\ backup \in {{}, {tables.file}} /\ imported = FALSE
      /\ grown = [q \in Admins |-> 0]
  BY DEF ConfInit
<1>5. /\ Present(file.monitor) \subseteq MonitorIds /\ Present(file.channel) \subseteq ChannelIds
      /\ Present(file.page) \subseteq PageIds
  BY <1>2 DEF SoundFiles, Present
<1>6. TablesInv
  <2>1. tables \in ConfTables
    BY <1>2, <1>3, <1>5 DEF ConfTables
  <2>2. Sound(tables.file) /\ Consistent(tables.file)
    BY <1>2, <1>3 DEF Sound
  <2>3. used \subseteq MonitorIds \union ChannelIds \union PageIds
    BY <1>3, <1>5
  <2>4. orders \in 0..MaxOrders
    BY <1>4, ConfigurationAssumption
  <2>5. imported \in BOOLEAN
    BY <1>4, Zenon
  <2> QED
    BY <2>1, <2>2, <2>3, <2>4, <2>5 DEF TablesInv, ConfTables
<1>7. \A q \in Admins : order[q] = NoOrder /\ order[q].pc = "idle"
  BY <1>4 DEF NoOrder
<1>8. OrderShape
  BY <1>4 DEF OrderShape, OrderFields, NoOrder, Places
<1>9. \A q \in Admins : Remembers(q)
  BY <1>7 DEF Remembers
<1>10. ExportInv /\ PageInv
  BY <1>7 DEF ExportInv, PageInv, At
<1>11. BackupInv
  BY <1>4, <1>6 DEF BackupInv, TablesInv
<1>12. TokenInv
  <2>1. ASSUME NEW m \in MonitorIds PROVE ~LacksToken(m)
    BY <1>2, <1>3 DEF LacksToken, Monitors
  <2>2. \A q \in Admins, m \in MonitorIds : ~Handles(q, m)
    BY <1>7 DEF Handles, At
  <2>3. \A q \in Admins : Knows(q)
    BY <1>7 DEF Knows, At
  <2> QED
    BY <2>1, <2>2, <2>3 DEF TokenInv
<1>13. CountedInv
  BY <1>4, <1>7 DEF CountedInv, HistoryInv, NoHistory, Destructions
<1> QED
  BY <1>6, <1>8, <1>9, <1>10, <1>11, <1>12, <1>13 DEF ConfInv

\* What a step that is no request's leaves of the requests.
AllFollow ==
  \A r \in Admins :
    /\ order'[r].pc = order[r].pc /\ order'[r].id = order[r].id
    /\ order'[r].row = order[r].row /\ order'[r].wish = order[r].wish
    /\ order'[r].stale = order[r].stale

LEMMA ElsewhereKeeps ==
  ASSUME ConfInv, TablesInv', OrderShape', AllFollow,
         used' = used, backup' = backup, shaken' = shaken, imported' = imported,
         tables'.file.monitor = tables.file.monitor, tables'.file.page = tables.file.page,
         tables'.token = tables.token
  PROVE  /\ \A q \in Admins : Remembers(q)'
         /\ ExportInv' /\ BackupInv' /\ PageInv' /\ TokenInv'
<1> USE DEF AllFollow
<1>0. SoundFiles' = SoundFiles /\ \A file : Sound(file) => Sound(file)'
  BY SameSound DEF Sound
<1>1. \A q \in Admins : Remembers(q)'
  <2>1. ASSUME NEW q \in Admins PROVE Remembers(q)'
    <3>1. Remembers(q)
      BY DEF ConfInv
    <3> QED
      BY <1>0, <3>1 DEF Remembers
  <2> QED
    BY <2>1
<1>2. ExportInv'
  <2>1. ASSUME NEW r \in Admins, order'[r].pc = "exporting"
        PROVE  \E file \in SoundFiles', k \in 0..7 :
                 Sound(file)' /\ ReadSoFar(order'[r].row, k, file)
    <3>1. PICK file \in SoundFiles, k \in 0..7 :
            Sound(file) /\ ReadSoFar(order[r].row, k, file)
      BY <2>1 DEF ConfInv, ExportInv, At
    <3> QED
      BY <1>0, <3>1
  <2> QED
    BY <2>1 DEF ExportInv, At
<1>3. BackupInv'
  BY <1>0 DEF ConfInv, BackupInv
<1>4. PageInv'
  BY DEF ConfInv, PageInv, At
<1>5. TokenInv'
  <2>1. \A q \in Admins, m \in MonitorIds :
          /\ Handles(q, m)' <=> Handles(q, m)
          /\ Brings(q, m)' <=> Brings(q, m)
    BY DEF Handles, Brings, At, HadToken
  <2>2. \A q \in Admins : Knows(q)' <=> Knows(q)
    BY DEF Knows, At, HadToken, Monitors
  <2>3. \A m \in MonitorIds : LacksToken(m)' <=> LacksToken(m)
    BY DEF LacksToken, Monitors
  <2>4. ASSUME NEW m \in MonitorIds \ shaken
        PROVE  /\ \A q, r \in Admins : Handles(q, m)' /\ Handles(r, m)' => q = r
               /\ \A q \in Admins : order'[q].id = m => Knows(q)'
               /\ LacksToken(m)' => \E q \in Admins : Brings(q, m)'
    BY <2>1, <2>2, <2>3 DEF ConfInv, TokenInv
  <2> QED
    BY <2>4 DEF TokenInv
<1> QED
  BY <1>1, <1>2, <1>3, <1>4, <1>5

\* History grows by rows of the tables that are counted one by one.
LEMMA ObserveKeeps ==
  ASSUME ConfInv, Observe, Watch
  PROVE  ConfInv'
<1>1. PICK m \in Monitors, table \in Filled, n \in Batches :
        /\ history' = [history EXCEPT ![m][table] = @ + n]
        /\ UNCHANGED <<tables, used, order, orders, backup, shaken, imported>>
  BY DEF Observe
<1>2. TablesInv /\ OrderShape /\ CountedInv /\ \A q \in Admins : Remembers(q)
  BY DEF ConfInv
<1>3. TablesInv'
  BY <1>1, <1>2, SameSound DEF TablesInv, Sound, Consistent
<1>4. AllFollow /\ OrderShape'
  BY <1>1, <1>2 DEF AllFollow, OrderShape
<1>5. HistoryInv'
  <2>1. m \in MonitorIds /\ table \in HistoryTables /\ n \in Nat
    BY <1>1, <1>2, ConfigurationAssumption, FilledAssumption
       DEF TablesInv, SoundFiles, Monitors, Present
  <2> QED
    BY <1>1, <1>2, <2>1 DEF CountedInv, HistoryInv
<1>6. /\ \A q \in Admins : Remembers(q)'
      /\ ExportInv' /\ BackupInv' /\ PageInv' /\ TokenInv'
  BY <1>1, <1>3, <1>4, ElsewhereKeeps
<1>7. CountedInv'
  BY <1>1, <1>2, <1>3, <1>4, <1>5, <1>6, CountedKeeps
<1> QED
  BY <1>3, <1>4, <1>6, <1>7 DEF ConfInv

LEMMA WindowEndsKeeps ==
  ASSUME ConfInv, WindowEnds, Watch
  PROVE  ConfInv'
<1>1. PICK m \in Monitors :
        /\ tables.file.windows[m] > 0
        /\ WriteRow("windows", m, tables.file.windows[m] - 1)
        /\ UNCHANGED <<history, used, order, orders, backup, shaken, imported>>
  BY DEF WindowEnds
<1>2. TablesInv /\ OrderShape /\ CountedInv /\ \A q \in Admins : Remembers(q)
  BY DEF ConfInv
<1>3. TablesInv'
  <2> DEFINE left == [tables.file.windows EXCEPT ![m] = tables.file.windows[m] - 1]
  <2>1. /\ tables.file \in SoundFiles /\ tables \in ConfTables
        /\ left \in [MonitorIds -> SoundWindows]
        /\ \A n \in MonitorIds : left[n] > 0 => tables.file.windows[n] > 0
    BY <1>1, <1>2, ConfigurationAssumption
       DEF TablesInv, ConfTables, SoundFiles, SoundWindows, Monitors, Present
  <2>2. tables' = [tables EXCEPT !.file = [tables.file EXCEPT !.windows = left]]
    BY <1>1 DEF WriteRow
  <2> HIDE DEF left
  <2>3. tables'.file = [tables.file EXCEPT !.windows = left]
    BY <1>2, <2>2, TableNames
  <2>4. tables'.file \in SoundFiles
    BY <2>1, <2>3 DEF SoundFiles
  <2>5. tables' \in ConfTables
    BY <2>1, <2>2, <2>3, <2>4 DEF ConfTables
  <2>6. Consistent(tables.file)'
    BY <1>2, <2>1, <2>3 DEF TablesInv, Consistent, SoundFiles, SoundWindows
  <2>7. Present(tables'.file.page) \subseteq used'
    BY <1>1, <1>2, <2>1, <2>3 DEF TablesInv, Sound, SoundFiles
  <2> QED
    BY <1>1, <1>2, <2>5, <2>6, <2>7, TablesOf DEF TablesInv
<1>4. /\ tables'.file.monitor = tables.file.monitor /\ tables'.file.page = tables.file.page
      /\ tables'.token = tables.token
  BY <1>1, <1>2, TableNames DEF WriteRow
<1>5. HistoryInv'
  BY <1>1, <1>2 DEF CountedInv, HistoryInv
<1>6. AllFollow /\ OrderShape'
  BY <1>1, <1>2 DEF AllFollow, OrderShape
<1>7. /\ \A q \in Admins : Remembers(q)'
      /\ ExportInv' /\ BackupInv' /\ PageInv' /\ TokenInv'
  BY <1>1, <1>3, <1>4, <1>6, ElsewhereKeeps
<1>8. CountedInv'
  BY <1>1, <1>2, <1>3, <1>5, <1>6, <1>7, CountedKeeps
<1> QED
  BY <1>3, <1>6, <1>7, <1>8 DEF ConfInv

\* The requests of the others remember what they did.
LEMMA OthersRemember ==
  ASSUME NEW q \in Admins, OthersFollow(q), used \subseteq used', imported => imported',
         NEW r \in Admins \ {q}, Remembers(r)
  PROVE  Remembers(r)'
<1>1. \A file : Sound(file) => Sound(file)'
  BY SoundStays DEF Sound
<1>2. /\ order'[r].pc = order[r].pc /\ order'[r].id = order[r].id
      /\ order'[r].row = order[r].row /\ order'[r].wish = order[r].wish
  BY DEF OthersFollow
<1> QED
  BY <1>1, <1>2 DEF Remembers

LEMMA HandleKeeps ==
  ASSUME ConfInv, NEW q \in Admins, Handle(q), Watch
  PROVE  ConfInv'
<1>1. /\ TablesInv /\ OrderShape /\ ExportInv /\ BackupInv /\ PageInv /\ TokenInv /\ CountedInv
      /\ \A r \in Admins : Remembers(r)
  BY DEF ConfInv
<1>2. OrderShape' /\ OthersFollow(q) /\ GoesOn(q)
  BY <1>1, OrdersFollow
<1>3. TablesInv'
  BY <1>1, TablesFollow
<1>4. Touches(q) /\ Moves(q)
  BY <1>1, RequestWrites, RequestMoves
<1>5. \A r \in Admins : Remembers(r)'
  <2>1. Remembers(q)'
    BY <1>1, RequestRemembers
  <2>2. used \subseteq used' /\ (imported => imported')
    BY <1>4 DEF Touches
  <2>3. ASSUME NEW r \in Admins \ {q} PROVE Remembers(r)'
    BY <1>1, <1>2, <2>2, OthersRemember
  <2> QED
    BY <2>1, <2>3
<1>6. ExportInv' /\ BackupInv' /\ PageInv'
  BY <1>1, <1>2, <1>4, ExportKeeps, BackupKeeps, PageKeeps
<1>7. TokenInv'
  <2>1. \A m \in MonitorIds \ shaken' :
          (Handles(q, m) \/ Handles(q, m)') /\ Keeps(q, m) => Keeps(q, m)'
    BY <1>1, <1>3, <1>4, RequestKeeps
  <2> QED
    BY <1>1, <1>2, <1>3, <1>4, <2>1, TokenKeeps
<1>8. CountedInv'
  <2>1. HistoryInv'
    BY <1>1, <1>4, HistoryKeeps DEF CountedInv
  <2>2. ASSUME NEW r \in Admins, order'[r].pc \in Destructions,
               order[r].pc \notin Destructions
        PROVE  Charged(r)' <= WriteLimit
    <3>1. r = q
      BY <1>2, <2>2 DEF OthersFollow
    <3> QED
      BY <1>1, <1>4, <2>2, <3>1, StartsWithinLimit
  <2> QED
    BY <1>1, <1>2, <1>3, <1>5, <2>1, <2>2, CountedKeeps
<1> QED
  BY <1>2, <1>3, <1>5, <1>6, <1>7, <1>8 DEF ConfInv

LEMMA ConfInvStep == ConfInv /\ [ConfNext]_confVars => ConfInv'
<1> SUFFICES ASSUME ConfInv, [ConfNext]_confVars PROVE ConfInv'
  OBVIOUS
<1>1. ASSUME NEW q \in Admins, Handle(q), Watch PROVE ConfInv'
  BY <1>1, HandleKeeps
<1>2. CASE Observe /\ Watch
  BY <1>2, ObserveKeeps
<1>3. CASE WindowEnds /\ Watch
  BY <1>3, WindowEndsKeeps
<1>4. CASE UNCHANGED confVars
  <2>1. /\ tables' = tables /\ history' = history /\ used' = used /\ order' = order
        /\ orders' = orders /\ backup' = backup /\ shaken' = shaken
        /\ imported' = imported /\ grown' = grown
    BY <1>4 DEF confVars
  <2>2. /\ SoundFiles' = SoundFiles /\ \A file : Sound(file)' <=> Sound(file)
        /\ \A file : Consistent(file)' <=> Consistent(file)
    BY <2>1, SameSound DEF Sound, Consistent
  <2>3. /\ TablesInv' /\ OrderShape' /\ ExportInv' /\ BackupInv' /\ PageInv'
        /\ \A q \in Admins : Remembers(q)'
    BY <2>1, <2>2 DEF ConfInv, TablesInv, OrderShape, ExportInv, BackupInv, PageInv,
       Remembers, At
  <2>4. TokenInv'
    <3>1. /\ \A q \in Admins, m \in MonitorIds :
               (Handles(q, m)' <=> Handles(q, m)) /\ (Brings(q, m)' <=> Brings(q, m))
          /\ \A q \in Admins : Knows(q)' <=> Knows(q)
          /\ \A m \in MonitorIds : LacksToken(m)' <=> LacksToken(m)
      BY <2>1 DEF Handles, Brings, Knows, LacksToken, Monitors, At, HadToken
    <3> QED
      BY <2>1, <3>1 DEF ConfInv, TokenInv
  <2>5. CountedInv'
    <3>1. \A q \in Admins : Destroys(q)' = Destroys(q)
      BY <2>1, PriceStays DEF Destroys, At
    <3> QED
      BY <2>1, <3>1 DEF ConfInv, CountedInv, HistoryInv
  <2> QED
    BY <2>3, <2>4, <2>5 DEF ConfInv
<1> QED
  BY <1>1, <1>2, <1>3, <1>4 DEF ConfNext

-----------------------------------------------------------------------------
(* Theorems.                                                               *)

\* In every reachable state the configuration satisfies the invariant: what the
\* four theorems below rest on.
LEMMA ConfInvariant == ConfSpec => []ConfInv
<1> QED
  BY ConfInvInit, ConfInvStep, PTL DEF ConfSpec

LEMMA ConfTypesFollow == ConfInv => ConfTypeOK
<1> SUFFICES ASSUME ConfInv PROVE ConfTypeOK
  OBVIOUS
<1>1. TablesInv /\ OrderShape /\ CountedInv
  BY DEF ConfInv
<1>2. tables.file \in SoundFiles
  BY <1>1 DEF TablesInv
<1>3. /\ SoundMonitors \subseteq MonitorRows \union {NoRow}
      /\ SoundChannels \subseteq ChannelRows \union {NoRow} /\ SoundWindows \subseteq Nat
  BY DEF SoundMonitors, SoundChannels, SoundWindows
<1>4. tables.file \in Files
  BY <1>2, <1>3 DEF SoundFiles, Files
<1>5. ASSUME ~imported
      PROVE  /\ \A m \in Monitors : ValidMonitor(tables.file.monitor[m])
                                   /\ tables.file.windows[m] <= WindowLimit
             /\ \A c \in Channels : ValidChannel(tables.file.channel[c])
  BY <1>2, <1>5 DEF SoundFiles, SoundMonitors, SoundChannels, SoundWindows, Monitors,
     Channels, Present
<1> QED
  BY <1>1, <1>4, <1>5 DEF ConfTypeOK, TablesInv, OrderShape, CountedInv, HistoryInv

\* However edits, deletions and restores of its own backups interleave, the
\* tables hold rows their validation accepts and no monitor has more windows
\* than the limit.  An uploaded file can bring others, and from then on nothing
\* is said of them.
THEOREM ConfigurationTypeOK == ConfSpec => []ConfTypeOK
  BY ConfTypesFollow, ConfInvariant, PTL

\* A monitor that is pushed to has its token or a request in flight that will
\* write it, unless requests on it met or were cut off.
THEOREM TokensPresent == ConfSpec => []PushTokenPresent
<1>1. ConfInv => PushTokenPresent
  <2> SUFFICES ASSUME ConfInv, NEW m \in Monitors \ (tables.token \union shaken),
                      tables.file.monitor[m].type \in PushTypes
               PROVE  InFlightOn(m)
    BY DEF PushTokenPresent
  <2>1. m \in MonitorIds \ shaken /\ LacksToken(m)
    BY DEF ConfInv, TablesInv, Sound, SoundFiles, Monitors, Present, LacksToken
  <2>2. PICK q \in Admins : Brings(q, m)
    BY <2>1 DEF ConfInv, TokenInv
  <2> QED
    BY <2>2 DEF Brings, InFlightOn, At
<1> QED
  BY <1>1, ConfInvariant, PTL

\* A page becomes public only by a restore, an edit that asks for it, or one
\* that had read the page before another write of it.
LEMMA ProtectionStep ==
  ASSUME ConfInv, [ConfNext]_confVars, NEW p \in PageIds,
         tables.file.page[p] = "locked", tables'.file.page[p] = "open"
  PROVE  \E q \in Admins :
           \/ At(q, "restoring")
           \/ /\ At(q, "editPage") /\ order[q].id = p
              /\ order[q].wish.access = "open" \/ order[q].stale = 1
<1>1. TablesInv /\ OrderShape /\ PageInv /\ \A r \in Admins : Remembers(r)
  BY DEF ConfInv
<1>2. tables.file.page # tables'.file.page
  OBVIOUS
<1>3. ~WindowEnds /\ ~Observe
  <2>1. ASSUME WindowEnds PROVE FALSE
    <3>1. PICK m : WriteRow("windows", m, tables.file.windows[m] - 1)
      BY <2>1 DEF WindowEnds
    <3> QED
      BY <1>1, <1>2, <3>1, TableNames DEF WriteRow
  <2> QED
    BY <1>2, <2>1 DEF Observe
<1>4. PICK q \in Admins : Handle(q)
  BY <1>2, <1>3 DEF ConfNext, confVars
<1>5. CreatePage(q) \/ EditPage(q) \/ DeletePage(q) \/ Restore(q)
  BY <1>1, <1>2, <1>4, RequestWrites DEF Touches, ConfInv
<1>6. DOMAIN tables.file.page = PageIds /\ p \in used
  BY <1>1, IdsAssumption DEF TablesInv, Sound, SoundFiles, Present
<1>7. ~CreatePage(q)
  <2>1. ASSUME CreatePage(q) PROVE FALSE
    <3>1. PICK n \in PageIds \ used, access \in {"open", "locked"}, chosen \in SUBSET Monitors :
            tables' = [tables EXCEPT !.file.page[n] = access,
                                     !.file.shown = @ \union ({n} \X chosen)]
      BY <2>1 DEF CreatePage
    <3>2. tables'.file.page = [tables.file.page EXCEPT ![n] = access]
      BY <1>1, <3>1, TableNames
    <3> QED
      BY <1>6, <3>1, <3>2
  <2> QED
    BY <2>1
<1>8. ~DeletePage(q)
  <2>1. ASSUME DeletePage(q) PROVE FALSE
    <3>1. PICK n \in ShownPages :
            tables' = [tables EXCEPT !.file.page[n] = NoRow,
                                     !.file.shown = {s \in @ : s[1] # n}]
      BY <2>1 DEF DeletePage
    <3>2. tables'.file.page = [tables.file.page EXCEPT ![n] = NoRow]
      BY <1>1, <3>1, TableNames
    <3> QED
      BY <1>6, <3>2, IdsAssumption
  <2> QED
    BY <2>1
<1>9. CASE Restore(q)
  BY <1>9 DEF Restore
<1>10. CASE EditPage(q)
  <2> DEFINE n == order[q].id
             access == MergedAccess(order[q].row, order[q].wish)
  <2>1. /\ At(q, "editPage")
        /\ UNCHANGED tables \/ tables' = [tables EXCEPT !.file["page"][n] = access]
    BY <1>10 DEF EditPage, WriteRow
  <2>2. tables'.file.page = [tables.file.page EXCEPT ![n] = access]
    <3> HIDE DEF access
    <3> QED
      BY <1>1, <1>2, <2>1, TableNames
  <2>3. n = p /\ access = "open"
    <3> HIDE DEF access, n
    <3> QED
      BY <1>6, <2>2
  <2>4. order[q].wish \in PageWishes /\ (order[q].stale = 0 => order[q].row = "locked")
    BY <1>1, <2>1, <2>3 DEF Remembers, PageInv, At
  <2>5. order[q].wish.access = "open" \/ order[q].stale = 1
    BY <1>1, <2>3, <2>4 DEF MergedAccess, PageWishes, OrderShape
  <2> QED
    BY <2>1, <2>3, <2>5
<1> QED
  BY <1>5, <1>7, <1>8, <1>9, <1>10

\* An edit that leaves the password of a status page out keeps the protection.
THEOREM ProtectionIsKept == ConfSpec => ProtectionKept
<1>1. ConfInv /\ [ConfNext]_confVars =>
        [\A p \in PageIds :
           tables.file.page[p] = "locked" /\ tables'.file.page[p] = "open" =>
             \E q \in Admins :
               \/ At(q, "restoring")
               \/ /\ At(q, "editPage") /\ order[q].id = p
                  /\ order[q].wish.access = "open" \/ order[q].stale = 1]_confVars
  BY ProtectionStep
<1> QED
  BY <1>1, ConfInvariant, PTL DEF ConfSpec, ProtectionKept

\* What a deletion or a restore writes is within the write limit, but for what
\* was added after the count and what the estimate is known to miss.
THEOREM DestructionsStayWithinLimit == ConfSpec => DestructionWithinLimit
<1>1. ConfInv /\ [ConfNext]_confVars =>
        [\A q \in Admins :
           order[q].pc \in Destructions /\ tables' # tables /\ order'[q].pc = "idle" =>
             Destroys(q) <= WriteLimit + grown[q]]_confVars
  BY DEF ConfInv, CountedInv
<1> QED
  BY <1>1, ConfInvariant, PTL DEF ConfSpec, DestructionWithinLimit

=============================================================================
