-------------------------------- MODULE Delivery --------------------------------
(***************************************************************************)
(* From a notification to its reader: notification.service.ts,             *)
(* notification.channels.ts, notification.gateway.ts,                      *)
(* notification.pubsub.ts, realtime-events.service.ts and                  *)
(* notification.pg-store.ts.  When the handlers notify is told by          *)
(* Ingestion, CertificationAlerts and RuleBook; here is what becomes of    *)
(* it, and it is checked at the end.                                       *)
(*                                                                         *)
(* Preferences are the set of the channels of a type that are on.  An      *)
(* optional value is a set of at most one, and so is the result of what    *)
(* may end in an exception.                                                *)
(***************************************************************************)
EXTENDS Notifications, Sequences, Functions, SequencesExt, TLC

Types == {"RULE_CHANGE", "EXCURSION_ALERT", "CERTIFICATION_EXPIRY", "MISSING_DOCUMENT",
          "PACK_GENERATED", "CLAIM_FILED"}
Channels == {"inApp", "email", "push", "line"}

\* buildDefaultNotificationPreferences, mergeWithDefaults
Merged(stored) == [t \in Types |-> IF t \in DOMAIN stored THEN stored[t] ELSE {"inApp"}]

\* upsertPreferences, of a sequence of [type, on]: one statement, which may not write a
\* row twice.
Upsert(stored, wishes) ==
    IF \E i, j \in DOMAIN wishes : i < j /\ wishes[i].type = wishes[j].type THEN {}
    ELSE LET wish(t) == CHOOSE w \in Range(wishes) : w.type = t
         IN  {[t \in {w.type : w \in Range(wishes)} |-> wish(t).on] @@ stored}

\* requiredExcursionChannels, buildExcursionAlertPreference: the owner cannot turn these
\* off.
Required == [MINOR |-> {"inApp"}, MODERATE |-> {"inApp", "email"},
             SEVERE |-> {"inApp", "email", "push"}, CRITICAL |-> Channels]
Effective(stored, severity) == Merged(stored)["EXCURSION_ALERT"] \cup Required[severity]

\* dispatch of NotificationChannels: every channel that is on, configured and has an
\* address of the user is tried before any of them is waited for; broken: the channels
\* that fail.  dispatchCreatedNotifications only logs a failure.
Tried(on, target, configured) == (on \ {"inApp"}) \cap configured \cap target
Sent(on, target, configured, broken) == Tried(on, target, configured) \ broken

\* sendDirectEmail, which must arrive, fails where a notification is skipped.
DirectEmail(recipient, configured, broken) ==
    IF recipient = {} \/ "email" \notin configured \ broken THEN {} ELSE recipient

\* listMarketAudienceUserIds; users is user -> role, lanes a set of [owner, market].
Staff(users) == {u \in DOMAIN users : users[u] \in {"ADMIN", "AUDITOR"}}
MarketAudience(market, users, lanes) ==
    {l.owner : l \in {x \in lanes : x.market = market}} \cup Staff(users)

\* notifyUsers; stored: user -> preferences.  Who switched every channel off gets no row;
\* the event for those who watch the lane is published with the rows of the others, if
\* there are any.
NotifyUsers(users, type, stored) ==
    LET told == {u \in users : Merged(stored[u])[type] # {}}
    IN  IF ~Insertable(Cardinality(told)) THEN {}
        ELSE {[rows |-> told, inApp |-> {u \in told : "inApp" \in Merged(stored[u])[type]},
               packGenerated |-> type = "PACK_GENERATED" /\ told # {}]}

\* notifyMarketAudience of a rule change: rule.updated goes to those who muted it, too.
NotifyMarket(audience, stored, substances) ==
    {[told |-> n, ruleUpdated |-> IF substances = {} THEN {} ELSE audience] :
        n \in NotifyUsers(audience, "RULE_CHANGE", stored)}

\* notifyLaneOwner finds the owner by the internal id only.
Owner(lanes, id) == {l.owner : l \in {x \in lanes : x.id = id}}

\* markAsRead: the first time counts, and another user's notification is not found.
MarkRead(rows, id, user, now) ==
    IF id \in DOMAIN rows /\ rows[id].user = user
    THEN {[rows EXCEPT ![id].read = IF @ = {} THEN {now} ELSE @]} ELSE {}
Unread(rows, user) == Cardinality({id \in DOMAIN rows : rows[id].user = user /\ rows[id].read = {}})

-----------------------------------------------------------------------------
(* Sockets of one process: [live, known, rooms, connections, subscriptions], of which the *)
(* last two are the counters getMetrics shows.                                            *)

NoSockets == [live |-> {}, known |-> {}, rooms |-> {}, connections |-> 0, subscriptions |-> 0]
Less(n) == IF n = 0 THEN 0 ELSE n - 1

\* findLaneRealtimeAccess, requireLaneAccess; a client is [user, role].
HasAccess(client, lane) == client.role \in {"ADMIN", "AUDITOR"} \/ lane.owner = client.user

\* handleConnection up to its first await, and the rest of it once the token is verified
\* (a token that is refused closes the socket); the client may have gone in between.
Connect(g, c) == [g EXCEPT !.live = @ \cup {c}]
Verified(g, c) == [g EXCEPT !.known = @ \cup {c}, !.connections = @ + 1]
HandleDisconnect(g, c) ==
    [g EXCEPT !.live = @ \ {c}, !.rooms = {r \in @ : r[1] # c},
              !.connections = IF c \in g.known THEN Less(@) ELSE @]
Subscribe(g, c, lane) ==
    IF c \in g.known /\ HasAccess(c, lane)
    THEN [g EXCEPT !.rooms = @ \cup {<<c, lane>>}, !.subscriptions = @ + 1] ELSE g
Unsubscribe(g, c, lane) ==
    IF c \in g.known /\ HasAccess(c, lane)
    THEN [g EXCEPT !.rooms = @ \ {<<c, lane>>}, !.subscriptions = Less(@)] ELSE g

\* Emitting to a room reaches the sockets of this process, and those of the others if the
\* Redis adapter could be set up.
Reached(room, process, adapter) ==
    {s \in room : s.process = process \/ adapter}
-----------------------------------------------------------------------------
(* Checks *)

Wishes == UNION {[1 .. n -> [type : {"RULE_CHANGE", "CLAIM_FILED"}, on : {{}, {"email"}, {"inApp", "push"}}]] :
                    n \in 0 .. 2}
Kept == {<< >>, [t \in {"RULE_CHANGE"} |-> {"line"}], [t \in {"EXCURSION_ALERT"} |-> {}]}

\* What the user asks for is what the user gets, for the types named and for no other, and
\* asking again changes nothing; a type named twice is refused as a whole.
ASSUME PreferencesAreKept ==
    \A stored \in Kept, wishes \in Wishes :
        LET named == {w.type : w \in Range(wishes)} IN
        /\ Upsert(stored, wishes) = {} <=> Cardinality(named) # Len(wishes)
        /\ \A new \in Upsert(stored, wishes) :
            /\ \A w \in Range(wishes) : Merged(new)[w.type] = w.on
            /\ \A t \in Types \ named : Merged(new)[t] = Merged(stored)[t]
            /\ Upsert(new, wishes) = {new}

\* A worse excursion uses every channel a lesser one does, and some channel of an excursion
\* is always tried if it is configured and has an address, whatever the owner switched off.
Ladder == <<"MINOR", "MODERATE", "SEVERE", "CRITICAL">>
ASSUME ExcursionsGetThrough ==
    \A stored \in Kept, i \in 1 .. 4, target \in SUBSET Channels, configured \in SUBSET Channels :
        LET on == Effective(stored, Ladder[i]) IN
        /\ "inApp" \in on
        /\ \A j \in i .. 4 : on \subseteq Effective(stored, Ladder[j])
        /\ Ladder[i] = "CRITICAL" => Tried(on, target, configured) = (target \cap configured) \ {"inApp"}

\* A channel that fails takes no other with it.
ASSUME ChannelsFailAlone ==
    \A on, target, configured, broken \in SUBSET Channels :
        \A c \in Channels \ broken :
            c \in Sent(on, target, configured, broken) <=> c \in Sent(on, target, configured, {})

\* A change of a market's rules: with two in the audience who did not mute it nothing is
\* stored and nobody is told, not even by an event; with at most one, all are told who are
\* in the audience.
People == [a \in {"admin", "e1", "e2"} |-> IF a = "admin" THEN "ADMIN" ELSE "EXPORTER"]
Shipping == {[id |-> 1, owner |-> "e1", market |-> "JAPAN"], [id |-> 2, owner |-> "e2", market |-> "EU"]}
Muted(users) == [u \in DOMAIN People |-> IF u \in users THEN [t \in {"RULE_CHANGE"} |-> {}] ELSE << >>]
ASSUME RuleChangesReachOneReader ==
    /\ MarketAudience("JAPAN", People, Shipping) = {"admin", "e1"}
    /\ \A users \in SUBSET DOMAIN People :
        LET heard == NotifyMarket({"admin", "e1"}, Muted(users), {"lead"})
        IN  /\ heard = {} <=> users \cap {"admin", "e1"} = {}
            /\ \A n \in heard : n.told.rows = {"admin", "e1"} \ users
                                /\ n.ruleUpdated = {"admin", "e1"}
    /\ NotifyMarket({"admin"}, Muted({}), {})
         = {[told |-> [rows |-> {"admin"}, inApp |-> {"admin"}, packGenerated |-> FALSE],
             ruleUpdated |-> {}]}

\* A pack's event for those who watch the lane is published only if its owner did not mute
\* packs: the owner's preference decides for administrators and auditors as well.
ASSUME MutedPacksAreNotShown ==
    \A on \in SUBSET Channels :
        \A n \in NotifyUsers({"e1"}, "PACK_GENERATED", [u \in {"e1"} |-> [t \in {"PACK_GENERATED"} |-> on]]) :
            n.packGenerated <=> on # {}
ASSUME Owner(Shipping, 1) = {"e1"} /\ Owner(Shipping, 9) = {}

\* Reading twice, or in another order, leaves the first time and takes one off the count.
ASSUME ReadingCountsOnce ==
    LET rows == [i \in 1 .. 2 |-> [user |-> "e1", read |-> {}]]
        once == CHOOSE r \in MarkRead(rows, 1, "e1", 5) : TRUE
    IN  /\ Unread(rows, "e1") = 2 /\ Unread(once, "e1") = 1
        /\ MarkRead(once, 1, "e1", 9) = {once}
        /\ MarkRead(rows, 1, "e2", 5) = {} /\ MarkRead(rows, 3, "e1", 5) = {}

\* What may happen to a client's socket: it comes, is verified, subscribes, unsubscribes,
\* and goes, of which the middle may come late.
Watcher == [user |-> "e1", role |-> "EXPORTER"]
Auditor == [user |-> "aud", role |-> "AUDITOR"]
Own == [id |-> 1, owner |-> "e1"]
Foreign == [id |-> 2, owner |-> "e2"]
Events == {"verified", "own", "foreign", "leave", "gone"}
Step(g, e) == CASE e = "verified" -> Verified(g, Watcher)
                [] e = "own" -> Subscribe(g, Watcher, Own)
                [] e = "foreign" -> Subscribe(g, Watcher, Foreign)
                [] e = "leave" -> Unsubscribe(g, Watcher, Own)
                [] e = "gone" -> HandleDisconnect(g, Watcher)
Lives == UNION {{s \in [1 .. n -> Events] :
                   \A e \in {"verified", "gone"} : Cardinality({i \in 1 .. n : s[i] = e}) <= 1} : n \in 0 .. 4}
Life(s) == FoldLeft(Step, Connect(NoSockets, Watcher), s)

\* Only lanes of its own are shown to an exporter.  The counter of connections counts every
\* known client that is there, and it is right unless the client goes before it is
\* verified, whom it counts for good.
ASSUME RoomsAreOwn == \A s \in Lives : \A r \in Life(s).rooms : HasAccess(r[1], r[2])
ASSUME ConnectionsDrift ==
    \A s \in Lives :
        LET g == Life(s)
            early == \E i, j \in DOMAIN s : i < j /\ s[i] = "gone" /\ s[j] = "verified"
        IN  g.connections = Cardinality(g.known \cap g.live) + (IF early THEN 1 ELSE 0)

\* The counter of subscriptions drifts both ways: up with whoever goes or subscribes twice,
\* down with whoever leaves a lane it did not watch.
ASSUME SubscriptionsDrift ==
    /\ Life(<<"verified", "own", "gone">>).subscriptions = 1
    /\ LET g == Life(<<"verified", "own", "own">>)
       IN  g.subscriptions = 2 /\ Cardinality(g.rooms) = 1
    /\ LET others == Subscribe(Verified(Connect(NoSockets, Auditor), Auditor), Auditor, Own)
           g == FoldLeft(Step, Connect(others, Watcher), <<"verified", "leave">>)
       IN  g.subscriptions = 0 /\ g.rooms = {<<Auditor, Own>>}

\* Without the adapter an event reaches the sockets of the process that emits it only.
ASSUME AdaptersReachAll ==
    \A room \in SUBSET {[process |-> p, user |-> u] : p \in 1 .. 2, u \in {"e1", "e2"}} :
        /\ Reached(room, 1, TRUE) = room
        /\ Reached(room, 1, FALSE) = room <=> \A s \in room : s.process = 1
=================================================================================
