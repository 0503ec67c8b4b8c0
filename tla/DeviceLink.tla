------------------------------ MODULE DeviceLink ------------------------------
(***************************************************************************)
(* The own-device link (internal/device/device.go and                      *)
(* internal/daemon/device.go): two devices of one person, each of which    *)
(* must be told by its human to link with the other, in complementary      *)
(* roles, within IntentTTL of each other.  Every device has its own clock. *)
(*                                                                         *)
(* The offers and unlinks travel as mail, which the relay may delay and    *)
(* reorder; each is applied once.  A device_link call creates its intent,  *)
(* its approval and the reference between them in three steps, and calls   *)
(* of one device overlap.                                                  *)
(***************************************************************************)
EXTENDS Naturals, Integers, FiniteSets

CONSTANTS Devices, LinkCalls, MaxHelpers, IntentTTL,
          Linkings        \* the instances: the calls, and how often what happens

ASSUME LinkConstants ==
    /\ IsFiniteSet(Devices) /\ "none" \notin LinkCalls
    /\ MaxHelpers \in Nat \ {0} /\ IntentTTL \in Nat \ {0}
    /\ \A l \in Linkings :
        /\ DOMAIN l.calls \subseteq LinkCalls
        /\ \A c \in DOMAIN l.calls :
              /\ l.calls[c].device \in Devices /\ l.calls[c].peer \in Devices
              /\ l.calls[c].role \in {"controller", "helper"}
        /\ l.skew \in [Devices -> Int] /\ l.time \in Nat

VARIABLES linking,        \* the instance, an element of Linkings
          wall,           \* the time every clock is skewed from
          device_links,   \* device -> peer -> the row that is not revoked
          device_offers,  \* device -> peer -> the kept offer
          unlinked,       \* device -> peer -> the setting device.unlinked: a time, or none
          paired,         \* the peers of each device
          linkWindows,    \* device -> the device_link approvals waiting for a code
          dcalls,         \* where each device_link call is
          dmail,          \* the mail under way
          confirmed,      \* the intents the humans confirmed, for the properties
          dused           \* the bounds used up

linkVars == <<linking, wall, device_links, device_offers, unlinked, paired, linkWindows,
              dcalls, dmail, confirmed, dused>>

-----------------------------------------------------------------------------
Roles == {"controller", "helper"}
ComplementaryRole(role) == CHOOSE r \in Roles : r # role

\* One row of device_links: revoked rows count for nothing, so none is kept.
\* The nonce is unique and stands for the intent's id too.
Revoked == [state |-> "revoked", role |-> "none", nonce |-> "none", peerNonce |-> "none",
            approval |-> "none", created |-> 0, expires |-> 0]
NoOffer == [role |-> "none", nonce |-> "none", at |-> 0, received |-> 0]

\* Store.Time: the device's own clock.
Time(d) == wall + linking.skew[d]

-----------------------------------------------------------------------------
(* The store: operators on one device's rows and offers. *)

\* ExpireTx: intents that lapsed are revoked, offers that lapsed dropped.
lapsed(l, now) == \/ l.state = "waiting" /\ l.expires <= now
                  \/ l.state = "pending_approval" /\ l.created <= now - IntentTTL
ExpireTx(links, now) == [p \in Devices |-> IF lapsed(links[p], now) THEN Revoked ELSE links[p]]
ExpireOffers(offers, now) ==
    [p \in Devices |-> IF offers[p].received <= now - IntentTTL THEN NoOffer ELSE offers[p]]

\* Mutant: the intents do not count, only the active links.
BugActiveOnly(links, peer, role, excluded) ==
    LET others == {p \in Devices : links[p].state = "active" /\ links[p].nonce # excluded}
    IN  /\ peer \notin others
        /\ \A p \in others : links[p].role = role
        /\ role = "helper" => others = {}

\* CheckHierarchyTx for peer in role, ignoring the row excluded: no reverse
\* link, no second link with the peer, depth one, one controller, at most
\* MaxHelpers helpers.
CheckHierarchyTx(links, peer, role, excluded) ==
    LET others == {p \in Devices : links[p].state # "revoked" /\ links[p].nonce # excluded}
    IN  /\ peer \notin others
        /\ \A p \in others : links[p].role = role
        /\ role = "helper" => others = {}
        /\ role = "controller" => Cardinality(others) < MaxHelpers

\* OfferFresh: alive by its sender's clock, and not dated too far ahead.
OfferFresh(offer, now) == now < offer.at + IntentTTL /\ offer.at <= now + IntentTTL

\* OfferBeforeUnlinkTx and NoteUnlinkTx: the watermark of a peer's unlinks.
OfferBeforeUnlinkTx(d, p, offer) == \E t \in unlinked[d][p] : offer.at < t
NoteUnlinkTx(d, p, now) ==
    unlinked' = [unlinked EXCEPT ![d][p] = IF \A t \in @ : now > t THEN {now} ELSE @]

\* TryActivateTx: the offer completes the waiting intent with peer.
completes(l, offer, now) ==
    /\ l.state = "waiting" /\ l.role = ComplementaryRole(offer.role)
    /\ l.expires > now
    /\ offer.at >= l.created - IntentTTL
    /\ OfferFresh(offer, now)
TryActivateTx(links, peer, offer, now) ==
    LET l == links[peer]
    IN  IF ~completes(l, offer, now) THEN links
        ELSE IF ~CheckHierarchyTx(links, peer, l.role, l.nonce)
        THEN [links EXCEPT ![peer] = Revoked]
        ELSE [links EXCEPT ![peer] = [l EXCEPT !.state = "active", !.peerNonce = offer.nonce]]

\* Mutant: the kept offer survives the unlink.
BugOfferKept(d, p) ==
    /\ device_links' = [device_links EXCEPT ![d][p] = Revoked]
    /\ UNCHANGED device_offers

\* RevokeForPeerTx: the link or intent with peer, and the kept offer.
RevokeForPeerTx(d, p) ==
    /\ device_links' = [device_links EXCEPT ![d][p] = Revoked]
    /\ device_offers' = [device_offers EXCEPT ![d][p] = NoOffer]

-----------------------------------------------------------------------------
(* device_link, one call c of linking.calls. *)

caller(c) == linking.calls[c]
at(c, pc) == dcalls[c] = pc
go(c, pc) == dcalls' = [dcalls EXCEPT ![c] = pc]

\* An attempt that was never approved is superseded: its approval is
\* rejected, if the row already names it.
PendingFor(c) ==
    LET d == caller(c).device
        p == caller(c).peer
        old == device_links[d][p]
    IN  /\ at(c, "new") /\ p \in paired[d]
        /\ linkWindows' = IF old.state = "pending_approval"
                          THEN [linkWindows EXCEPT ![d] = {w \in @ : w.nonce # old.approval}]
                          ELSE linkWindows
        /\ device_links' = IF old.state = "pending_approval" /\ old.approval = old.nonce
                           THEN [device_links EXCEPT ![d][p] = Revoked]
                           ELSE device_links
        /\ go(c, "checked")
        /\ UNCHANGED <<linking, wall, device_offers, unlinked, paired, dmail, dused, confirmed>>

\* CreateIntent: lapse, replace an unapproved attempt, check, insert.
CreateIntent(c) ==
    LET d == caller(c).device
        p == caller(c).peer
        fresh == ExpireTx(device_links[d], Time(d))
        free == IF fresh[p].state = "pending_approval" THEN [fresh EXCEPT ![p] = Revoked] ELSE fresh
        row == [Revoked EXCEPT !.state = "pending_approval", !.role = caller(c).role,
                               !.nonce = c, !.created = Time(d)]
    IN  /\ at(c, "checked")
        /\ IF CheckHierarchyTx(free, p, caller(c).role, "none")
           THEN /\ device_links' = [device_links EXCEPT ![d] = [free EXCEPT ![p] = row]]
                /\ device_offers' = [device_offers EXCEPT ![d] = ExpireOffers(@, Time(d))]
                /\ go(c, "intent")
           ELSE go(c, "refused") /\ UNCHANGED <<device_links, device_offers>>
        /\ UNCHANGED <<linking, wall, unlinked, paired, linkWindows, dmail, dused, confirmed>>

\* The approval is created, or cannot be: then the row goes (Delete).
createApproval(c) ==
    LET d == caller(c).device
        p == caller(c).peer
        mine == device_links[d][p].nonce = c /\ device_links[d][p].state = "pending_approval"
    IN  /\ at(c, "intent")
        /\ \/ /\ linkWindows' = [linkWindows EXCEPT ![d] = @ \cup
                     {[nonce |-> c, peer |-> p, role |-> caller(c).role]}]
              /\ go(c, "asked")
              /\ UNCHANGED <<device_links, dused>>
           \/ /\ dused.failures < linking.failures
              /\ dused' = [dused EXCEPT !.failures = @ + 1]
              /\ device_links' = IF mine THEN [device_links EXCEPT ![d][p] = Revoked]
                                 ELSE device_links
              /\ go(c, "refused")
              /\ UNCHANGED linkWindows
        /\ UNCHANGED <<linking, wall, device_offers, unlinked, paired, dmail, confirmed>>

\* SetApproval, on a row that is still pending.
SetApproval(c) ==
    LET d == caller(c).device
        p == caller(c).peer
        mine == device_links[d][p].nonce = c /\ device_links[d][p].state = "pending_approval"
    IN  /\ at(c, "asked")
        /\ device_links' = IF mine THEN [device_links EXCEPT ![d][p].approval = c]
                           ELSE device_links
        /\ go(c, "done")
        /\ UNCHANGED <<linking, wall, device_offers, unlinked, paired, linkWindows, dmail, dused, confirmed>>

-----------------------------------------------------------------------------
(* The human's answer. *)

Mail(kind, from, to, at_, nonce, role) ==
    [kind |-> kind, from |-> from, to |-> to, at |-> at_, nonce |-> nonce, role |-> role]

\* The code was typed.  Precondition: the row is ours and pending, the peer
\* still paired, the hierarchy allows it.  Perform: the intent waits, the offer
\* is sent, and the other device's offer that was kept may complete it.
confirmLink(d, w) ==
    LET now == Time(d)
        p == w.peer
        links == ExpireTx(device_links[d], now)
        offers == ExpireOffers(device_offers[d], now)
        waiting == [links EXCEPT ![p] = [@ EXCEPT !.state = "waiting", !.created = now,
                                                  !.expires = now + IntentTTL]]
        kept == offers[p]
        done == IF kept # NoOffer THEN TryActivateTx(waiting, p, kept, now) ELSE waiting
    IN  /\ w \in linkWindows[d]
        /\ links[p].nonce = w.nonce /\ links[p].state = "pending_approval"
        /\ p \in paired[d]
        /\ CheckHierarchyTx(links, p, w.role, w.nonce)
        /\ device_links' = [device_links EXCEPT ![d] = done]
        /\ device_offers' = [device_offers EXCEPT ![d] =
              IF done[p].state = "active" THEN [offers EXCEPT ![p] = NoOffer] ELSE offers]
        /\ linkWindows' = [linkWindows EXCEPT ![d] = @ \ {w}]
        /\ dmail' = dmail \cup {Mail("device.link", d, p, now, w.nonce, w.role)}
        /\ confirmed' = confirmed \cup
              {[device |-> d, peer |-> p, role |-> w.role, nonce |-> w.nonce, at |-> now]}
        /\ UNCHANGED <<linking, wall, unlinked, paired, dcalls, dused>>

\* The human rejects it, or it expires: a row still pending is revoked.
rejectLink(d, w) ==
    /\ w \in linkWindows[d]
    /\ linkWindows' = [linkWindows EXCEPT ![d] = @ \ {w}]
    /\ LET l == device_links[d][w.peer]
       IN  device_links' = IF l.nonce = w.nonce /\ l.state = "pending_approval"
                           THEN [device_links EXCEPT ![d][w.peer] = Revoked] ELSE device_links
    /\ UNCHANGED <<linking, wall, device_offers, unlinked, paired, dcalls, dmail, confirmed, dused>>

-----------------------------------------------------------------------------
(* The mail kinds; mail from a key that is no peer is refused before. *)

offerOf(m, now) == [role |-> m.role, nonce |-> m.nonce, at |-> m.at, received |-> now]

\* device.link: a stale offer, or one made before the sender's last unlink, is
\* ignored; another one activates the intent or is kept.
deviceLinkKind(m) ==
    LET d == m.to
        now == Time(d)
        links == ExpireTx(device_links[d], now)
        offers == ExpireOffers(device_offers[d], now)
        offer == offerOf(m, now)
        done == TryActivateTx(links, m.from, offer, now)
        ignored == ~OfferFresh(offer, now) \/ OfferBeforeUnlinkTx(d, m.from, offer)
        active == done[m.from].state = "active" /\ links[m.from].state # "active"
    IN  /\ m.kind = "device.link"
        /\ dmail' = dmail \ {m}
        /\ IF m.from \notin paired[d]
           THEN UNCHANGED <<device_links, device_offers>>
           ELSE /\ device_links' = [device_links EXCEPT ![d] = IF ignored THEN links ELSE done]
                /\ device_offers' = [device_offers EXCEPT ![d] =
                      IF ignored THEN offers
                      ELSE [offers EXCEPT ![m.from] = IF active THEN NoOffer ELSE offer]]
        /\ UNCHANGED <<linking, wall, unlinked, paired, linkWindows, dcalls, dused, confirmed>>

\* device.unlink: everything with the sender ends, and its time is noted.
deviceUnlinkKind(m) ==
    /\ m.kind = "device.unlink"
    /\ dmail' = dmail \ {m}
    /\ IF m.from \in paired[m.to]
       THEN RevokeForPeerTx(m.to, m.from) /\ NoteUnlinkTx(m.to, m.from, m.at)
       ELSE UNCHANGED <<device_links, device_offers, unlinked>>
    /\ UNCHANGED <<linking, wall, paired, linkWindows, dcalls, dused, confirmed>>

\* device_unlink: ends the link, notes the time, tells the peer whatever it
\* held, and rejects an attempt's approval.
device_unlink(d, p) ==
    LET old == device_links[d][p]
    IN  /\ p \in paired[d] /\ dused.unlinks < linking.unlinks
        /\ dused' = [dused EXCEPT !.unlinks = @ + 1]
        /\ RevokeForPeerTx(d, p)
        /\ NoteUnlinkTx(d, p, Time(d))
        /\ dmail' = dmail \cup {Mail("device.unlink", d, p, Time(d), "none", "none")}
        /\ linkWindows' = [linkWindows EXCEPT ![d] =
              {w \in @ : old.state # "pending_approval" \/ w.nonce # old.approval}]
        /\ UNCHANGED <<linking, wall, paired, dcalls, confirmed>>

\* peers remove, and a later pairing.
revokeDeviceForRemovedPeer(d, p) ==
    /\ p \in paired[d] /\ dused.removals < linking.removals
    /\ dused' = [dused EXCEPT !.removals = @ + 1]
    /\ paired' = [paired EXCEPT ![d] = @ \ {p}]
    /\ RevokeForPeerTx(d, p)
    /\ UNCHANGED <<linking, wall, unlinked, linkWindows, dcalls, dmail, confirmed>>

pairAgain(d, p) ==
    /\ p \notin paired[d] /\ p # d
    /\ paired' = [paired EXCEPT ![d] = @ \cup {p}]
    /\ UNCHANGED <<linking, wall, device_links, device_offers, unlinked, linkWindows, dcalls,
                   dmail, dused, confirmed>>

\* device_list lapses what is stale.
List(d) ==
    /\ device_links' = [device_links EXCEPT ![d] = ExpireTx(@, Time(d))]
    /\ device_offers' = [device_offers EXCEPT ![d] = ExpireOffers(@, Time(d))]
    /\ UNCHANGED <<linking, wall, unlinked, paired, linkWindows, dcalls, dmail, dused, confirmed>>

wallTicks ==
    /\ wall < linking.time
    /\ wall' = wall + 1
    /\ UNCHANGED <<linking, device_links, device_offers, unlinked, paired, linkWindows, dcalls,
                   dmail, dused, confirmed>>

-----------------------------------------------------------------------------
LinkInit ==
    /\ linking \in Linkings
    /\ wall = 0
    /\ device_links = [d \in Devices |-> [p \in Devices |-> Revoked]]
    /\ device_offers = [d \in Devices |-> [p \in Devices |-> NoOffer]]
    /\ unlinked = [d \in Devices |-> [p \in Devices |-> {}]]
    /\ paired = [d \in Devices |-> Devices \ {d}]
    /\ linkWindows = [d \in Devices |-> {}]
    /\ dcalls = [c \in LinkCalls |-> IF c \in DOMAIN linking.calls THEN "new" ELSE "done"]
    /\ dmail = {} /\ confirmed = {}
    /\ dused = [unlinks |-> 0, removals |-> 0, failures |-> 0]

LinkNext ==
    \/ \E c \in DOMAIN linking.calls :
          PendingFor(c) \/ CreateIntent(c) \/ createApproval(c) \/ SetApproval(c)
    \/ \E d \in Devices : \E w \in linkWindows[d] : confirmLink(d, w) \/ rejectLink(d, w)
    \/ \E m \in dmail : deviceLinkKind(m) \/ deviceUnlinkKind(m)
    \/ \E d, p \in Devices :
          device_unlink(d, p) \/ revokeDeviceForRemovedPeer(d, p) \/ pairAgain(d, p)
    \/ \E d \in Devices : List(d)
    \/ wallTicks

LinkSpec == LinkInit /\ [][LinkNext]_linkVars

-----------------------------------------------------------------------------
(* Properties *)

\* An active link was agreed to by both humans, in complementary roles: this
\* device's own intent was confirmed, and so was the intent of the peer whose
\* nonce the link holds, not before the last unlink this device knows of; an
\* offer delayed or kept over an unlink revives nothing (D22, R55-161).
LinkWasAgreed ==
    \A d, p \in Devices :
        LET l == device_links[d][p]
        IN  l.state = "active" =>
              /\ \E o \in confirmed : o.device = d /\ o.peer = p /\ o.nonce = l.nonce
                                       /\ o.role = l.role
              /\ \E o \in confirmed :
                    /\ o.device = p /\ o.peer = d /\ o.nonce = l.peerNonce
                    /\ o.role = ComplementaryRole(l.role)
                    /\ \A t \in unlinked[d][p] : o.at >= t

\* The hierarchy is one-way and of depth one: whatever attempts overlap, lapse
\* and activate, a device never holds links or intents in both roles, has at
\* most one controller and at most MaxHelpers helpers (CheckHierarchyTx is
\* applied at the intent, at the code and at the activation).
OneWayHierarchy ==
    \A d \in Devices :
        LET held == {p \in Devices : device_links[d][p].state # "revoked"}
        IN  /\ \A p, q \in held : device_links[d][p].role = device_links[d][q].role
            /\ (\E p \in held : device_links[d][p].role = "helper") => Cardinality(held) = 1
            /\ Cardinality(held) <= MaxHelpers

\* Links are what the humans agreed to and form a hierarchy of depth one.
LinksAreSound == LinkWasAgreed /\ OneWayHierarchy
=============================================================================
