--------------------------- MODULE DeviceLinkProofs ---------------------------
(***************************************************************************)
(* Proof that an active device link was agreed to on both devices and that *)
(* links form a one-way hierarchy of depth one, for every set of devices,  *)
(* every set of device_link calls, every skew of the clocks, every         *)
(* IntentTTL and every MaxHelpers.                                         *)
(*                                                                         *)
(* LinksAreSound speaks of active links only.  It holds because of what is *)
(* known of the things an activation is made from: the row and the window  *)
(* of a call name that call's device, peer and role (RowOK, WindowOK); an  *)
(* offer under way was confirmed by its sender (MailOK); an offer kept was *)
(* too, and is not older than the unlink its receiver noted last           *)
(* (OfferOK).  The hierarchy is kept because only CreateIntent adds a row. *)
(***************************************************************************)
EXTENDS DeviceLink, FiniteSetTheorems, TLAPS

Nonces    == LinkCalls \cup {"none"}
LinkRows  == [state : {"revoked", "pending_approval", "waiting", "active"},
              role : Roles \cup {"none"}, nonce : Nonces, peerNonce : Nonces,
              approval : Nonces, created : Int, expires : Int]
Offers    == [role : Roles \cup {"none"}, nonce : Nonces, at : Int, received : Int]
LinkMails == [kind : {"device.link", "device.unlink"}, from : Devices, to : Devices, at : Int,
              nonce : Nonces, role : Roles \cup {"none"}]
Windows   == [nonce : LinkCalls, peer : Devices, role : Roles]

\* Call c of cs is device d's, for peer p in this role.
CallIs(cs, c, d, p, role) ==
    c \in DOMAIN cs /\ cs[c].device = d /\ cs[c].peer = p /\ cs[c].role = role

\* The human of d confirmed this intent with p.
Said(cf, d, p, nonce, role) ==
    \E o \in cf : o.device = d /\ o.peer = p /\ o.nonce = nonce /\ o.role = role

\* The human of p confirmed this intent with d, no earlier than the unlinks in un.
SaidAfter(cf, un, d, p, nonce, role) ==
    \E o \in cf : /\ o.device = p /\ o.peer = d /\ o.nonce = nonce /\ o.role = role
                  /\ \A t \in un : o.at >= t

\* A row l of device d for peer p.
RowOK(cs, cf, un, d, p, l) ==
    /\ l.state # "revoked" => CallIs(cs, l.nonce, d, p, l.role)
    /\ l.state \in {"waiting", "active"} => Said(cf, d, p, l.nonce, l.role)
    /\ l.state = "active" => SaidAfter(cf, un, d, p, l.peerNonce, ComplementaryRole(l.role))

\* An offer f of peer p that device d keeps.
OfferOK(cf, un, d, p, f) ==
    f # NoOffer => f.role \in Roles /\ SaidAfter(cf, un, d, p, f.nonce, f.role)

\* An offer under way was confirmed, at the time it states.
MailOK(cf, m) ==
    m.kind = "device.link" =>
        /\ m.role \in Roles
        /\ \E o \in cf : /\ o.device = m.from /\ o.peer = m.to /\ o.nonce = m.nonce
                         /\ o.role = m.role /\ o.at = m.at

WindowOK(cs, d, w) == CallIs(cs, w.nonce, d, w.peer, w.role)

Held(links) == {p \in Devices : links[p].state # "revoked"}

Hierarchy(links) ==
    /\ \A p, q \in Held(links) : links[p].role = links[q].role
    /\ \A p, q \in Held(links) : links[p].role = "helper" => p = q
    /\ Cardinality(Held(links)) <= MaxHelpers

LinksOK(cs, cf, un, d, links) ==
    /\ links \in [Devices -> LinkRows] /\ Hierarchy(links)
    /\ \A p \in Devices : RowOK(cs, cf, un[p], d, p, links[p])

OffersOK(cf, un, d, offers) ==
    /\ offers \in [Devices -> Offers]
    /\ \A p \in Devices : OfferOK(cf, un[p], d, p, offers[p])

TablesInv ==
    /\ DOMAIN device_links = Devices /\ DOMAIN device_offers = Devices
    /\ \A d \in Devices :
        /\ LinksOK(linking.calls, confirmed, unlinked[d], d, device_links[d])
        /\ OffersOK(confirmed, unlinked[d], d, device_offers[d])

UnlinkedType == unlinked \in [Devices -> [Devices -> SUBSET Int]]

WindowsInv ==
    /\ linkWindows \in [Devices -> SUBSET Windows]
    /\ \A d \in Devices : \A w \in linkWindows[d] : WindowOK(linking.calls, d, w)

MailInv == dmail \subseteq LinkMails /\ \A m \in dmail : MailOK(confirmed, m)

LinkInv ==
    /\ linking \in Linkings /\ wall \in Int
    /\ UnlinkedType /\ TablesInv /\ WindowsInv /\ MailInv

-------------------------------------------------------------------------------
(* Operators: what they keep of a device's tables.                            *)

\* The other role, and back.
LEMMA RolesComplement ==
    ASSUME NEW r \in Roles
    PROVE  ComplementaryRole(r) \in Roles /\ ComplementaryRole(ComplementaryRole(r)) = r
<1>1. \E s \in Roles : s # r
  BY DEF Roles
<1>2. ComplementaryRole(r) \in Roles /\ ComplementaryRole(r) # r
  BY <1>1 DEF ComplementaryRole
<1>3. \E s \in Roles : s # ComplementaryRole(r)
  BY <1>2
<1>4. /\ ComplementaryRole(ComplementaryRole(r)) \in Roles
      /\ ComplementaryRole(ComplementaryRole(r)) # ComplementaryRole(r)
  BY <1>3 DEF ComplementaryRole
<1> QED
  BY <1>2, <1>4 DEF Roles

\* The blank row and the blank offer.
LEMMA Blanks ==
    /\ Revoked \in LinkRows /\ Revoked.state = "revoked" /\ NoOffer \in Offers
    /\ \A cs, cf, un, d, p : RowOK(cs, cf, un, d, p, Revoked)
    /\ \A cf, un, d, p : OfferOK(cf, un, d, p, NoOffer)
BY DEF Revoked, NoOffer, LinkRows, Offers, Nonces, RowOK, OfferOK

\* new is old with rows revoked, and otherwise only its times and approvals changed.
Fewer(new, old) ==
    \A p \in Devices :
        \/ new[p].state = "revoked"
        \/ /\ new[p].state = old[p].state /\ new[p].role = old[p].role
           /\ new[p].nonce = old[p].nonce /\ new[p].peerNonce = old[p].peerNonce

\* Fewer rows in the same roles are a hierarchy still.
LEMMA FewerHeld ==
    ASSUME NEW links, NEW new, Hierarchy(links),
           \A p \in Held(new) : p \in Held(links) /\ new[p].role = links[p].role
    PROVE  Hierarchy(new)
<1>1. Held(new) \subseteq Held(links) /\ IsFiniteSet(Held(links))
  BY LinkConstants, FS_Subset DEF Held
<1>2. /\ Cardinality(Held(new)) <= Cardinality(Held(links))
      /\ Cardinality(Held(new)) \in Nat /\ Cardinality(Held(links)) \in Nat
  BY <1>1, FS_Subset, FS_CardinalityType
<1> QED
  BY <1>2, LinkConstants DEF Hierarchy

\* Dropping rows keeps a device's links in order.
LEMMA FewerOK ==
    ASSUME NEW cs, NEW cf, NEW un, NEW d, NEW links, NEW new \in [Devices -> LinkRows],
           LinksOK(cs, cf, un, d, links), Fewer(new, links)
    PROVE  LinksOK(cs, cf, un, d, new)
<1>1. \A p \in Held(new) : p \in Held(links) /\ new[p].role = links[p].role
  BY DEF Fewer, Held
<1>2. Hierarchy(new)
  BY <1>1, FewerHeld DEF LinksOK
<1>3. \A p \in Devices : RowOK(cs, cf, un[p], d, p, new[p])
  BY DEF Fewer, LinksOK, RowOK
<1> QED
  BY <1>2, <1>3 DEF LinksOK

\* RevokeForPeerTx and Delete: one row goes.
LEMMA RevokeOK ==
    ASSUME NEW cs, NEW cf, NEW un, NEW d, NEW links, NEW p \in Devices,
           LinksOK(cs, cf, un, d, links)
    PROVE  LinksOK(cs, cf, un, d, [links EXCEPT ![p] = Revoked])
<1> DEFINE new == [links EXCEPT ![p] = Revoked]
<1>1. new \in [Devices -> LinkRows] /\ new[p] = Revoked /\ \A q \in Devices \ {p} : new[q] = links[q]
  BY Blanks DEF LinksOK
<1> HIDE DEF new
<1>2. Fewer(new, links)
  BY <1>1, Blanks DEF Fewer
<1> QED
  BY <1>1, <1>2, FewerOK DEF new

\* ExpireTx: lapsed rows go, lapsed offers are dropped.
LEMMA ExpireOK ==
    ASSUME NEW cs, NEW cf, NEW un, NEW d, NEW links, NEW now,
           LinksOK(cs, cf, un, d, links)
    PROVE  LinksOK(cs, cf, un, d, ExpireTx(links, now))
<1>1. /\ ExpireTx(links, now) \in [Devices -> LinkRows]
      /\ \A p \in Devices : ExpireTx(links, now)[p] \in {Revoked, links[p]}
  BY Blanks DEF ExpireTx, LinksOK
<1>2. Fewer(ExpireTx(links, now), links)
  BY <1>1, Blanks DEF Fewer
<1> QED
  BY <1>1, <1>2, FewerOK

\* expireOffers keeps the kept offers in order.
LEMMA ExpireOffersOK ==
    ASSUME NEW cf, NEW un, NEW d, NEW offers, NEW now, OffersOK(cf, un, d, offers)
    PROVE  OffersOK(cf, un, d, ExpireOffers(offers, now))
BY Blanks DEF ExpireOffers, OffersOK

\* Keeping one offer, or dropping it.
LEMMA OneOfferOK ==
    ASSUME NEW cf, NEW un, NEW d, NEW offers, NEW p \in Devices, NEW f \in Offers,
           OffersOK(cf, un, d, offers), OfferOK(cf, un[p], d, p, f)
    PROVE  OffersOK(cf, un, d, [offers EXCEPT ![p] = f])
BY DEF OffersOK

\* What was confirmed stays confirmed.
LEMMA SaidGrows ==
    ASSUME NEW cs, NEW cf, NEW more, cf \subseteq more, NEW un, NEW d
    PROVE  /\ \A links : LinksOK(cs, cf, un, d, links) => LinksOK(cs, more, un, d, links)
           /\ \A offers : OffersOK(cf, un, d, offers) => OffersOK(more, un, d, offers)
<1>1. \A p, nonce, role : Said(cf, d, p, nonce, role) => Said(more, d, p, nonce, role)
  BY DEF Said
<1>2. \A u, p, nonce, role :
          SaidAfter(cf, u, d, p, nonce, role) => SaidAfter(more, u, d, p, nonce, role)
  BY DEF SaidAfter
<1> QED
  BY <1>1, <1>2 DEF LinksOK, OffersOK, RowOK, OfferOK

\* A noted unlink concerns a peer whose row and offer are gone.
LEMMA UnlinkOK ==
    ASSUME NEW cs, NEW cf, NEW un, NEW d, NEW p \in Devices, NEW links, NEW offers, NEW new,
           \A q \in Devices \ {p} : new[q] = un[q],
           links[p] = Revoked, offers[p] = NoOffer,
           LinksOK(cs, cf, un, d, links), OffersOK(cf, un, d, offers)
    PROVE  LinksOK(cs, cf, new, d, links) /\ OffersOK(cf, new, d, offers)
BY Blanks DEF LinksOK, OffersOK

\* TryActivateTx: a confirmed offer completes a confirmed intent, or revokes it.
LEMMA ActivateOK ==
    ASSUME NEW cs, NEW cf, NEW un, NEW d, NEW links, NEW p \in Devices, NEW f \in Offers,
           NEW now, LinksOK(cs, cf, un, d, links), f.role \in Roles,
           SaidAfter(cf, un[p], d, p, f.nonce, f.role)
    PROVE  LinksOK(cs, cf, un, d, TryActivateTx(links, p, f, now))
<1> DEFINE l == links[p]
           row == [l EXCEPT !.state = "active", !.peerNonce = f.nonce]
           new == [links EXCEPT ![p] = row]
<1>1. CASE ~completes(l, f, now)
  BY <1>1 DEF TryActivateTx
<1>2. CASE completes(l, f, now) /\ ~CheckHierarchyTx(links, p, l.role, l.nonce)
  BY <1>2, RevokeOK DEF TryActivateTx
<1>3. CASE completes(l, f, now) /\ CheckHierarchyTx(links, p, l.role, l.nonce)
  <2>1. TryActivateTx(links, p, f, now) = new
    BY <1>3 DEF TryActivateTx
  <2>2. l \in LinkRows /\ links \in [Devices -> LinkRows] /\ f.nonce \in Nonces
    BY DEF LinksOK, Offers
  <2>3. /\ row \in LinkRows /\ row.state = "active" /\ row.peerNonce = f.nonce
        /\ row.role = l.role /\ row.nonce = l.nonce
    BY <2>2 DEF LinkRows
  <2>4. l.state = "waiting" /\ l.role = ComplementaryRole(f.role)
    BY <1>3 DEF completes
  <2>5. RowOK(cs, cf, un[p], d, p, row)
    <3>1. CallIs(cs, l.nonce, d, p, l.role) /\ Said(cf, d, p, l.nonce, l.role)
      BY <2>4 DEF LinksOK, RowOK
    <3>2. ComplementaryRole(row.role) = f.role
      BY <2>3, <2>4, RolesComplement
    <3> QED
      BY <2>3, <3>1, <3>2 DEF RowOK
  <2> HIDE DEF row, l
  <2>6. new \in [Devices -> LinkRows] /\ new[p] = row /\ \A q \in Devices \ {p} : new[q] = links[q]
    BY <2>2, <2>3
  <2> HIDE DEF new
  <2>7. \A q \in Held(new) : q \in Held(links) /\ new[q].role = links[q].role
    BY <2>3, <2>4, <2>6 DEF Held, l
  <2>8. Hierarchy(new)
    BY <2>7, FewerHeld DEF LinksOK
  <2>9. LinksOK(cs, cf, un, d, new)
    BY <2>5, <2>6, <2>8 DEF LinksOK
  <2> QED
    BY <2>1, <2>9
<1> QED
  BY <1>1, <1>2, <1>3

\* CreateIntent's INSERT: CheckHierarchyTx let the row in.
LEMMA InsertOK ==
    ASSUME NEW cs, NEW cf, NEW un, NEW d, NEW links, NEW p \in Devices, NEW row \in LinkRows,
           LinksOK(cs, cf, un, d, links), DOMAIN cs \subseteq LinkCalls,
           row.state = "pending_approval", row.role \in Roles,
           CallIs(cs, row.nonce, d, p, row.role),
           CheckHierarchyTx(links, p, row.role, "none")
    PROVE  LinksOK(cs, cf, un, d, [links EXCEPT ![p] = row])
<1> DEFINE new == [links EXCEPT ![p] = row]
           H == Held(links)
<1>1. new \in [Devices -> LinkRows] /\ new[p] = row /\ \A q \in Devices \ {p} : new[q] = links[q]
  BY DEF LinksOK
<1> HIDE DEF new
<1>2. H = {q \in Devices : links[q].state # "revoked" /\ links[q].nonce # "none"}
  BY LinkConstants DEF LinksOK, RowOK, CallIs, Held
<1>3. /\ p \notin H /\ \A q \in H : links[q].role = row.role
      /\ row.role = "helper" => H = {}
      /\ row.role = "controller" => Cardinality(H) < MaxHelpers
  BY <1>2 DEF CheckHierarchyTx
<1>4. Held(new) = H \cup {p}
  BY <1>1 DEF Held
<1>5. /\ IsFiniteSet(H) /\ Cardinality(H) \in Nat
      /\ Cardinality(Held(new)) = Cardinality(H) + 1
  <2>1. IsFiniteSet(H)
    BY LinkConstants, FS_Subset DEF Held
  <2> HIDE DEF H
  <2> QED
    BY <1>3, <1>4, <2>1, FS_AddElement, FS_CardinalityType
<1>6. Cardinality(Held(new)) <= MaxHelpers
  <2>1. CASE row.role = "controller"
    BY <1>3, <1>5, <2>1, LinkConstants
  <2>2. CASE row.role = "helper"
    BY <1>3, <1>5, <2>2, LinkConstants, FS_EmptySet
  <2> QED
    BY <2>1, <2>2 DEF Roles
<1>7. \A q \in Held(new) : new[q].role = row.role
  BY <1>1, <1>3, <1>4 DEF Held
<1>8. row.role = "helper" => Held(new) = {p}
  BY <1>3, <1>4
<1>9. Hierarchy(new)
  BY <1>6, <1>7, <1>8 DEF Hierarchy
<1>10. \A q \in Devices : RowOK(cs, cf, un[q], d, q, new[q])
  BY <1>1 DEF LinksOK, RowOK
<1> QED
  BY <1>1, <1>9, <1>10 DEF LinksOK, new

\* The code was typed: the pending row of a confirmed intent waits.
LEMMA WaitOK ==
    ASSUME NEW cs, NEW cf, NEW un, NEW d, NEW links, NEW p \in Devices, NEW row \in LinkRows,
           LinksOK(cs, cf, un, d, links), links[p].state = "pending_approval",
           row.state = "waiting", row.role = links[p].role, row.nonce = links[p].nonce,
           Said(cf, d, p, row.nonce, row.role)
    PROVE  LinksOK(cs, cf, un, d, [links EXCEPT ![p] = row])
<1> DEFINE new == [links EXCEPT ![p] = row]
<1>1. new \in [Devices -> LinkRows] /\ new[p] = row /\ \A q \in Devices \ {p} : new[q] = links[q]
  BY DEF LinksOK
<1> HIDE DEF new
<1>2. \A q \in Held(new) : q \in Held(links) /\ new[q].role = links[q].role
  BY <1>1 DEF Held
<1>3. Hierarchy(new)
  BY <1>2, FewerHeld DEF LinksOK
<1>4. \A q \in Devices : RowOK(cs, cf, un[q], d, q, new[q])
  BY <1>1 DEF LinksOK, RowOK
<1> QED
  BY <1>1, <1>3, <1>4 DEF LinksOK, new

-------------------------------------------------------------------------------
(* The steps.                                                                 *)

\* Only device d's tables may change.
Elsewhere(d) ==
    /\ DOMAIN device_links' = Devices /\ DOMAIN device_offers' = Devices
    /\ \A e \in Devices \ {d} : /\ device_links'[e] = device_links[e]
                                /\ device_offers'[e] = device_offers[e]

\* A step on device d's tables that leaves them in order keeps everyone's.
LEMMA TablesKeep ==
    ASSUME LinkInv, NEW d \in Devices, Elsewhere(d), UNCHANGED <<linking, unlinked>>,
           confirmed \subseteq confirmed',
           LinksOK(linking.calls, confirmed', unlinked[d], d, device_links'[d]),
           OffersOK(confirmed', unlinked[d], d, device_offers'[d])
    PROVE  TablesInv'
<1>1. ASSUME NEW e \in Devices \ {d}
      PROVE  /\ LinksOK(linking.calls, confirmed', unlinked[e], e, device_links'[e])
             /\ OffersOK(confirmed', unlinked[e], e, device_offers'[e])
  <2>1. /\ LinksOK(linking.calls, confirmed, unlinked[e], e, device_links[e])
        /\ OffersOK(confirmed, unlinked[e], e, device_offers[e])
    BY DEF LinkInv, TablesInv
  <2>2. /\ LinksOK(linking.calls, confirmed', unlinked[e], e, device_links[e])
        /\ OffersOK(confirmed', unlinked[e], e, device_offers[e])
    BY <2>1, SaidGrows
  <2> QED
    BY <2>2 DEF Elsewhere
<1> QED
  BY <1>1 DEF TablesInv, Elsewhere

\* A device's tables, and its clock.
LEMMA Tables ==
    ASSUME LinkInv, NEW d \in Devices
    PROVE  /\ LinksOK(linking.calls, confirmed, unlinked[d], d, device_links[d])
           /\ OffersOK(confirmed, unlinked[d], d, device_offers[d])
           /\ Time(d) \in Int
<1>1. linking.skew[d] \in Int /\ wall \in Int
  BY LinkConstants DEF LinkInv
<1> QED
  BY <1>1 DEF LinkInv, TablesInv, Time

\* The devices, peers and roles of the calls.
LEMMA Callers ==
    ASSUME LinkInv, NEW c \in DOMAIN linking.calls
    PROVE  /\ caller(c).device \in Devices /\ caller(c).peer \in Devices
           /\ caller(c).role \in Roles /\ c \in LinkCalls
           /\ DOMAIN linking.calls \subseteq LinkCalls
           /\ CallIs(linking.calls, c, caller(c).device, caller(c).peer, caller(c).role)
BY LinkConstants DEF LinkInv, caller, Roles, CallIs

\* A step that leaves the tables alone, or changes rows of device d as RevokeOK does.
LEMMA RowOfOneKeeps ==
    ASSUME LinkInv, NEW d \in Devices, NEW p \in Devices,
           device_links' \in {device_links, [device_links EXCEPT ![d][p] = Revoked]},
           UNCHANGED <<linking, unlinked, device_offers, confirmed>>
    PROVE  TablesInv'
<1>1. Elsewhere(d) /\ device_offers'[d] = device_offers[d]
  BY DEF Elsewhere, LinkInv, TablesInv
<1>2. device_links'[d] \in {device_links[d], [device_links[d] EXCEPT ![p] = Revoked]}
  BY DEF LinkInv, TablesInv
<1>3. LinksOK(linking.calls, confirmed, unlinked[d], d, device_links'[d])
  BY <1>2, Tables, RevokeOK
<1> QED
  BY <1>1, <1>3, Tables, TablesKeep

\* PendingFor supersedes an attempt that was not approved.
LEMMA PendingForKeeps ==
    ASSUME LinkInv, NEW c \in DOMAIN linking.calls, PendingFor(c)
    PROVE  LinkInv'
<1> DEFINE d == caller(c).device
           p == caller(c).peer
<1>1. TablesInv'
  BY Callers, RowOfOneKeeps DEF PendingFor
<1>2. linkWindows' \in [Devices -> SUBSET Windows] /\ \A e \in Devices : linkWindows'[e] \subseteq linkWindows[e]
  BY Callers DEF PendingFor, LinkInv, WindowsInv
<1>3. WindowsInv'
  BY <1>2 DEF PendingFor, LinkInv, WindowsInv
<1>4. UnlinkedType' /\ MailInv' /\ linking' \in Linkings /\ wall' \in Int
  BY DEF PendingFor, LinkInv, UnlinkedType, MailInv
<1> QED
  BY <1>1, <1>3, <1>4 DEF LinkInv

\* The row of a new intent.
IntentOf(c, r, t) ==
    [Revoked EXCEPT !.state = "pending_approval", !.role = r, !.nonce = c, !.created = t]

\* The row that an intent inserts.
LEMMA IntentRow ==
    ASSUME NEW c \in LinkCalls, NEW r \in Roles, NEW t \in Int
    PROVE  /\ IntentOf(c, r, t) \in LinkRows /\ IntentOf(c, r, t).state = "pending_approval"
           /\ IntentOf(c, r, t).role = r /\ IntentOf(c, r, t).nonce = c
<1>1. c \in Nonces /\ r \in Roles \cup {"none"} /\ Revoked \in LinkRows
  BY Blanks DEF Nonces
<1> QED
  BY <1>1 DEF IntentOf, LinkRows

\* CreateIntent adds the only row that is ever added.
LEMMA CreateIntentKeeps ==
    ASSUME LinkInv, NEW c \in DOMAIN linking.calls, CreateIntent(c)
    PROVE  LinkInv'
<1> DEFINE d == caller(c).device
           p == caller(c).peer
           fresh == ExpireTx(device_links[d], Time(d))
           free == IF fresh[p].state = "pending_approval" THEN [fresh EXCEPT ![p] = Revoked] ELSE fresh
           row == IntentOf(c, caller(c).role, Time(d))
           Good(links) == LinksOK(linking.calls, confirmed, unlinked[d], d, links)
<1>0. d \in Devices /\ p \in Devices /\ Time(d) \in Int
  BY Callers, Tables
<1>1. TablesInv'
  <2>1. CASE UNCHANGED <<device_links, device_offers>>
    BY <2>1 DEF CreateIntent, LinkInv, TablesInv
  <2>2. CASE /\ CheckHierarchyTx(free, p, caller(c).role, "none")
             /\ device_links' = [device_links EXCEPT ![d] = [free EXCEPT ![p] = row]]
             /\ device_offers' = [device_offers EXCEPT ![d] = ExpireOffers(@, Time(d))]
    <3>1. Good(fresh)
      BY <1>0, Tables, ExpireOK
    <3>2. Good(free)
      BY <1>0, <3>1, RevokeOK
    <3>3. /\ row \in LinkRows /\ row.state = "pending_approval" /\ row.role = caller(c).role
          /\ row.nonce = c
      <4>1. caller(c).role \in Roles /\ c \in LinkCalls /\ Time(d) \in Int
        BY <1>0, Callers
      <4> QED
        BY <4>1, IntentRow
    <3> HIDE DEF free, fresh, row
    <3>4. Good([free EXCEPT ![p] = row])
      BY <1>0, <2>2, <3>2, <3>3, Callers, InsertOK
    <3>5. OffersOK(confirmed, unlinked[d], d, ExpireOffers(device_offers[d], Time(d)))
      BY <1>0, Tables, ExpireOffersOK
    <3>6. /\ Elsewhere(d) /\ device_links'[d] = [free EXCEPT ![p] = row]
          /\ device_offers'[d] = ExpireOffers(device_offers[d], Time(d))
      BY <1>0, <2>2 DEF Elsewhere, LinkInv, TablesInv
    <3>7. UNCHANGED <<linking, unlinked, confirmed>>
      BY DEF CreateIntent
    <3> QED
      BY <1>0, <3>4, <3>5, <3>6, <3>7, TablesKeep
  <2> QED
    BY <2>1, <2>2 DEF CreateIntent, IntentOf
<1>2. WindowsInv' /\ UnlinkedType' /\ MailInv' /\ linking' \in Linkings /\ wall' \in Int
  BY DEF CreateIntent, LinkInv, WindowsInv, UnlinkedType, MailInv
<1> QED
  BY <1>1, <1>2 DEF LinkInv

\* The approval of the call is created, or its row goes.
LEMMA CreateApprovalKeeps ==
    ASSUME LinkInv, NEW c \in DOMAIN linking.calls, createApproval(c)
    PROVE  LinkInv'
<1> DEFINE d == caller(c).device
           p == caller(c).peer
           w == [nonce |-> c, peer |-> p, role |-> caller(c).role]
<1>1. TablesInv'
  BY Callers, RowOfOneKeeps DEF createApproval
<1>2. w \in Windows /\ WindowOK(linking.calls, d, w)
  BY Callers DEF Windows, WindowOK
<1> HIDE DEF w
<1>3. linkWindows' \in {linkWindows, [linkWindows EXCEPT ![d] = @ \cup {w}]}
  BY DEF createApproval, w
<1>4. WindowsInv'
  BY <1>2, <1>3 DEF createApproval, LinkInv, WindowsInv
<1>5. UnlinkedType' /\ MailInv' /\ linking' \in Linkings /\ wall' \in Int
  BY DEF createApproval, LinkInv, UnlinkedType, MailInv
<1> QED
  BY <1>1, <1>4, <1>5 DEF LinkInv

\* SetApproval names the approval in a row that is pending.
LEMMA SetApprovalKeeps ==
    ASSUME LinkInv, NEW c \in DOMAIN linking.calls, SetApproval(c)
    PROVE  LinkInv'
<1> DEFINE d == caller(c).device
           p == caller(c).peer
           l == device_links[d][p]
           row == [l EXCEPT !.approval = c]
<1>0. d \in Devices /\ p \in Devices /\ c \in LinkCalls
  BY Callers
<1>1. TablesInv'
  <2>1. CASE UNCHANGED device_links
    BY <2>1 DEF SetApproval, LinkInv, TablesInv
  <2>2. CASE device_links' = [device_links EXCEPT ![d][p].approval = c]
    <3>1. l \in LinkRows /\ device_links[d] \in [Devices -> LinkRows]
      BY <1>0, Tables DEF LinksOK
    <3>2. /\ row \in LinkRows /\ row.state = l.state /\ row.role = l.role /\ row.nonce = l.nonce
          /\ row.peerNonce = l.peerNonce
      BY <1>0, <3>1 DEF LinkRows, Nonces
    <3>3. device_links'[d] = [device_links[d] EXCEPT ![p] = row]
      BY <1>0, <2>2 DEF LinkInv, TablesInv
    <3> HIDE DEF row
    <3>4. device_links'[d] \in [Devices -> LinkRows] /\ Fewer(device_links'[d], device_links[d])
      BY <1>0, <3>1, <3>2, <3>3 DEF Fewer
    <3>5. LinksOK(linking.calls, confirmed, unlinked[d], d, device_links'[d])
      BY <1>0, <3>4, Tables, FewerOK
    <3>6. Elsewhere(d) /\ UNCHANGED <<linking, unlinked, device_offers, confirmed>>
      BY <1>0, <2>2 DEF SetApproval, Elsewhere, LinkInv, TablesInv
    <3> QED
      BY <1>0, <3>5, <3>6, Tables, TablesKeep
  <2> QED
    BY <2>1, <2>2 DEF SetApproval
<1>2. WindowsInv' /\ UnlinkedType' /\ MailInv' /\ linking' \in Linkings /\ wall' \in Int
  BY DEF SetApproval, LinkInv, WindowsInv, UnlinkedType, MailInv
<1> QED
  BY <1>1, <1>2 DEF LinkInv

\* The row that waits for the other device.
LEMMA WaitingRow ==
    \A l \in LinkRows, now \in Int :
        LET row == [l EXCEPT !.state = "waiting", !.created = now, !.expires = now + IntentTTL]
        IN  row \in LinkRows /\ row.state = "waiting" /\ row.role = l.role /\ row.nonce = l.nonce
<1> TAKE l \in LinkRows, now \in Int
<1>1. now + IntentTTL \in Int
  BY LinkConstants
<1> QED
  BY <1>1 DEF LinkRows

\* The code: the confirmed intent waits or, with the offer kept, becomes a link.
LEMMA ConfirmLinkKeeps ==
    ASSUME LinkInv, NEW d \in Devices, NEW w \in linkWindows[d], confirmLink(d, w)
    PROVE  LinkInv'
<1> DEFINE now == Time(d)
           p == w.peer
           links == ExpireTx(device_links[d], now)
           offers == ExpireOffers(device_offers[d], now)
           row == [links[p] EXCEPT !.state = "waiting", !.created = now, !.expires = now + IntentTTL]
           waiting == [links EXCEPT ![p] = row]
           kept == offers[p]
           done == IF kept # NoOffer THEN TryActivateTx(waiting, p, kept, now) ELSE waiting
           o == [device |-> d, peer |-> p, role |-> w.role, nonce |-> w.nonce, at |-> now]
           m == Mail("device.link", d, p, now, w.nonce, w.role)
           GoodLinks(ls) == LinksOK(linking.calls, confirmed', unlinked[d], d, ls)
           GoodOffers(fs) == OffersOK(confirmed', unlinked[d], d, fs)
<1>0. /\ w \in Windows /\ WindowOK(linking.calls, d, w) /\ now \in Int
      /\ p \in Devices /\ w.nonce \in LinkCalls /\ w.role \in Roles
  BY Tables DEF LinkInv, WindowsInv, Windows
<1>1. /\ links[p].nonce = w.nonce /\ links[p].state = "pending_approval"
      /\ device_links' = [device_links EXCEPT ![d] = done]
      /\ device_offers' = [device_offers EXCEPT ![d] =
            IF done[p].state = "active" THEN [offers EXCEPT ![p] = NoOffer] ELSE offers]
      /\ linkWindows' = [linkWindows EXCEPT ![d] = @ \ {w}]
      /\ dmail' = dmail \cup {m} /\ confirmed' = confirmed \cup {o}
      /\ UNCHANGED <<linking, wall, unlinked>>
  BY DEF confirmLink
<1>2. /\ o \in confirmed' /\ confirmed \subseteq confirmed' /\ o.device = d /\ o.peer = p
      /\ o.role = w.role /\ o.nonce = w.nonce /\ o.at = now
  BY <1>1
<1>3. GoodLinks(links) /\ GoodOffers(offers)
  BY <1>2, Tables, ExpireOK, ExpireOffersOK, SaidGrows
<1> HIDE DEF links, offers, o, GoodLinks, GoodOffers
<1>4. links[p] \in LinkRows /\ links[p].role = w.role
  BY <1>0, <1>1, <1>3 DEF GoodLinks, LinksOK, RowOK, WindowOK, CallIs
<1>5. row \in LinkRows /\ row.state = "waiting" /\ row.role = w.role /\ row.nonce = w.nonce
  <2>1. links[p] \in LinkRows /\ now \in Int /\ links[p].role = w.role /\ links[p].nonce = w.nonce
    BY <1>0, <1>1, <1>4
  <2> QED
    BY <2>1, WaitingRow, Zenon
<1> HIDE DEF row, now
<1>6. GoodLinks(waiting)
  <2>1. Said(confirmed', d, p, row.nonce, row.role)
    BY <1>2, <1>5 DEF Said
  <2> QED
    BY <1>0, <1>1, <1>3, <1>4, <1>5, <2>1, WaitOK DEF GoodLinks
<1> HIDE DEF waiting
<1>7. GoodLinks(done)
  <2>1. CASE kept # NoOffer
    <3>1. /\ kept \in Offers /\ kept.role \in Roles
          /\ SaidAfter(confirmed', unlinked[d][p], d, p, kept.nonce, kept.role)
      BY <1>0, <1>3, <2>1 DEF GoodOffers, OffersOK, OfferOK
    <3> HIDE DEF kept
    <3>2. GoodLinks(TryActivateTx(waiting, p, kept, now))
      BY <1>0, <1>6, <3>1, ActivateOK DEF GoodLinks
    <3> QED
      BY <2>1, <3>2
  <2>2. CASE kept = NoOffer
    BY <1>6, <2>2
  <2> QED
    BY <2>1, <2>2
<1>8. GoodOffers([offers EXCEPT ![p] = NoOffer])
  BY <1>0, <1>3, Blanks, OneOfferOK DEF GoodOffers
<1> HIDE DEF done
<1>9. TablesInv'
  <2>1. Elsewhere(d) /\ device_links'[d] = done /\ device_offers'[d] \in {offers, [offers EXCEPT ![p] = NoOffer]}
    BY <1>1 DEF Elsewhere, LinkInv, TablesInv
  <2>2. GoodLinks(device_links'[d]) /\ GoodOffers(device_offers'[d])
    BY <1>3, <1>7, <1>8, <2>1
  <2> QED
    BY <1>1, <1>2, <2>1, <2>2, TablesKeep DEF GoodLinks, GoodOffers
<1>10. WindowsInv'
  BY <1>1 DEF LinkInv, WindowsInv
<1>11. MailInv'
  <2>1. m \in LinkMails /\ m.kind = "device.link" /\ m.from = d /\ m.to = p /\ m.at = now
        /\ m.nonce = w.nonce /\ m.role = w.role
    BY <1>0 DEF Mail, LinkMails, Nonces, now
  <2> HIDE DEF m
  <2>2. MailOK(confirmed', m)
    BY <1>0, <1>2, <2>1 DEF MailOK
  <2>3. \A n \in dmail : MailOK(confirmed', n)
    BY <1>2 DEF LinkInv, MailInv, MailOK
  <2> QED
    BY <1>1, <2>1, <2>2, <2>3 DEF LinkInv, MailInv
<1>12. UnlinkedType' /\ linking' \in Linkings /\ wall' \in Int
  BY <1>1 DEF LinkInv, UnlinkedType
<1> QED
  BY <1>9, <1>10, <1>11, <1>12 DEF LinkInv

\* A rejection revokes a row that is still pending.
LEMMA RejectLinkKeeps ==
    ASSUME LinkInv, NEW d \in Devices, NEW w \in linkWindows[d], rejectLink(d, w)
    PROVE  LinkInv'
<1>1. w.peer \in Devices
  BY DEF LinkInv, WindowsInv, Windows
<1>2. TablesInv'
  BY <1>1, RowOfOneKeeps DEF rejectLink
<1>3. WindowsInv'
  BY DEF rejectLink, LinkInv, WindowsInv
<1>4. UnlinkedType' /\ MailInv' /\ linking' \in Linkings /\ wall' \in Int
  BY DEF rejectLink, LinkInv, UnlinkedType, MailInv
<1> QED
  BY <1>2, <1>3, <1>4 DEF LinkInv

\* An offer that arrives was confirmed by its sender; it is ignored if it was made
\* before the unlink noted last, else it makes the link or is kept.
LEMMA DeviceLinkKindKeeps ==
    ASSUME LinkInv, NEW m \in dmail, deviceLinkKind(m)
    PROVE  LinkInv'
<1> DEFINE d == m.to
           p == m.from
           now == Time(d)
           links == ExpireTx(device_links[d], now)
           offers == ExpireOffers(device_offers[d], now)
           offer == offerOf(m, now)
           done == TryActivateTx(links, p, offer, now)
           ignored == ~OfferFresh(offer, now) \/ OfferBeforeUnlinkTx(d, p, offer)
           GoodLinks(ls) == LinksOK(linking.calls, confirmed, unlinked[d], d, ls)
           GoodOffers(fs) == OffersOK(confirmed, unlinked[d], d, fs)
<1>0. m \in LinkMails /\ d \in Devices /\ p \in Devices /\ m.at \in Int /\ m.nonce \in Nonces
  BY DEF LinkInv, MailInv, LinkMails
<1>1. /\ m.kind = "device.link" /\ dmail' = dmail \ {m}
      /\ UNCHANGED <<linking, wall, unlinked, linkWindows, confirmed>>
  BY DEF deviceLinkKind
<1>2. /\ m.role \in Roles
      /\ \E o \in confirmed : /\ o.device = p /\ o.peer = d /\ o.nonce = m.nonce
                              /\ o.role = m.role /\ o.at = m.at
  BY <1>1 DEF LinkInv, MailInv, MailOK
<1>3. now \in Int /\ GoodLinks(links) /\ GoodOffers(offers)
  BY <1>0, Tables, ExpireOK, ExpireOffersOK
<1>4. offer \in Offers /\ offer.role = m.role /\ offer.nonce = m.nonce /\ offer.at = m.at
  BY <1>0, <1>2, <1>3 DEF offerOf, Offers
<1> HIDE DEF links, offers, offer, GoodLinks, GoodOffers, now
<1>5. ASSUME ~ignored
      PROVE  GoodLinks(done) /\ OfferOK(confirmed, unlinked[d][p], d, p, offer)
  <2>1. \A t \in unlinked[d][p] : m.at >= t
    BY <1>0, <1>4, <1>5 DEF OfferBeforeUnlinkTx, LinkInv, UnlinkedType
  <2>2. SaidAfter(confirmed, unlinked[d][p], d, p, offer.nonce, offer.role)
    BY <1>2, <1>4, <2>1 DEF SaidAfter
  <2>3. GoodLinks(done)
    BY <1>0, <1>2, <1>3, <1>4, <2>2, ActivateOK DEF GoodLinks
  <2> QED
    BY <1>2, <1>4, <2>2, <2>3 DEF OfferOK
<1>6. ASSUME ~ignored, NEW f \in {NoOffer, offer} PROVE GoodOffers([offers EXCEPT ![p] = f])
  BY <1>0, <1>3, <1>4, <1>5, <1>6, Blanks, OneOfferOK DEF GoodOffers
<1>7. TablesInv'
  <2>1. CASE UNCHANGED <<device_links, device_offers>>
    BY <1>1, <2>1 DEF LinkInv, TablesInv
  <2>2. CASE /\ device_links' = [device_links EXCEPT ![d] = IF ignored THEN links ELSE done]
             /\ \E f \in {NoOffer, offer} :
                  device_offers' = [device_offers EXCEPT ![d] =
                     IF ignored THEN offers ELSE [offers EXCEPT ![p] = f]]
    <3>1. Elsewhere(d) /\ device_links'[d] = IF ignored THEN links ELSE done
      BY <1>0, <2>2 DEF Elsewhere, LinkInv, TablesInv
    <3>2. \E f \in {NoOffer, offer} :
             device_offers'[d] = IF ignored THEN offers ELSE [offers EXCEPT ![p] = f]
      BY <1>0, <2>2 DEF LinkInv, TablesInv
    <3> HIDE DEF ignored, done
    <3>3. GoodLinks(device_links'[d]) /\ GoodOffers(device_offers'[d])
      BY <1>3, <1>5, <1>6, <3>1, <3>2
    <3> QED
      BY <1>0, <1>1, <3>1, <3>3, TablesKeep DEF GoodLinks, GoodOffers
  <2> QED
    BY <2>1, <2>2 DEF deviceLinkKind, links, offers, offer, now
<1>8. WindowsInv' /\ MailInv' /\ UnlinkedType' /\ linking' \in Linkings /\ wall' \in Int
  BY <1>1 DEF LinkInv, WindowsInv, MailInv, UnlinkedType
<1> QED
  BY <1>7, <1>8 DEF LinkInv

\* RevokeForPeerTx, and the unlink that may be noted with it.
LEMMA RevokeForPeerKeeps ==
    ASSUME LinkInv, NEW d \in Devices, NEW p \in Devices, RevokeForPeerTx(d, p),
           UNCHANGED <<linking, confirmed>>,
           UNCHANGED unlinked \/ \E now \in Int : NoteUnlinkTx(d, p, now)
    PROVE  TablesInv' /\ UnlinkedType'
<1> DEFINE L == [device_links[d] EXCEPT ![p] = Revoked]
           F == [device_offers[d] EXCEPT ![p] = NoOffer]
<1>1. Elsewhere(d) /\ device_links'[d] = L /\ device_offers'[d] = F
  BY DEF RevokeForPeerTx, Elsewhere, LinkInv, TablesInv
<1>2. /\ LinksOK(linking.calls, confirmed, unlinked[d], d, L)
      /\ OffersOK(confirmed, unlinked[d], d, F)
  BY Tables, Blanks, RevokeOK, OneOfferOK
<1>3. L[p] = Revoked /\ F[p] = NoOffer
  BY Tables DEF LinksOK, OffersOK
<1> HIDE DEF L, F
<1>4. /\ UnlinkedType' /\ \A q \in Devices \ {p} : unlinked'[d][q] = unlinked[d][q]
      /\ \A e \in Devices \ {d} : unlinked'[e] = unlinked[e]
  BY DEF NoteUnlinkTx, LinkInv, UnlinkedType
<1>5. /\ LinksOK(linking.calls, confirmed, unlinked'[d], d, L)
      /\ OffersOK(confirmed, unlinked'[d], d, F)
  BY <1>2, <1>3, <1>4, UnlinkOK
<1>6. ASSUME NEW e \in Devices \ {d}
      PROVE  /\ LinksOK(linking.calls, confirmed, unlinked'[e], e, device_links'[e])
             /\ OffersOK(confirmed, unlinked'[e], e, device_offers'[e])
  BY <1>1, <1>4, Tables DEF Elsewhere
<1>7. TablesInv'
  BY <1>1, <1>5, <1>6 DEF TablesInv, Elsewhere
<1> QED
  BY <1>4, <1>7

\* A peer's unlink ends everything with it.
LEMMA DeviceUnlinkKindKeeps ==
    ASSUME LinkInv, NEW m \in dmail, deviceUnlinkKind(m)
    PROVE  LinkInv'
<1>1. m.to \in Devices /\ m.from \in Devices /\ m.at \in Int
  BY DEF LinkInv, MailInv, LinkMails
<1>2. dmail' = dmail \ {m} /\ UNCHANGED <<linking, wall, linkWindows, confirmed>>
  BY DEF deviceUnlinkKind
<1>3. TablesInv' /\ UnlinkedType'
  <2>1. CASE m.from \in paired[m.to]
    BY <1>1, <1>2, <2>1, RevokeForPeerKeeps DEF deviceUnlinkKind
  <2>2. CASE UNCHANGED <<device_links, device_offers, unlinked>>
    BY <1>2, <2>2 DEF LinkInv, TablesInv, UnlinkedType
  <2> QED
    BY <2>1, <2>2 DEF deviceUnlinkKind
<1>4. WindowsInv' /\ MailInv' /\ linking' \in Linkings /\ wall' \in Int
  BY <1>2 DEF LinkInv, WindowsInv, MailInv
<1> QED
  BY <1>3, <1>4 DEF LinkInv

\* device_unlink ends everything with the peer, and tells it.
LEMMA UnlinkKeeps ==
    ASSUME LinkInv, NEW d \in Devices, NEW p \in Devices, device_unlink(d, p)
    PROVE  LinkInv'
<1> DEFINE m == Mail("device.unlink", d, p, Time(d), "none", "none")
<1>1. /\ RevokeForPeerTx(d, p) /\ NoteUnlinkTx(d, p, Time(d)) /\ Time(d) \in Int
      /\ dmail' = dmail \cup {m} /\ UNCHANGED <<linking, wall, confirmed>>
  BY Tables DEF device_unlink
<1>2. TablesInv' /\ UnlinkedType'
  BY <1>1, RevokeForPeerKeeps
<1>3. m \in LinkMails /\ m.kind = "device.unlink"
  BY <1>1 DEF Mail, LinkMails, Nonces
<1> HIDE DEF m
<1>4. MailInv'
  BY <1>1, <1>3 DEF LinkInv, MailInv, MailOK
<1>5. WindowsInv'
  BY <1>1 DEF device_unlink, LinkInv, WindowsInv
<1> QED
  BY <1>1, <1>2, <1>4, <1>5 DEF LinkInv

\* peers remove.
LEMMA RemovedPeerKeeps ==
    ASSUME LinkInv, NEW d \in Devices, NEW p \in Devices, revokeDeviceForRemovedPeer(d, p)
    PROVE  LinkInv'
<1>1. TablesInv' /\ UnlinkedType'
  BY RevokeForPeerKeeps DEF revokeDeviceForRemovedPeer
<1>2. WindowsInv' /\ MailInv' /\ linking' \in Linkings /\ wall' \in Int
  BY DEF revokeDeviceForRemovedPeer, LinkInv, WindowsInv, MailInv
<1> QED
  BY <1>1, <1>2 DEF LinkInv

\* device_list lapses what is stale.
LEMMA ListKeeps == ASSUME LinkInv, NEW d \in Devices, List(d) PROVE LinkInv'
<1>1. /\ Elsewhere(d) /\ device_links'[d] = ExpireTx(device_links[d], Time(d))
      /\ device_offers'[d] = ExpireOffers(device_offers[d], Time(d))
  BY DEF List, Elsewhere, LinkInv, TablesInv
<1>2. /\ LinksOK(linking.calls, confirmed, unlinked[d], d, device_links'[d])
      /\ OffersOK(confirmed, unlinked[d], d, device_offers'[d])
  BY <1>1, Tables, ExpireOK, ExpireOffersOK
<1>3. UNCHANGED <<linking, wall, unlinked, linkWindows, dmail, confirmed>>
  BY DEF List
<1>4. TablesInv'
  BY <1>1, <1>2, <1>3, TablesKeep
<1>5. WindowsInv' /\ MailInv' /\ UnlinkedType' /\ linking' \in Linkings /\ wall' \in Int
  BY <1>3 DEF LinkInv, WindowsInv, MailInv, UnlinkedType
<1> QED
  BY <1>4, <1>5 DEF LinkInv

\* A pairing, a tick and a stutter leave every table alone.
LEMMA QuietLinkKeeps ==
    ASSUME LinkInv, wall' \in Int,
           UNCHANGED <<linking, device_links, device_offers, unlinked, linkWindows, dmail, confirmed>>
    PROVE  LinkInv'
BY DEF LinkInv, TablesInv, WindowsInv, MailInv, UnlinkedType

-------------------------------------------------------------------------------
\* Devices without links.
LEMMA LinkInitInv == LinkInit => LinkInv
<1> SUFFICES ASSUME LinkInit PROVE LinkInv
  OBVIOUS
<1> DEFINE links == [p \in Devices |-> Revoked]
           offers == [p \in Devices |-> NoOffer]
<1>1. links \in [Devices -> LinkRows] /\ Held(links) = {}
  BY Blanks DEF Held
<1>2. Hierarchy(links)
  <2>1. Cardinality(Held(links)) = 0
    BY <1>1, FS_EmptySet
  <2>2. Cardinality(Held(links)) <= MaxHelpers
    BY <2>1, LinkConstants
  <2> QED
    BY <1>1, <2>2 DEF Hierarchy
<1>3. \A cs, cf, un, d : LinksOK(cs, cf, un, d, links)
  BY <1>1, <1>2, Blanks DEF LinksOK
<1>4. \A cf, un, d : OffersOK(cf, un, d, offers)
  BY Blanks DEF OffersOK
<1> HIDE DEF links, offers
<1>5. device_links = [d \in Devices |-> links] /\ device_offers = [d \in Devices |-> offers]
  BY DEF LinkInit, links, offers
<1>6. TablesInv
  BY <1>3, <1>4, <1>5 DEF TablesInv
<1>7. UnlinkedType /\ WindowsInv /\ MailInv /\ linking \in Linkings /\ wall \in Int
  BY DEF LinkInit, UnlinkedType, WindowsInv, MailInv
<1> QED
  BY <1>6, <1>7 DEF LinkInv

\* Every step keeps the invariant.
LEMMA LinkNextInv == LinkInv /\ [LinkNext]_linkVars => LinkInv'
<1> SUFFICES ASSUME LinkInv, [LinkNext]_linkVars PROVE LinkInv'
  OBVIOUS
<1>1. ASSUME NEW c \in DOMAIN linking.calls,
             PendingFor(c) \/ CreateIntent(c) \/ createApproval(c) \/ SetApproval(c)
      PROVE  LinkInv'
  BY <1>1, PendingForKeeps, CreateIntentKeeps, CreateApprovalKeeps, SetApprovalKeeps
<1>2. ASSUME NEW d \in Devices, NEW w \in linkWindows[d], confirmLink(d, w) \/ rejectLink(d, w)
      PROVE  LinkInv'
  BY <1>2, ConfirmLinkKeeps, RejectLinkKeeps
<1>3. ASSUME NEW m \in dmail, deviceLinkKind(m) \/ deviceUnlinkKind(m) PROVE LinkInv'
  BY <1>3, DeviceLinkKindKeeps, DeviceUnlinkKindKeeps
<1>4. ASSUME NEW d \in Devices, NEW p \in Devices,
             device_unlink(d, p) \/ revokeDeviceForRemovedPeer(d, p)
      PROVE  LinkInv'
  BY <1>4, UnlinkKeeps, RemovedPeerKeeps
<1>5. ASSUME NEW d \in Devices, List(d) PROVE LinkInv'
  BY <1>5, ListKeeps
<1>6. CASE (\E d, p \in Devices : pairAgain(d, p)) \/ wallTicks \/ UNCHANGED linkVars
  <2>1. /\ wall' \in Int
        /\ UNCHANGED <<linking, device_links, device_offers, unlinked, linkWindows, dmail, confirmed>>
    BY <1>6 DEF pairAgain, wallTicks, linkVars, LinkInv
  <2> QED
    BY <2>1, QuietLinkKeeps
<1> QED
  BY <1>1, <1>2, <1>3, <1>4, <1>5, <1>6 DEF LinkNext

\* What the invariant says of the links.
LEMMA LinkInvIsSound == LinkInv => LinksAreSound
<1> SUFFICES ASSUME LinkInv PROVE LinksAreSound
  OBVIOUS
<1>1. LinkWasAgreed
  BY Tables DEF LinkWasAgreed, LinksOK, RowOK, Said, SaidAfter
<1>2. ASSUME NEW d \in Devices, NEW held, held = Held(device_links[d])
      PROVE  /\ \A p, q \in held : device_links[d][p].role = device_links[d][q].role
             /\ (\E p \in held : device_links[d][p].role = "helper") => Cardinality(held) = 1
             /\ Cardinality(held) <= MaxHelpers
  <2>1. Hierarchy(device_links[d])
    BY Tables DEF LinksOK
  <2>2. ASSUME NEW p \in held, device_links[d][p].role = "helper" PROVE Cardinality(held) = 1
    <3>1. held = {p}
      BY <1>2, <2>1, <2>2 DEF Hierarchy
    <3> QED
      BY <3>1, FS_Singleton
  <2> QED
    BY <1>2, <2>1, <2>2 DEF Hierarchy
<1>3. OneWayHierarchy
  <2>1. \A d \in Devices : Held(device_links[d]) = {p \in Devices : device_links[d][p].state # "revoked"}
    BY DEF Held
  <2> QED
    BY <1>2, <2>1, Zenon DEF OneWayHierarchy
<1> QED
  BY <1>1, <1>3 DEF LinksAreSound

\* The inductive invariant holds in every reachable state of the device links.
THEOREM LinkInvariant == LinkSpec => []LinkInv
BY LinkInitInv, LinkNextInv, PTL DEF LinkSpec

\* Every active link was confirmed by both humans, in complementary roles and after the
\* last unlink (TryActivateTx, OfferBeforeUnlinkTx), and no device ever holds links or
\* intents in both roles, two controllers or more than MaxHelpers helpers
\* (CheckHierarchyTx), whatever mail is delayed or reordered and whatever calls overlap.
THEOREM LinksSound == LinkSpec => []LinksAreSound
BY LinkInvariant, LinkInvIsSound, PTL
=============================================================================
