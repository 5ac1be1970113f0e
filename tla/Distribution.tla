--------------------------- MODULE Distribution ---------------------------
(***************************************************************************)
(* The exploration of peers in the browser (src/static/js/distribution, its *)
(* calls into map/navigation.js and peers/detail.js): which entity, network *)
(* or summary is selected, which list is pinned beside the panel, which     *)
(* peer's popup is open, and what all of it leaves in the peer table and on *)
(* the map while polls keep replacing the peers underneath.                 *)
(*                                                                          *)
(* ui is the state of the controllers (state.js and the closures beside     *)
(* it); every handler is an operator from a ui to the next one, composed as *)
(* the code composes its calls.  over is the kind of element the pointer is *)
(* on: a leave runs in whatever state it finds, and a render that replaces  *)
(* the element loses it.                                                    *)
(*                                                                          *)
(* Abstracted: animation, colours, centre text, legend highlight, line      *)
(* geometry, scroll and focus.  The table filter and the dimming of the map *)
(* are one set in the code (filterPeerTable and dimMapPeers both assign     *)
(* interaction.asFilterPeerIds), here ui.table.  ui.popup is both the       *)
(* controller's peerDetailActive and the open or opening popup of           *)
(* detail.js: every handler changes the two together.  A modal dialog takes *)
(* Escape and clicks to itself while it is open; nothing here happens then. *)
(***************************************************************************)
EXTENDS FiniteSets, Integers

CONSTANTS Peers,       \* peer ids, integers: ties between groups fall to the smallest
          Snapshots,   \* the peer sets a poll may return
          Provider, Country, Network, Direction,   \* functions on Peers
          Measured,    \* peers with a measured ping or counted bytes
          Site,        \* peers drawn at one place of the map
          MaxSegments, \* entities with a segment of their own, the rest are Others
          Insights,    \* the insight links offered
          Pointer,     \* the kinds of elements the pointer may rest on
          All, None

\* The entities a function on peers names, the filters, and the pinned lists with the rows
\* they are pinned to
Keys(f) == {f[p] : p \in Peers} \ {None}
Cats == {"summary", "panel", "conn-provider", "conn-in", "conn-out", "conn-others",
         "insight-fastest", "insight-data", "insight-stable", "all-providers"}
Labels == [cat : Cats, key : Keys(Provider) \cup Keys(Network) \cup {"IN", "OUT", "Others"} \cup Cats]
Pins == [row : Labels, live : BOOLEAN, list : {"peers", "providers", "ranks"}, ids : SUBSET Peers]
Seconds == [prov : Keys(Provider), ids : SUBSET Peers]

ASSUME DistributionAssumption ==
    /\ Peers \subseteq Int /\ IsFiniteSet(Peers)
    /\ Snapshots \subseteq SUBSET Peers
    /\ Measured \subseteq Peers /\ Site \subseteq Peers
    /\ \A p \in Peers : Direction[p] \in {"IN", "OUT"}
    /\ MaxSegments \in Nat
    /\ Insights \subseteq {"insight-fastest", "insight-data", "insight-stable"}
    \* null is not anything else
    /\ None \notin Cats \cup {"Others"} /\ None \notin Pins /\ None \notin Seconds
    /\ \A P \in SUBSET Peers : None # P

VARIABLES ui, over
distributionVars == <<ui, over>>

(***************************************************************************)
(* Groups, segments and scopes over one snapshot of the peers              *)
(***************************************************************************)
With(P, f, e) == {p \in P : f[p] = e}

\* aggregateProviders / aggregateCountries: groups by falling size
Before(P, f, a, b) ==
    LET A == With(P, f, a)  B == With(P, f, b)
        first(S) == CHOOSE p \in S : \A q \in S : p <= q
    IN  \/ Cardinality(A) > Cardinality(B)
        \/ Cardinality(A) = Cardinality(B) /\ first(A) < first(B)
Groups(P, f) == {f[p] : p \in P} \ {None}
\* A table, so that TLC ranks every set of peers once
Top == [f \in {Provider, Country} |-> [P \in SUBSET Peers |->
    {e \in Groups(P, f) :
        Cardinality({g \in Groups(P, f) : Before(P, f, g, e)}) < MaxSegments}]]
TopGroups(P, f) == Top[f][P]
EntityPeers(P, f, e) ==
    IF e = "Others" THEN {p \in P : f[p] \notin TopGroups(P, f) \cup {None}}
                    ELSE With(P, f, e)

lensOf(s) == IF s.lens = "provider" THEN Provider ELSE Country
Segments(s) ==
    TopGroups(s.peers, lensOf(s)) \cup
        IF EntityPeers(s.peers, lensOf(s), "Others") = {} THEN {} ELSE {"Others"}
findActiveSegmentOrGroup(s, e) == EntityPeers(s.peers, lensOf(s), e)
\* getPeerIdsForAnyAs: the provider lists, whatever the lens
getPeerIdsForAnyAs(s, e) == EntityPeers(s.peers, Provider, e)

\* peers/filters.js: forCategory names the filter, resolve applies it
Filtered(s, scope) ==
    LET of(e) == {p \in scope : IF e = "Others" THEN p \in EntityPeers(s.peers, Provider, e)
                                                 ELSE Provider[p] = e}
    IN  CASE s.cat = None -> scope
          [] s.cat \in {"summary", "panel"} ->
                {p \in scope : s.key \in {Network[p], Direction[p]}}
          [] s.cat \in {"conn-provider", "insight-stable", "conn-others"} -> of(s.key)
          [] s.cat = "conn-in" -> {p \in of(s.key) : Direction[p] = "IN"}
          [] s.cat = "conn-out" -> {p \in of(s.key) : Direction[p] = "OUT"}
          [] s.cat \in {"insight-fastest", "insight-data"} -> scope \cap Measured
          [] s.cat = "all-providers" -> {p \in scope : Provider[p] # None}

peersForNetwork(P, net) == With(P, Network, net)

\* what is explored, before any filter
ScopePeers(s) ==
    CASE s.net # None -> peersForNetwork(s.peers, s.net)
      [] s.net = None /\ s.sel # None -> findActiveSegmentOrGroup(s, s.sel)
      [] OTHER -> s.peers

\* The providers the insights rank; which of them leads is data
Ranked(s) == Groups(s.peers \cap Measured, Provider)
RankedPeers(s, kind, e) ==
    getPeerIdsForAnyAs(s, e) \cap (IF kind = "insight-data" THEN Measured ELSE Peers)

(***************************************************************************)
(* Pieces every handler is made of                                         *)
(***************************************************************************)
Show(s, ids) == [s EXCEPT !.table = ids]
NoFilter(s) == [s EXCEPT !.cat = None, !.key = None, !.ids = None]
NoInsight(s) == [s EXCEPT !.insight = None, !.rect = FALSE]
clearPeerSelection(s) == [s EXCEPT !.mapf = None, !.mapGroup = FALSE]
closePanel(s) == [s EXCEPT !.panel = None]

hideSubSub(s) == [s EXCEPT !.pin2 = FALSE, !.second = None]
hideSub(s) == [hideSubSub(s) EXCEPT !.pin = None]
pinSub(s, row, list, ids) ==
    [hideSubSub(s) EXCEPT !.pin = [row |-> row, live |-> TRUE, list |-> list, ids |-> ids]]
pinnedTo(s, row) == s.pin # None /\ s.pin.row = row /\ s.pin.live
pinSecondary(s, e, ids) == [s EXCEPT !.pin2 = TRUE, !.second = [prov |-> e, ids |-> ids]]

dismissPeerDetailView(s) == [s EXCEPT !.popup = FALSE, !.peer = None, !.group = None]

closePeerPopup(s) ==
    LET d == clearPeerSelection(dismissPeerDetailView(s))
        sub == IF s.second # None THEN s.second.ids ELSE s.ids
    IN  IF s.summary \/ s.net # None
        THEN Show(d, CASE s.insight # None ->
                            LET prov == getPeerIdsForAnyAs(s, s.insight.prov)
                            IN  IF sub = None THEN prov ELSE sub \cap prov
                       [] s.insight = None /\ sub # None -> sub
                       [] s.insight = None /\ sub = None /\ s.net # None ->
                            peersForNetwork(s.peers, s.net)
                       [] OTHER -> All)
        ELSE IF s.sel # None
        THEN IF getPeerIdsForAnyAs(s, s.sel) = {} THEN d
             ELSE Show(d, IF sub # None THEN sub ELSE getPeerIdsForAnyAs(s, s.sel))
        ELSE Show(d, All)
ClosedFirst(s) == IF s.popup THEN closePeerPopup(s) ELSE s

\* presentation.js renderPanel: an entity that is gone leaves the panel as it is
renderPanel(s, e) ==
    IF findActiveSegmentOrGroup(s, e) = {} THEN s
    ELSE [s EXCEPT !.panel = [kind |-> "entity", key |-> e]]
openPanel(s, e) == renderPanel(ClosedFirst(s), e)
renderSummary(s) == [s EXCEPT !.panel = [kind |-> "summary", key |-> s.lens]]
openLensSummaryPanel(s) == renderSummary(ClosedFirst(s))

(***************************************************************************)
(* selection.js: focused mode, entities, networks, peers                   *)
(***************************************************************************)
deselectSummary(s) ==
    IF ~s.summary THEN s
    ELSE Show(closePanel(NoInsight(hideSub(NoFilter(
            [s EXCEPT !.summary = FALSE])))), All)

deselect(s) ==
    LET n == [s EXCEPT !.net = None]
    IN  IF s.summary THEN deselectSummary(n)
        ELSE Show([closePanel(hideSub(NoFilter(dismissPeerDetailView(n))))
                      EXCEPT !.sel = None, !.others = FALSE, !.rect = FALSE], All)

selectSummary(s) ==
    LET d == IF s.sel # None THEN deselect(s) ELSE s
    IN  openLensSummaryPanel([d EXCEPT !.summary = TRUE])

navigateToProvider(s, e) ==
    LET left == [s EXCEPT !.summary = FALSE, !.sel = e]
        shown == openPanel(hideSub(NoFilter(left)), e)
    IN  clearPeerSelection(Show(shown, getPeerIdsForAnyAs(s, e)))

\* the overview button and the panel's back button
navigateBack(s) ==
    LET left == hideSub(NoInsight(NoFilter(dismissPeerDetailView(
                    [s EXCEPT !.net = None, !.sel = None, !.others = FALSE]))))
    IN  IF s.focused
        THEN clearPeerSelection(Show(openLensSummaryPanel([left EXCEPT !.summary = TRUE]), All))
        ELSE deselect(left)

\* Mutant: leaving focused mode forgets the popup that floats over it
ExitKeepsPopup(s) ==
    LET left == [s EXCEPT !.focused = FALSE, !.net = None, !.others = FALSE, !.rect = FALSE]
    IN  IF ~s.focused THEN s
        ELSE clearPeerSelection(IF s.sel # None THEN closePanel(left) ELSE deselectSummary(left))

exitFocusedMode(s) ==
    IF ~s.focused THEN s
    ELSE LET left == [dismissPeerDetailView(s)
                        EXCEPT !.focused = FALSE, !.net = None, !.others = FALSE, !.rect = FALSE]
             gone == IF s.summary THEN deselectSummary(left)
                     ELSE IF s.sel # None THEN deselect(left) ELSE closePanel(left)
         IN  clearPeerSelection(Show(gone, All))

enterFocusedMode(s) ==
    IF s.focused THEN s
    ELSE selectSummary([s EXCEPT !.focused = TRUE])

\* selection-filters.js: filters that stay
summaryClearSummarySubFilter(s) == Show(hideSub(NoInsight(NoFilter(s))), All)
summaryClearSubFilter(s) ==
    LET c == hideSub(NoFilter(s))
        ids == findActiveSegmentOrGroup(s, s.sel)
    IN  IF s.sel = None \/ ids = {} THEN c ELSE Show(c, ids)
Filter(s, cat, key, ids) == Show([s EXCEPT !.cat = cat, !.key = key, !.ids = ids], ids)
summaryApplySummarySubFilter(s, key, ids) ==
    LET c == ClosedFirst(s)
    IN  IF c.ids # None /\ c.key = key THEN summaryClearSummarySubFilter(c)
        ELSE clearPeerSelection(Filter(IF c.insight # None THEN NoInsight(c) ELSE c,
                                       "summary", key, ids))
summaryApplySubFilter(s, key, ids) ==
    IF s.ids # None /\ s.cat = "panel" /\ s.key = key THEN summaryClearSubFilter(s)
    ELSE Filter(s, "panel", key, ids)

\* Mutant: the network stays the active one behind the summary
LeaveNetworkActive(s) ==
    Show(openLensSummaryPanel([s EXCEPT !.sel = None, !.summary = TRUE]), All)
\* back to the summary from a network panel, by a click on the map or Escape
LeaveNetwork(s) ==
    LET t == IF s.pin # None \/ s.pin2 THEN NoFilter(hideSub(s)) ELSE s
    IN  Show(openLensSummaryPanel(
            [t EXCEPT !.net = None, !.sel = None, !.summary = TRUE]), All)

onMapClick(s) ==
    CASE s.net # None -> LeaveNetwork(s)
      [] s.net = None /\ s.popup -> closePeerPopup(s)
      [] s.net = None /\ ~s.popup /\ (s.pin # None \/ s.pin2) ->
            LET t == hideSub(s)
            IN  IF s.summary THEN Show(NoFilter(t), All)
                ELSE IF s.sel # None THEN summaryClearSubFilter(t) ELSE t
      [] OTHER ->
            IF s.sel # None
            THEN IF s.focused
                 THEN selectSummary([s EXCEPT !.others = FALSE, !.sel = None])
                 ELSE deselect(s)
            ELSE IF s.focused THEN exitFocusedMode(s)
            ELSE deselectSummary(s)

openPeerDetailPanel(s, p, group) ==
    LET f == IF s.focused THEN s
             ELSE IF s.summary \/ s.sel # None THEN [s EXCEPT !.focused = TRUE]
             ELSE selectSummary([s EXCEPT !.focused = TRUE])
    IN  Show([f EXCEPT !.popup = TRUE, !.peer = p, !.group = group], {p})

clearSelectionForLensSwitch(s) ==
    Show(closePanel(hideSub(NoInsight(NoFilter(dismissPeerDetailView(
        [s EXCEPT !.sel = None, !.summary = FALSE, !.net = None, !.others = FALSE]))))), All)
setDistributionLens(s, lens) ==
    LET c == [clearSelectionForLensSwitch(s) EXCEPT !.lens = lens]
    IN  IF s.lens = lens THEN s ELSE IF s.focused THEN selectSummary(c) ELSE c

openNetworkPanel(s, net) ==
    LET n == [ClosedFirst(s) EXCEPT !.focused = TRUE, !.net = net,
                                    !.panel = [kind |-> "network", key |-> net]]
        ids == peersForNetwork(s.peers, net)
    IN  IF ids = {} THEN n ELSE Show(n, ids)

(***************************************************************************)
(* What a pointer leaving an element restores (navigation-view.js)         *)
(***************************************************************************)
RestoreSummary(s) ==
    IF s.popup THEN s
    ELSE Show(s, CASE s.second # None -> s.second.ids
                   [] s.second = None /\ s.ids # None -> s.ids
                   [] s.second = None /\ s.ids = None /\ s.insight # None ->
                        getPeerIdsForAnyAs(s, s.insight.prov)
                   [] OTHER -> All)
RestoreProvider(s) ==
    IF s.popup THEN s
    ELSE IF s.ids # None THEN Show(s, s.ids)
    ELSE IF s.sel # None THEN Show(s, findActiveSegmentOrGroup(s, s.sel)) ELSE s

(***************************************************************************)
(* The rows a panel offers, and the peers each stands for.  cat and key    *)
(* are the filter the row applies.                                         *)
(***************************************************************************)
Row(cat, key) == [cat |-> cat, key |-> key]
PanelScope(s) ==
    CASE s.panel.kind = "network" -> peersForNetwork(s.peers, s.panel.key)
      [] s.panel.kind = "entity"  -> findActiveSegmentOrGroup(s, s.panel.key)
      [] OTHER -> s.peers
RowPeers(s, row) ==
    CASE row.cat \in Insights -> {}
      [] row.cat = "country" -> findActiveSegmentOrGroup(s, row.key)
      [] OTHER -> Filtered([s EXCEPT !.cat = row.cat, !.key = row.key], PanelScope(s))
\* the panel of a provider, of a country: rows for what connects its peers
interactiveRow(d) == Row("panel", d)
renderProviderPanel(s, e) == {interactiveRow(Direction[p]) : p \in findActiveSegmentOrGroup(s, e)}
renderCountryPanel(s, e) == {interactiveRow(Direction[p]) : p \in findActiveSegmentOrGroup(s, e)}
\* the panel of a network: one row a category, none for a network without peers
computeNetworkPanelData(s, net) == {Direction[p] : p \in peersForNetwork(s.peers, net)}
renderCategoryRows(keys) == {Row("summary", k) : k \in keys}
renderNetworkPanelBody(s, net) == renderCategoryRows(computeNetworkPanelData(s, net))
\* the two summaries
aggregateSummaryByCategory(P, getKey) ==
    {Row("summary", k) : k \in {getKey[p] : p \in P} \ {None}}
aggregateSummaryNetworks(P) == aggregateSummaryByCategory(P, Network)
buildConnectionGrid(s) ==
    LET top == TopGroups(s.peers, Provider)
    IN  {Row("conn-provider", e) : e \in top} \cup {Row("conn-others", "Others")}
            \cup {Row(c, e) : c \in {"conn-in", "conn-out"}, e \in top \cup {"Others"}}
renderProvider(s) == aggregateSummaryNetworks(s.peers) \cup buildConnectionGrid(s)
renderCountry(s) == {Row("country", e) : e \in Groups(s.peers, Country)}
PanelRows(s) ==
    LET rows == CASE s.panel = None \/ s.panel.kind = "empty" -> {}
                  [] s.panel.kind = "network" -> renderNetworkPanelBody(s, s.panel.key)
                  [] s.panel.kind = "entity" -> IF s.lens = "provider"
                                                THEN renderProviderPanel(s, s.panel.key)
                                                ELSE renderCountryPanel(s, s.panel.key)
                  [] OTHER -> IF s.panel.key = "country" THEN renderCountry(s) ELSE renderProvider(s)
    IN  {row \in rows : RowPeers(s, row) # {}}
\* links of the provider summary that are not rows of peers
Links(s) ==
    IF s.panel = [kind |-> "summary", key |-> "provider"] /\ Ranked(s) # {}
    THEN Insights \cup {"all-providers"} ELSE {}

(***************************************************************************)
(* Clicks on rows: the same row again takes its filter away                *)
(***************************************************************************)
Unpin(s) == Show(NoFilter(hideSub(s)), All)
clickSummaryRow(s0, row) ==
    LET s == ClosedFirst(s0)
        ids == RowPeers(s, row)
    IN  IF pinnedTo(s, row) THEN summaryClearSummarySubFilter(hideSub(s))
        ELSE pinSub(summaryApplySummarySubFilter(s, row.key, ids), row, "providers", ids)
clickInteractiveRow(s, row) ==
    LET ids == RowPeers(s, row)
    IN  IF pinnedTo(s, row) THEN summaryClearSubFilter(hideSub(s))
        ELSE pinSub(summaryApplySubFilter(s, row.key, ids), row, "peers", ids)
FilterByRow(s, row, list) ==
    LET ids == RowPeers(s, row)
        f == Filter(pinSub(s, row, list, ids), row.cat, row.key, ids)
    IN  IF pinnedTo(s, row) THEN Unpin(s)
        ELSE IF s.insight # None THEN NoInsight(f) ELSE f
selectConnectionProvider(s, row) == FilterByRow(ClosedFirst(s), row, "peers")
selectOutboundTypeGroup(s, row) == FilterByRow(s, row, "peers")
selectConnectionDirection(s, row) == FilterByRow(s, row, "peers")
selectOtherProviders(s, row) == FilterByRow(ClosedFirst(s), row, "providers")
selectCountryFromSummary(s0, e) ==
    LET s == ClosedFirst(s0)
        d == hideSub(NoFilter([s EXCEPT !.summary = FALSE, !.sel = e]))
        ids == findActiveSegmentOrGroup(s, e)
    IN  IF ids = {} THEN s ELSE clearPeerSelection(Show(openPanel(d, e), ids))
ClickRow(s, row) ==
    CASE row.cat = "summary" -> clickSummaryRow(s, row)
      [] row.cat = "panel" -> clickInteractiveRow(s, row)
      [] row.cat = "conn-provider" -> selectConnectionProvider(s, row)
      [] row.cat = "conn-out" -> selectOutboundTypeGroup(s, row)
      [] row.cat = "conn-in" -> selectConnectionDirection(s, row)
      [] row.cat = "conn-others" -> selectOtherProviders(s, row)
      [] row.cat = "country" -> selectCountryFromSummary(s, row.key)

\* Links that pin a list of ranked providers, of one provider's peers, or of all
\* providers.  e is the provider that leads the ranking when it is read.
Pinned(s, cat, key, list, ids) ==
    [pinSub(s, Row(cat, cat), list, ids) EXCEPT !.cat = cat, !.key = key, !.ids = ids]
selectAllProviders(s0) ==
    LET s == ClosedFirst(s0)
    IN  IF pinnedTo(s, Row("all-providers", "all-providers")) THEN Unpin(s)
        ELSE [Pinned(s, "all-providers", "all-providers", "providers",
                     {p \in s.peers : Provider[p] # None}) EXCEPT !.ids = {}]
SelectInsight(s0, kind, e, key, list, ids) ==
    LET s == ClosedFirst(s0)
    IN  IF pinnedTo(s, Row(kind, kind)) THEN NoInsight(Unpin(s))
        ELSE Show([Pinned(s, kind, key, list, ids)
                      EXCEPT !.ids = ids, !.insight = [prov |-> e, type |-> kind],
                             !.rect = @ \/ s.focused], RankedPeers(s, kind, e))
selectFastestProviders(s, e) == SelectInsight(s, "insight-fastest", e, "fastest", "ranks", {})
selectDataProviders(s, e) == SelectInsight(s, "insight-data", e, "bytes", "ranks", {})
buildStablePeersHtml(s, e) == RankedPeers(s, "insight-stable", e)
selectStablePeers(s, e) ==
    SelectInsight(s, "insight-stable", e, e, "peers", buildStablePeersHtml(s, e))
ClickLink(s, link, e) ==
    CASE link = "all-providers" -> selectAllProviders(s)
      [] link = "insight-fastest" -> selectFastestProviders(s, e)
      [] link = "insight-data" -> selectDataProviders(s, e)
      [] link = "insight-stable" -> selectStablePeers(s, e)

(***************************************************************************)
(* Previews: what a pointer entering a row shows while it stays            *)
(***************************************************************************)
Undisturbed(s) == s.pin = None /\ ~s.popup
previewRow(s, row) == IF Undisturbed(s) THEN Show(hideSubSub(s), RowPeers(s, row)) ELSE s
previewConnectionProvider(s, row) == previewRow(s, row)
previewOutboundTypeGroup(s, row) == previewRow(s, row)
previewConnectionDirection(s, row) == previewRow(s, row)
previewCountry(s, e) == IF Undisturbed(s) THEN Show(s, findActiveSegmentOrGroup(s, e)) ELSE s
previewInsight(s, kind, e) ==
    IF Undisturbed(s) THEN [Show(hideSubSub(s), RankedPeers(s, kind, e)) EXCEPT !.rect = @ \/ s.focused]
                ELSE s
previewFastestProviders(s, e) == previewInsight(s, "insight-fastest", e)
previewStablePeers(s, e) == previewInsight(s, "insight-stable", e)
previewDataProviders(s, e) == previewInsight(s, "insight-data", e)
previewNavigationProvider(s, e) == IF Undisturbed(s) THEN Show(s, getPeerIdsForAnyAs(s, e)) ELSE s

leaveNavigation(s) == IF Undisturbed(s) THEN RestoreSummary(s) ELSE s
leaveInteractiveRow(s) == IF Undisturbed(s) THEN RestoreProvider(hideSub(s)) ELSE s
leaveSummaryRow(s) == IF Undisturbed(s) THEN RestoreSummary(hideSub(s)) ELSE s
leaveInsight(s) == IF Undisturbed(s) THEN RestoreSummary([hideSub(s) EXCEPT !.rect = FALSE]) ELSE s
restoreCountryPreview(s) == IF Undisturbed(s) /\ s.summary THEN Show(s, All) ELSE s

\* Rows of the pinned list: of its peers' providers, or of the providers that rank
Ranks(s) == s.pin # None /\ s.pin.list = "ranks"
aggregateProvidersForPeers(P) == Groups(P, Provider)
buildProviderListHtml(s) == aggregateProvidersForPeers(s.pin.ids)
buildFastestProvHtml(s) == Ranked(s)
buildDataProviderHtml(s) == Ranked(s)
ListRows(s) ==
    CASE s.pin = None \/ s.pin.list = "peers" -> {}
      [] s.pin # None /\ s.pin.list = "providers" -> buildProviderListHtml(s)
      [] Ranks(s) /\ s.pin.row.cat = "insight-data" -> buildDataProviderHtml(s)
      [] OTHER -> buildFastestProvHtml(s)
ListPeers(s, e) == IF Ranks(s) THEN RankedPeers(s, s.pin.row.cat, e) ELSE With(s.pin.ids, Provider, e)
MoveRect(s, e) ==
    IF s.focused /\ s.rect
    THEN [s EXCEPT !.insight = [prov |-> e,
                                type |-> IF s.insight = None THEN None ELSE s.insight.type]]
    ELSE s
previewNestedProvider(s, e) ==
    IF s.popup \/ s.pin2 THEN s ELSE Show(s, ListPeers(s, e))
leaveNested(s) == IF s.popup \/ s.pin2 THEN s ELSE RestoreSummary(s)
selectNestedProvider(s, e) == Show(pinSecondary(s, e, ListPeers(s, e)), ListPeers(s, e))
previewRankedProvider(s, e) ==
    IF s.popup \/ s.pin2 THEN s ELSE MoveRect(Show(s, ListPeers(s, e)), e)
leaveRanked(s) == IF s.popup \/ s.pin2 \/ s.rect THEN s ELSE RestoreSummary(s)
selectRankedProvider(s, e) == MoveRect(selectNestedProvider(s, e), e)
previewFastestProvider(s, e) == previewRankedProvider(s, e)
previewDataProvider(s, e) == previewRankedProvider(s, e)
selectFastestProvider(s, e) == selectRankedProvider(s, e)
selectDataProvider(s, e) == selectRankedProvider(s, e)

\* Peer rows of the pinned list, and of the second list beside it
buildPeerSummaryHtml(s) == IF s.pin # None /\ s.pin.list = "peers" THEN s.pin.ids ELSE {}
buildPeerListHtmlForSubSub(s) == IF s.pin2 THEN s.second.ids ELSE {}
PeerRows(s) == buildPeerSummaryHtml(s) \cup buildPeerListHtmlForSubSub(s)
previewTooltipPeer(s, p) ==
    LET h == [s EXCEPT !.hovered = p]
    IN  IF s.summary \/ s.sel # None THEN Show(h, {p}) ELSE h
restoreTooltipPeerPreview(s) ==
    LET h == [s EXCEPT !.hovered = None]
    IN  IF s.popup /\ s.peer # None
        THEN IF s.peer \in s.peers THEN Show(h, {s.peer}) ELSE h
        ELSE IF s.summary THEN RestoreSummary(h)
        ELSE IF s.sel # None THEN RestoreProvider(h) ELSE h
selectPrimaryTooltipPeer(s, p) == openPeerDetailPanel(s, p, None)
selectSecondaryTooltipPeer(s, p) == openPeerDetailPanel(s, p, None)

\* The list of the Others segment
OthersItems(s) ==
    IF s.others THEN Groups(s.peers, lensOf(s)) \ TopGroups(s.peers, lensOf(s)) ELSE {}
previewOthersItem(s, e) == Show(s, findActiveSegmentOrGroup(s, e))
leaveOthersItem(s) ==
    IF s.sel = "Others" THEN Show(s, findActiveSegmentOrGroup(s, "Others"))
    ELSE IF s.sel # None /\ s.sel \notin Segments(s) /\ findActiveSegmentOrGroup(s, s.sel) # {}
    THEN Show(s, getPeerIdsForAnyAs(s, s.sel))
    ELSE Show(s, All)
backToOthersList(s) ==
    LET ids == findActiveSegmentOrGroup(s, "Others")
    IN  IF ids = {} THEN s
        ELSE [Show(openPanel([hideSub(NoFilter(s)) EXCEPT !.sel = "Others"], "Others"), ids)
                EXCEPT !.others = TRUE]
clickOthersItem(s, e) ==
    IF s.sel = e THEN backToOthersList(s)
    ELSE IF s.lens = "country"
    THEN Show(openPanel([s EXCEPT !.sel = e], e), findActiveSegmentOrGroup(s, e))
    ELSE navigateToProvider(s, e)

(***************************************************************************)
(* donut-input.js: segments and Escape                                     *)
(***************************************************************************)
onSegmentLeave(s) ==
    IF ~Undisturbed(s) THEN s
    ELSE IF s.summary /\ s.ids # None /\ s.sel = None THEN RestoreSummary(s)
    ELSE IF s.sel = None THEN Show(s, All) ELSE s

onSegmentClick(s, e) ==
    LET c == [ClosedFirst(s) EXCEPT !.focused = TRUE]
        d == IF c.summary THEN deselectSummary(c) ELSE c
        off == hideSub(NoFilter([d EXCEPT !.others = FALSE]))
        on == [off EXCEPT !.sel = e]
        ids == findActiveSegmentOrGroup(s, e)
    IN  IF d.sel = e
        THEN selectSummary(Show(closePanel([off EXCEPT !.sel = None]), All))
        ELSE clearPeerSelection(
                IF e \notin Segments(s) THEN on
                ELSE [Show(openPanel(on, e), ids) EXCEPT !.others = (e = "Others")])

Open(s) == s.popup \/ s.pin # None \/ s.pin2 \/ s.net # None \/ s.summary
            \/ s.sel # None \/ s.focused
onEscape(s) ==
    CASE s.popup -> closePeerPopup(s)
      [] ~s.popup /\ s.pin2 ->
            IF s.summary THEN Show(hideSubSub(s), IF s.ids # None THEN s.ids ELSE All)
                         ELSE hideSubSub(s)
      [] ~s.popup /\ ~s.pin2 /\ s.pin # None ->
            IF s.summary THEN summaryClearSummarySubFilter(hideSub(s))
            ELSE IF s.sel # None THEN summaryClearSubFilter(hideSub(s)) ELSE hideSub(s)
      [] ~s.popup /\ ~s.pin2 /\ s.pin = None /\ s.net # None -> LeaveNetwork(s)
      [] OTHER ->
            IF s.summary THEN IF s.focused THEN exitFocusedMode(s) ELSE deselectSummary(s)
            ELSE IF s.sel # None THEN deselect(s)
            ELSE exitFocusedMode(s)

\* The close button of a pinned list: Escapes until the list is gone, three at most
dismissTooltip(s, secondary) ==
    LET gone(t) == IF secondary THEN ~t.pin2 ELSE t.pin = None
        one == onEscape(s)
        two == IF gone(one) THEN one ELSE onEscape(one)
    IN  IF gone(two) THEN two ELSE onEscape(two)
dismissPanelTooltips(s) ==
    LET t == hideSub(s)
    IN  IF s.pin = None /\ ~s.pin2 THEN s
        ELSE IF s.summary THEN Show(NoFilter(t), All)
        ELSE IF s.sel # None THEN summaryClearSubFilter(t) ELSE t
closeDetailPanel(s) == IF s.focused THEN exitFocusedMode(s) ELSE deselect(s)

(***************************************************************************)
(* map/navigation.js and the map controller                                *)
(***************************************************************************)
TableRows(s) == s.peers \cap (IF s.table = All THEN Peers ELSE s.table)
                         \cap (IF s.mapf = None THEN Peers ELSE s.mapf)
AtSite(s) == Site \cap s.peers
selectPeer(s, p, group) ==
    openPeerDetailPanel([s EXCEPT !.mapf = {p}, !.mapGroup = FALSE], p, group)
selectGroup(s) ==
    [closePeerPopup(s) EXCEPT !.mapf = AtSite(s), !.mapGroup = TRUE]
clickMapPeer(s, p) ==
    IF s.popup /\ s.peer = p THEN closePeerPopup(clearPeerSelection(s)) ELSE selectPeer(s, p, None)
clickMapBlank(s) == onMapClick(clearPeerSelection(s))
networkChip(s, net) == openNetworkPanel(enterFocusedMode(s), net)
clearSelectionChip(s) ==
    Show(hideSub(NoFilter([deselect(s) EXCEPT !.sel = None, !.summary = FALSE, !.net = None,
                                              !.hovered = None, !.insight = None])), All)
clearMapChip(s) == clearPeerSelection(ClosedFirst(s))
\* entering the private networks leaves the public exploration closed
enterPrivateNetMode(s) == clearPeerSelection(exitFocusedMode(deselect(closePeerPopup(s))))
\* the popup of one peer of a group, and back to the group's own list
openMultiPeerPopup(s) == [s EXCEPT !.popup = TRUE, !.peer = None]

(***************************************************************************)
(* A poll: the peers are replaced, then the views are reconciled           *)
(***************************************************************************)
\* peers/detail.js update
updateDetail(s) ==
    LET g == IF s.group = None THEN s ELSE [s EXCEPT !.group = AtSite(s)]
        gone == IF s.peer # None THEN s.peer \notin s.peers
                ELSE s.popup /\ g.group = {}
    IN  IF gone THEN closePeerPopup(g) ELSE g

\* Mutant: the filter keeps the peers it was applied to
ReconcileKeepsFilter(s) == s
reconcileFilter(s) ==
    LET ids == Filtered(s, ScopePeers(s))
    IN  [s EXCEPT !.ids = IF s.cat # None THEN ids ELSE None,
                  !.second = IF @ = None THEN None
                             ELSE [@ EXCEPT !.ids = With(ids, Provider, s.second.prov)]]
reconcilePanel(s) ==
    IF s.net # None THEN [s EXCEPT !.panel = [kind |-> "network", key |-> s.net]]
    ELSE IF s.sel = None THEN renderSummary(s)
    ELSE IF ScopePeers(s) # {} THEN renderPanel(s, s.sel)
    ELSE [s EXCEPT !.panel = [kind |-> "empty", key |-> s.sel]]
refreshPinned(s) ==
    IF s.pin = None THEN s
    ELSE LET live == s.pin.live /\ s.pin.row \in PanelRows(s) \cup {Row(l, l) : l \in Links(s)}
             list == CASE s.cat \in {"summary", "conn-others"} -> "providers"
                       [] s.cat \in {"insight-fastest", "insight-data"} -> "ranks"
                       [] OTHER -> "peers"
         IN  [s EXCEPT !.pin = IF s.cat = None THEN [@ EXCEPT !.live = live]
                               ELSE [@ EXCEPT !.live = live, !.list = list,
                                              !.ids = IF list = "ranks" THEN {} ELSE s.ids]]
reconcileTable(s) ==
    LET scope == Filtered(s, ScopePeers(s))
        picked == IF s.second # None THEN s.second.ids
                  ELSE IF s.cat \in Insights /\ s.insight # None
                  THEN With(scope, Provider, s.insight.prov) ELSE scope
        peer == s.peer # None /\ s.peer \in s.peers
        ids == IF peer /\ s.popup THEN {s.peer}
               ELSE IF s.hovered \in picked THEN {s.hovered} ELSE picked
        filtering == s.cat # None \/ s.sel # None \/ s.net # None \/ peer \/ s.second # None
        shown == Show(s, IF filtering THEN ids ELSE All)
    IN  IF (peer /\ s.popup) \/ s.insight = None THEN shown
        ELSE [shown EXCEPT !.rect = /\ s.insight.type # None /\ Ranked(s) # {}
                                    /\ \/ s.insight.type = "insight-stable"
                                       \/ s.insight.prov \in Ranked(s)]
refreshSelectionViews(s) ==
    IF s.sel = None /\ ~s.summary /\ s.net = None THEN s
    ELSE reconcileTable(refreshPinned(reconcilePanel(reconcileFilter(s))))
\* reconcile of the map runs first, on the new peers
reconcileMap(s, P) ==
    [s EXCEPT !.peers = P, !.mapf = IF s.mapGroup THEN Site \cap P ELSE @]
update(s, P) == refreshSelectionViews(updateDetail(reconcileMap(s, P)))

-----------------------------------------------------------------------------
(***************************************************************************)
(* The machine: what the user does, and polls                              *)
(***************************************************************************)
DistributionInit ==
    /\ over = None
    /\ \E P \in Snapshots : ui =
        [lens |-> "provider", peers |-> P, focused |-> FALSE, summary |-> FALSE,
         sel |-> None, net |-> None, cat |-> None, key |-> None, ids |-> None,
         pin |-> None, pin2 |-> FALSE, second |-> None, insight |-> None, rect |-> FALSE,
         popup |-> FALSE, peer |-> None, group |-> None, hovered |-> None,
         others |-> FALSE, panel |-> None, table |-> All, mapf |-> None, mapGroup |-> FALSE]

\* An element the pointer is on survives a step unless the step renders its container anew
Kept(s, t) ==
    CASE over \in {"row", "panelrow", "country", "insight", "nav"} -> s.panel = t.panel
      [] over \in {"nested", "rank"} -> s.pin = t.pin
      [] over = "peer" -> s.pin = t.pin /\ s.pin2 = t.pin2
      [] over = "item" -> t.others
      [] OTHER -> TRUE
Do(kinds, s) ==
    /\ over \in {None} \cup kinds
    /\ ui' = s /\ over' = IF Kept(ui, s) THEN over ELSE None
RowKind(row) == CASE row.cat = "panel" -> "row" [] row.cat = "country" -> "country"
                  [] OTHER -> "panelrow"

\* The elements a pointer may enter, with the preview each one's handler makes
Hover(kind, S, preview(_)) ==
    IF kind \in Pointer THEN {[kind |-> kind, to |-> preview(x)] : x \in S} ELSE {}
RowsOf(s, cats) == {row \in PanelRows(s) : row.cat \in cats}
summaryAttachCountrySummaryRowHandlers(s) ==
    Hover("country", RowsOf(s, {"country"}), LAMBDA row : previewCountry(s, row.key))
summaryAttachInteractiveRowHandlers(s) ==
    Hover("row", RowsOf(s, {"panel"}), LAMBDA row : previewRow(s, row))
summaryAttachSummaryRowHandlers(s) ==
    Hover("panelrow", RowsOf(s, {"summary"}), LAMBDA row : previewRow(s, row))
summaryAttachGridHandlers(s) ==
    LET on(cat, preview(_)) == Hover("panelrow", RowsOf(s, {cat}), preview)
    IN  on("conn-provider", LAMBDA row : previewConnectionProvider(s, row))
        \cup on("conn-out", LAMBDA row : previewOutboundTypeGroup(s, row))
        \cup on("conn-in", LAMBDA row : previewConnectionDirection(s, row))
        \cup on("conn-others", LAMBDA row : previewRow(s, row))
insightAttachSummaryLinkHandlers(s) ==
    LET on(link, preview(_)) ==
            Hover("insight", IF link \in Links(s) THEN Ranked(s) ELSE {}, preview)
    IN  on("insight-fastest", LAMBDA e : previewFastestProviders(s, e))
        \cup on("insight-stable", LAMBDA e : previewStablePeers(s, e))
        \cup on("insight-data", LAMBDA e : previewDataProviders(s, e))
        \cup Hover("nav", IF Links(s) = {} THEN {} ELSE Ranked(s),
                   LAMBDA e : previewNavigationProvider(s, e))
RowsIf(s, cats) == IF Ranks(s) /\ s.cat \in cats THEN ListRows(s) ELSE {}
insightAttachFastestProvRowHandlers(s) ==
    Hover("rank", RowsIf(s, {"insight-fastest"}), LAMBDA e : previewFastestProvider(s, e))
insightAttachDataProviderRowHandlers(s) ==
    Hover("rank", RowsIf(s, {"insight-data"}), LAMBDA e : previewDataProvider(s, e))
summaryAttachProviderClickHandlers(s) ==
    Hover("nested", IF Ranks(s) THEN {} ELSE ListRows(s), LAMBDA e : previewNestedProvider(s, e))
tooltipAttachPeerRowHoverHandlers(s) ==
    Hover("peer", PeerRows(s), LAMBDA p : previewTooltipPeer(s, p))
showOthersListInDonut(s) == Hover("item", OthersItems(s), LAMBDA e : previewOthersItem(s, e))
bindSegmentEvents(s) == Hover("segment", Segments(s), LAMBDA e : s)
Elements(s) == UNION {
    summaryAttachCountrySummaryRowHandlers(s), summaryAttachInteractiveRowHandlers(s),
    summaryAttachSummaryRowHandlers(s), summaryAttachGridHandlers(s),
    insightAttachSummaryLinkHandlers(s), insightAttachFastestProvRowHandlers(s),
    insightAttachDataProviderRowHandlers(s), summaryAttachProviderClickHandlers(s),
    tooltipAttachPeerRowHoverHandlers(s), showOthersListInDonut(s), bindSegmentEvents(s)}
PointerEnters == over = None /\ \E x \in Elements(ui) : over' = x.kind /\ ui' = x.to
left(s) ==
    CASE over = "row" -> leaveInteractiveRow(s)  [] over = "panelrow" -> leaveSummaryRow(s)
      [] over = "country" -> restoreCountryPreview(s) [] over = "insight" -> leaveInsight(s)
      [] over = "nav" -> leaveNavigation(s)      [] over = "nested" -> leaveNested(s)
      [] over = "rank" -> leaveRanked(s)         [] over = "peer" -> restoreTooltipPeerPreview(s)
      [] over = "item" -> leaveOthersItem(s)     [] over = "segment" -> onSegmentLeave(s)
PointerLeaves == over # None /\ over' = None /\ ui' = left(ui)

PressRow == \E row \in PanelRows(ui) : Do({RowKind(row)}, ClickRow(ui, row))
PressLink == \E l \in Links(ui), e \in Ranked(ui) : Do({"insight"}, ClickLink(ui, l, e))
PressNav ==
    \/ \E e \in Ranked(ui) : Links(ui) # {} /\ Do({"nav"}, navigateToProvider(ui, e))
    \/ \E e \in ListRows(ui) : Do({"nested", "rank"}, navigateToProvider(hideSub(ui), e))
PressListRow == \E e \in ListRows(ui) :
    Do({"rank", "nested"}, CASE ~Ranks(ui) -> selectNestedProvider(ui, e)
                             [] Ranks(ui) /\ ui.cat = "insight-data" -> selectDataProvider(ui, e)
                             [] OTHER -> selectFastestProvider(ui, e))
PressPeer == \E p \in PeerRows(ui) \cap ui.peers :
    Do({"peer"}, IF ui.pin2 THEN selectSecondaryTooltipPeer(ui, p)
                            ELSE selectPrimaryTooltipPeer(ui, p))
PressItem == \E e \in OthersItems(ui) : Do({"item"}, clickOthersItem(ui, e))
PressSegment == \E e \in Segments(ui) : Do({"segment"}, onSegmentClick(ui, e))

Escape == Open(ui) /\ Do({over}, onEscape(ui))
PressListClose == \E secondary \in BOOLEAN :
    /\ IF secondary THEN ui.pin2 ELSE ui.pin # None
    /\ Do({}, dismissTooltip(ui, secondary))
PressPanelBlank == ui.panel # None /\ Do({}, dismissPanelTooltips(ui))
PressPanelClose == ui.panel # None /\ Do({}, closeDetailPanel(ui))
PressOverview == Do({}, IF ui.focused THEN navigateBack(ui) ELSE enterFocusedMode(ui))
PressFocusedClose == ui.focused /\ Do({}, exitFocusedMode(ui))
PressLens == \E lens \in {"provider", "country"} : Do({}, setDistributionLens(ui, lens))
PressNetwork == \E net \in Keys(Network) : Do({}, networkChip(ui, net))
PressPrivate == Do({}, enterPrivateNetMode(ui))
PressMap == \/ Do({}, clickMapBlank(ui))
            \/ Cardinality(AtSite(ui)) > 1 /\ Do({}, selectGroup(ui))
            \/ \E p \in ui.peers \ Site : Do({}, clickMapPeer(ui, p))
PressTablePeer == \E p \in TableRows(ui) : Do({}, selectPeer(ui, p, None))
PressGroupPeer == \E p \in AtSite(ui) :
    \/ ui.mapGroup /\ Do({}, selectPeer(ui, p, AtSite(ui)))
    \/ ui.popup /\ ui.peer = None /\ Do({}, openPeerDetailPanel(ui, p, ui.group))
PressGroupClose == ui.mapGroup /\ Do({}, clearPeerSelection(ui))
PressPopup == /\ ui.popup
              /\ \/ Do({}, closePeerPopup(ui))
                 \/ ui.peer # None /\ ui.group # None /\ Do({}, openMultiPeerPopup(ui))
PressClearFilter ==
    \/ ui.table # All /\ Do({}, clearSelectionChip(ui))
    \/ ui.mapf # None /\ Do({}, clearMapChip(ui))

\* A poll renders the panel and the lists anew: no leave comes from a row it replaced
Refresh == \E P \in Snapshots :
    /\ ui' = update(ui, P)
    /\ over' \in IF over \in {None, "segment", "item"} THEN {over} ELSE {over, None}

DistributionNext ==
    \/ PointerEnters \/ PointerLeaves \/ PressRow \/ PressLink \/ PressNav \/ PressListRow
    \/ PressPeer \/ PressItem \/ PressSegment \/ Escape \/ PressListClose \/ PressPanelBlank \/ PressPanelClose
    \/ PressOverview \/ PressFocusedClose \/ PressLens \/ PressNetwork \/ PressPrivate
    \/ PressMap \/ PressTablePeer \/ PressGroupPeer \/ PressGroupClose \/ PressPopup
    \/ PressClearFilter \/ Refresh
DistributionSpec == DistributionInit /\ [][DistributionNext]_distributionVars

-----------------------------------------------------------------------------
\* Layers hang from one another: the second list from the first, a network, a peer's popup
\* from the exploration, a filter from the row that named it.
\* A handler that takes one away without what hangs from it leaves a layer no key closes.
LayersNest ==
    /\ ui.pin2 => ui.pin # None
    /\ ui.pin2 <=> ui.second # None
    /\ ui.ids # None <=> ui.cat # None
    /\ ui.popup \/ ui.net # None => ui.focused
    /\ ~Open(ui) => ui.panel = None /\ ~ui.others

\* Where the user is: the layers open and what they are open on.
Place(s) == <<s.lens, s.focused, s.summary, s.sel, s.net, s.cat, s.key, s.pin2, s.insight,
              s.others, s.pin = None>>

\* A poll reconciles the views and navigates nowhere, one poll is enough, and it leaves
\* nobody who is gone in what is explored: polling the same peers again changes nothing,
\* and the table's filter lists peers that are there.
PollingSettles == \A P \in Snapshots : LET s == update(ui, P) IN
    /\ Place(s) = Place(ui)
    /\ ui.popup /\ (IF ui.peer = None THEN Site \cap P # {} ELSE ui.peer \in P) => s.popup
    /\ update(s, P) = s
    /\ ui.summary \/ ui.sel # None \/ ui.net # None => (s.table = All \/ s.table \subseteq P)

\* Escape closes the deepest open layer (docs/dashboard.md): every press leaves strictly
\* less open, so a user gets out of any state by pressing it often enough.
Depth(s) ==
    LET n(b, w) == IF b THEN w ELSE 0
    IN  n(s.popup, 64) + n(s.pin2, 32) + n(s.pin # None, 16) + n(s.net # None, 8)
        + n(s.summary, 4) + n(s.sel # None, 2) + n(s.focused, 1)
EscapeDescends == [][Escape => Depth(ui') < Depth(ui)]_distributionVars

=============================================================================
