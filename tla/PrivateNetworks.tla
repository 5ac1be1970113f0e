-------------------------- MODULE PrivateNetworks --------------------------
(***************************************************************************)
(* The view of Tor, I2P and CJDNS peers (src/static/js/peers/private-*.js,  *)
(* its popup in peers/detail.js and its group lists in map/navigation.js):  *)
(* a mode of the map with a donut, a panel whose rows pin a list of peers,  *)
(* a rectangle for an insight, a popup for the selected peer, and timers    *)
(* that open and hide all of it while polls replace the peers underneath.   *)
(*                                                                          *)
(* As in Distribution, ui is the state of the controllers and every handler *)
(* is an operator from a ui to the next one, composed as the code composes  *)
(* its calls.  fresh collects the containers a step renders anew, so that   *)
(* an element the pointer is on (over) is lost with its container.          *)
(*                                                                          *)
(* Abstracted: zoom, colours, line geometry, centre text, focus, search and *)
(* the network badges.  Time: a timer may fire at any moment until it is    *)
(* replaced, in the order of the delays one transition gives its own.  The  *)
(* class a frame adds is added at once.  mapFilterPeerIds and groupedNodes  *)
(* hold the same peers in this mode and are one field, group; pinnedNode is *)
(* cleared by every step that sets it and is left out.                      *)
(***************************************************************************)
EXTENDS FiniteSets, Integers

CONSTANTS Peers,      \* peer ids; Core counts them from 0
          Snapshots,  \* the peer sets a poll may return
          Private,    \* the private networks
          Network, Software, Site,   \* functions on Peers
          Rank,       \* of each insight, a function on Peers; 0 never leads
          Pointer,    \* the kinds of elements the pointer may rest on
          All, None

\* The rows a list may be pinned to, and the popups
Labels == [kind : {"software", "network"},
           key : {Software[p] : p \in Peers} \cup {Network[p] : p \in Peers}]
Popups == [peer : Peers, up : BOOLEAN]

ASSUME PrivateNetworksAssumption ==
    /\ All # None
    /\ Peers \subseteq Nat
    /\ Snapshots \subseteq SUBSET Peers
    /\ \A type \in DOMAIN Rank : Rank[type] \in [Peers -> Nat]
    \* null is no row, no popup and no set of peers
    /\ None \notin Labels /\ None \notin Popups /\ \A P \in SUBSET Peers : None # P

VARIABLES ui, over
networksVars == <<ui, over>>

(***************************************************************************)
(* Peers of the view, rows of the panel                                    *)
(***************************************************************************)
scope(P, net) == {p \in P : Network[p] \in Private /\ net \in {None, Network[p]}}
privateScope(s) == scope(s.peers, s.selNet)
resolve(P, f) == {p \in P : f.key = IF f.kind = "network" THEN Network[p] ELSE Software[p]}

\* the peer an insight names: ties fall to the first of the snapshot
insights(P, type) ==
    LET leads(p) == Rank[type][p] > 0 /\ \A q \in P : \/ Rank[type][q] < Rank[type][p]
                                                      \/ Rank[type][q] = Rank[type][p] /\ p <= q
    IN  {p \in P : leads(p)}

\* the rows of the panel as it was last rendered
PanelPeers(s) == scope(s.panel.peers, s.panel.net)
Rows(s) ==
    {[kind |-> "software", key |-> Software[p]] : p \in PanelPeers(s)} \cup
    IF s.panel.net # None THEN {}
    ELSE {[kind |-> "network", key |-> Network[p]] : p \in PanelPeers(s)}
\* a row of peer 0 is there, but its handlers take the id for a missing one
InsightRows(s) ==
    IF s.panel.net # None THEN {}
    ELSE UNION {{[type |-> t, peer |-> p] : p \in insights(PanelPeers(s), t) \ {0}} :
                    t \in DOMAIN Rank}

\* the donut can be clicked while it is shown, and while it fades out
DonutThere(s) == s.mode \/ "donut" \in s.hides
Segments(s) == {Network[p] : p \in scope(s.drawn, None)}
MiniThere(s) == ~s.mode /\ scope(s.peers, None) # {}
AtSite(s, x) == {p \in s.peers : Site[p] = x}

\* what the table lists: in this mode no group of the map narrows it
TableRows(s) ==
    IF ~s.mode THEN s.peers
    ELSE IF s.filter = None THEN privateScope(s) ELSE resolve(privateScope(s), s.filter)

\* the peers the donut draws lines to; peer 0 is no line's peer
LinesTo(s) ==
    CASE s.mode /\ s.preview # None -> s.preview \cap s.peers
      [] s.mode /\ s.preview = None /\ s.line \notin {None, 0} -> {s.line} \cap s.peers
      [] s.mode /\ s.preview = None /\ s.line \in {None, 0} ->
            scope(s.peers, IF s.hov # None THEN s.hov ELSE s.selNet)
      [] ~s.mode /\ s.mini = None -> {}
      [] OTHER -> scope(s.peers, IF s.mini = All THEN None ELSE s.mini)

(***************************************************************************)
(* Pieces every handler is made of                                         *)
(***************************************************************************)
Fresh(s, container) == [s EXCEPT !.fresh = @ \cup {container}]
hideTooltip(s) == [s EXCEPT !.list = FALSE]
clearMapDotFilter(s) == [s EXCEPT !.group = None, !.gsel = None]
closeGroup(s) == clearMapDotFilter(hideTooltip([s EXCEPT !.high = None]))
popupClose(s) == [s EXCEPT !.popup = None]

hidePnSubTooltip(s) ==
    Fresh([s EXCEPT !.tip = None, !.pinned = FALSE, !.src = None, !.filter = None,
                    !.preview = None, !.saved = None], "tip")
showPnSubTooltip(s, ids) == Fresh([s EXCEPT !.tip = ids], "tip")
pinPnSubTooltip(s, row) == [s EXCEPT !.pinned = TRUE, !.src = row, !.filter = row]

renderPnDonut(s) == Fresh([s EXCEPT !.drawn = s.peers], "donut")
showPnInsightRect(s) == [s EXCEPT !.rect = TRUE]
hidePnInsightRect(s) == [s EXCEPT !.rect = FALSE]
clearPnInsightState(s) ==
    renderPnDonut([s EXCEPT !.ins = None, !.line = None, !.sel = None, !.preview = None])
dismissInsight(s) == IF s.rect THEN clearPnInsightState(hidePnInsightRect(s)) ELSE s

\* innerHTML of the panel is replaced: the row that pinned the list is gone from it
updatePanel(s, net) ==
    Fresh([s EXCEPT !.panel.net = net, !.panel.peers = s.peers, !.src = None], "panel")
\* Mutant: opening the panel does not replace the transition that hides it
openBeside(s) == [s EXCEPT !.panel.shown = TRUE, !.hidden = FALSE]
openPanel(s) == [s EXCEPT !.panel.shown = TRUE, !.hidden = FALSE, !.hides = @ \ {"panel"}]
openPnDetailPanel(s, net) == updatePanel(openPanel(s), net)
openPnOverviewPanel(s) == updatePanel(openPanel([s EXCEPT !.selNet = None]), None)
closePnDetailPanel(s) ==
    [hidePnSubTooltip(s) EXCEPT !.panel.shown = FALSE, !.hides = @ \cup {"panel"}]

\* Mutant: the pinned list keeps the peers it was pinned with
refreshStale(s) == s
refreshPinnedPreview(s) ==
    IF ~s.pinned \/ s.filter = None THEN s
    ELSE LET ids == resolve(privateScope(s), s.filter)
         IN  [showPnSubTooltip(s, ids) EXCEPT !.saved = None, !.preview = ids,
                !.src = IF s.filter \in Rows(s) THEN s.filter ELSE None]

-----------------------------------------------------------------------------
(***************************************************************************)
(* private-network-controls.js: the mode, its peer, its networks           *)
(***************************************************************************)
refreshInsight(s) ==
    IF s.ins = None THEN s
    ELSE LET t == [s EXCEPT !.line = s.ins.peer, !.preview = {s.ins.peer}]
         IN  IF s.ins.peer \in scope(s.peers, None) THEN showPnInsightRect(t)
             ELSE clearPnInsightState(hidePnInsightRect(t))
updatePrivateNetUI(s) ==
    IF ~s.mode THEN s
    ELSE LET d == renderPnDonut(s)
         IN  refreshPinnedPreview(refreshInsight(
                IF d.panel.shown THEN updatePanel(d, d.selNet) ELSE d))

\* the popup of peers/detail.js: it opens 350 ms after the peer is asked for
openPeer(s, p) == [s EXCEPT !.popup = [peer |-> p, up |-> FALSE]]
closePopup(s) ==
    updatePrivateNetUI([popupClose(s) EXCEPT !.sel = None, !.line = None, !.high = None])

selectPrivatePeer(s, p) ==
    IF p \notin s.peers THEN s
    ELSE LET at == hidePnSubTooltip(hideTooltip([s EXCEPT !.sel = p, !.line = p, !.high = p]))
             other == at.ins = None \/ at.ins.peer # p
         IN  updatePrivateNetUI(openPeer(IF other THEN dismissInsight(at) ELSE at, p))

enterPrivateNetMode(s, p, net) ==
    IF s.mode THEN (IF p = None THEN s ELSE selectPrivatePeer(s, p))
    ELSE LET view == hidePnSubTooltip(clearMapDotFilter(hideTooltip(
                        [s EXCEPT !.mode = TRUE, !.high = None, !.selNet = net])))
         IN  updatePrivateNetUI([view EXCEPT
                !.mini = None, !.hides = @ \ {"mode", "donut"},
                !.opens = IF net = None THEN All ELSE net, !.picks = p])
exitPrivateNetMode(s) ==
    IF ~s.mode THEN s
    ELSE LET view == hidePnSubTooltip(hidePnInsightRect(
                        [s EXCEPT !.mode = FALSE, !.sel = None, !.line = None, !.selNet = None,
                                  !.hov = None, !.ins = None]))
         IN  Fresh([closeGroup(popupClose(view)) EXCEPT
                !.opens = None, !.picks = None, !.panel.shown = FALSE,
                !.hides = @ \cup {"mode", "donut"}], "mini")

onPnSegmentClick(s, net) ==
    LET d == dismissInsight(s)
    IN  updatePrivateNetUI(
            IF d.selNet = net THEN closePnDetailPanel([d EXCEPT !.selNet = None])
            ELSE openPnDetailPanel([d EXCEPT !.selNet = net], net))
onPnSegmentHover(s, net) == IF s.selNet # None \/ s.sel # None THEN s ELSE [s EXCEPT !.hov = net]
onPnSegmentLeave(s) == IF s.selNet # None \/ s.sel # None THEN s ELSE [s EXCEPT !.hov = None]

clearPeerFromMap(s) ==
    LET t == hideTooltip([s EXCEPT !.sel = None, !.line = None, !.high = None])
    IN  updatePrivateNetUI(dismissInsight(hidePnSubTooltip(popupClose(t))))

\* map/controller.js: a network chip; a public one leaves the mode for Distribution
networkChip(s, net) ==
    IF net \notin Private THEN exitPrivateNetMode(s)
    ELSE IF ~s.mode THEN enterPrivateNetMode(s, None, net)
    ELSE updatePrivateNetUI(openPnDetailPanel([s EXCEPT !.selNet = net], net))
clearFilter(s, chip) ==
    CASE chip \in {"all", "private-mode"} -> closeGroup(exitPrivateNetMode(s))
      [] chip = "private-network" ->
            LET t == openPnOverviewPanel(hidePnSubTooltip([s EXCEPT !.selNet = None]))
            IN  [updatePrivateNetUI(t) EXCEPT !.filter = s.filter]
      [] chip = "private-filter" -> updatePrivateNetUI(hidePnSubTooltip(s))

\* map/controls.js: the donut's centre, the panel's back button, Escape
showPrivateOverview(s) ==
    LET t == IF s.sel = None THEN s
             ELSE popupClose([s EXCEPT !.sel = None, !.line = None, !.high = None])
    IN  updatePrivateNetUI(openPnOverviewPanel(t))
goBack(s) == updatePrivateNetUI(updatePanel(hidePnSubTooltip([s EXCEPT !.selNet = None]), None))
onEscape(s) ==
    IF s.popup # None /\ s.popup.up THEN closePopup(s)
    ELSE IF s.pinned THEN updatePrivateNetUI(hidePnSubTooltip(s))
    ELSE IF s.selNet # None THEN goBack(s)
    ELSE exitPrivateNetMode(s)

(***************************************************************************)
(* private-panel-controls.js: rows, insights, the pinned list              *)
(***************************************************************************)
showRow(s, row) ==
    LET ids == resolve(privateScope(s), row)
    IN  [showPnSubTooltip(s, ids \cap PanelPeers(s)) EXCEPT !.preview = ids]
enterRow(s, row) == IF s.pinned \/ s.ins # None THEN s ELSE showRow(s, row)
leaveRow(s) == IF s.pinned \/ s.ins # None THEN s ELSE hidePnSubTooltip(s)
clickRow(s, row) ==
    LET d == dismissInsight(s)
    IN  IF d.pinned /\ d.src = row THEN hidePnSubTooltip(d)
        ELSE pinPnSubTooltip(showRow(d, row), row)

enterInsight(s, i) ==
    IF s.ins # None \/ s.pinned \/ i.peer \notin s.peers THEN s
    ELSE [showPnInsightRect(s) EXCEPT !.preview = {i.peer}, !.line = i.peer]
leaveInsight(s) ==
    IF s.ins # None \/ s.pinned THEN s
    ELSE [hidePnInsightRect(s) EXCEPT !.preview = None, !.line = None]
clickInsight(s, i) ==
    IF s.ins = i THEN clearPnInsightState(hidePnInsightRect(s))
    ELSE IF i.peer \notin s.peers THEN s
    ELSE selectPrivatePeer([showPnInsightRect(s) EXCEPT !.ins = i, !.line = i.peer,
                                                        !.preview = {i.peer}], i.peer)

enterTipPeer(s, p) ==
    [s EXCEPT !.high = p, !.saved = IF @ = None THEN s.preview ELSE @, !.preview = {p}]
leaveTipPeer(s) == [s EXCEPT !.high = s.sel, !.preview = s.saved, !.saved = None]

(***************************************************************************)
(* A group of peers drawn at one place of the map                          *)
(***************************************************************************)
selectGroup(s, x) ==
    [s EXCEPT !.group = scope(AtSite(s, x), None), !.list = TRUE,
              !.gsel = IF @ = None THEN x ELSE @]
clickMap(s, x) ==
    LET group == scope(AtSite(s, x), None)
    IN  CASE Cardinality(group) > 1 -> {selectGroup(s, x)}
          [] Cardinality(group) = 1 -> {selectPrivatePeer(s, p) : p \in group}
          [] OTHER -> {clearPeerFromMap(s)}
clickMapPublic(s, x) ==
    IF AtSite(s, x) # {} /\ AtSite(s, x) = scope(AtSite(s, x), None)
    THEN {enterPrivateNetMode(s, p, None) : p \in AtSite(s, x)} ELSE {}
reconcile(s) ==
    IF s.gsel = None THEN s
    ELSE [s EXCEPT !.group = scope(AtSite(s, s.gsel), None), !.list = TRUE]

\* applyPeerSnapshot: the new peers, then every view in turn
replace(s, P) ==
    [s EXCEPT !.peers = P, !.high = IF @ \in P THEN @ ELSE None]
dropDeparted(s) ==
    IF s.sel = None \/ s.sel \in s.peers THEN s
    ELSE popupClose([s EXCEPT !.sel = None, !.line = None, !.high = None])
updatePopup(s) == IF s.popup # None /\ s.popup.peer \notin s.peers THEN closePopup(s) ELSE s
initialView(s) ==
    LET t == [s EXCEPT !.initial = FALSE]
    IN  IF s.initial /\ ~s.mode /\ s.peers # {} /\ s.peers = scope(s.peers, None)
        THEN enterPrivateNetMode(t, None, None) ELSE t
applyPeerSnapshot(s, P) ==
    Fresh(initialView(updatePrivateNetUI(updatePopup(reconcile(dropDeparted(replace(s, P)))))),
          "mini")

-----------------------------------------------------------------------------
(***************************************************************************)
(* The machine: what the user does, timers and polls                       *)
(***************************************************************************)
NetworksInit ==
    /\ over = None
    /\ ui = [mode |-> FALSE, peers |-> {}, drawn |-> {}, initial |-> TRUE, sel |-> None,
             line |-> None, popup |-> None, high |-> None, selNet |-> None, hov |-> None,
             mini |-> None, rect |-> FALSE, ins |-> None, tip |-> None, pinned |-> FALSE,
             src |-> None, filter |-> None, preview |-> None, saved |-> None,
             panel |-> [shown |-> FALSE, net |-> None, peers |-> {}], hidden |-> TRUE,
             hides |-> {}, opens |-> None, picks |-> None,
             group |-> None, gsel |-> None, list |-> FALSE, fresh |-> {}]

\* an element is lost with its container; the mini donut outlives its segments
Container(kind) ==
    CASE kind = "segment" -> "donut" [] kind \in {"row", "insight"} -> "panel"
      [] kind = "peer" -> "tip" [] kind = "mini segment" -> "mini" [] OTHER -> None
Step(s, at) ==
    /\ ui' = [s EXCEPT !.fresh = {}]
    /\ over' = CASE Container(at) \notin s.fresh -> at
                 [] Container(at) \in s.fresh /\ at = "mini segment" /\ MiniThere(s) -> "mini"
                 [] OTHER -> None
\* a click; the first one settles which view the page starts in
Do(s) == Step([s EXCEPT !.initial = FALSE], over)

\* The elements a pointer may enter, with what each one's handler makes of it
Hover(kind, S, enter(_)) ==
    IF kind \in Pointer THEN {[kind |-> kind, to |-> enter(x)] : x \in S} ELSE {}
If(b, S) == IF b THEN S ELSE {}
Elements(s) == UNION {
    Hover("segment", If(DonutThere(s), Segments(s)), LAMBDA net : onPnSegmentHover(s, net)),
    Hover("row", If(s.panel.shown, Rows(s)), LAMBDA row : enterRow(s, row)),
    Hover("insight", If(s.panel.shown, InsightRows(s)), LAMBDA i : enterInsight(s, i)),
    Hover("peer", If(s.pinned, s.tip), LAMBDA p : enterTipPeer(s, p)),
    Hover("mini", If(MiniThere(s), {All}), LAMBDA x : [s EXCEPT !.mini = All])}
\* a segment of the mini donut is entered from the donut around it
MiniSegments(s) == Hover("mini", If(MiniThere(s), {Network[p] : p \in scope(s.peers, None)}),
                         LAMBDA net : [s EXCEPT !.mini = net])
PointerEnters ==
    \/ over = None /\ \E x \in Elements(ui) : Step(x.to, x.kind)
    \/ over = "mini" /\ \E x \in MiniSegments(ui) : Step(x.to, "mini segment")
left(s) ==
    CASE over = "segment" -> onPnSegmentLeave(s) [] over = "row" -> leaveRow(s)
      [] over = "insight" -> leaveInsight(s)     [] over = "peer" -> leaveTipPeer(s)
      [] over = "mini" -> [s EXCEPT !.mini = None]
      [] over = "mini segment" -> [s EXCEPT !.mini = IF @ = None THEN None ELSE All]
PointerLeaves ==
    over # None /\ Step(left(ui), IF over = "mini segment" THEN "mini" ELSE None)

PressRow == \E row \in Rows(ui) : Do(clickRow(ui, row))
PressInsight == \E i \in InsightRows(ui) : Do(clickInsight(ui, i))
PressTipPeer == ui.pinned /\ \E p \in ui.tip : Do(selectPrivatePeer(ui, p))
\* its close button, or the panel around its rows
PressTipClose == ui.pinned /\ Do(hidePnSubTooltip(ui))
PressRectClose == ui.rect /\ Do(clearPnInsightState(hidePnInsightRect(ui)))
PressSegment == DonutThere(ui) /\ \E net \in Segments(ui) : Do(onPnSegmentClick(ui, net))
PressOverview == DonutThere(ui) /\ Do(showPrivateOverview(ui))
PressBack == ui.panel.shown /\ ui.panel.net # None /\ Do(goBack(ui))
PressMini == MiniThere(ui) /\ \E net \in {None} \cup {Network[p] : p \in scope(ui.peers, None)} :
    Do(enterPrivateNetMode([ui EXCEPT !.mini = None], None, net))
\* the exit and close buttons, a double click on the map, a zoom reset
PressExit == (ui.mode \/ ui.panel.shown \/ DonutThere(ui)) /\ Do(exitPrivateNetMode(ui))
PressChip == \E p \in Peers : Do(networkChip(ui, Network[p]))
PressClear == \E chip \in {"all", "private-mode", "private-network", "private-filter"} :
    /\ ui.mode
    /\ chip = "private-network" => ui.selNet # None
    /\ chip = "private-filter" => ui.filter # None
    /\ Do(clearFilter(ui, chip))
PressMap == \E x \in {Site[p] : p \in Peers} :
    \E s \in IF ui.mode THEN clickMap(ui, x) ELSE clickMapPublic(ui, x) : Do(s)
PressMapBlank == ui.mode /\ Do(clearPeerFromMap(ui))
PressGroupPeer == ui.list /\ \E p \in ui.group \cap ui.peers :
    Do(selectPrivatePeer(hideTooltip(ui), p))
PressGroupClose == ui.list /\ Do(closeGroup(ui))
PressTablePeer == \E p \in scope(TableRows(ui), None) : Do(enterPrivateNetMode(ui, p, None))
PressPopupClose == ui.popup # None /\ ui.popup.up /\ Do(closePopup(ui))
Escape == ui.mode /\ Do(onEscape(ui))

\* 200 ms after entering: the panel opens; 100 ms later the peer is selected
PanelOpens ==
    /\ ui.opens # None
    /\ LET s == [ui EXCEPT !.opens = None]
       IN  Step(IF ui.opens = All THEN openPnOverviewPanel(s) ELSE openPnDetailPanel(s, ui.opens),
                over)
PeerPicked ==
    /\ ui.picks # None /\ ui.opens = None
    /\ Step(selectPrivatePeer([ui EXCEPT !.picks = None], ui.picks), over)
PopupOpens ==
    /\ ui.popup # None /\ ~ui.popup.up
    /\ Step(IF ui.popup.peer \in ui.peers THEN [ui EXCEPT !.popup.up = TRUE] ELSE closePopup(ui),
            over)
\* 350 ms after the panel or the mode closes, 500 for the donut
PanelHides ==
    \E t \in ui.hides \cap {"panel", "mode"} :
        Step([ui EXCEPT !.hides = @ \ {t}, !.hidden = TRUE], over)
DonutHides ==
    /\ "donut" \in ui.hides /\ "mode" \notin ui.hides
    /\ Step([ui EXCEPT !.hides = @ \ {"donut"}], IF over = "segment" THEN None ELSE over)

Refresh == \E P \in Snapshots : Step(applyPeerSnapshot(ui, P), over)

NetworksNext ==
    \/ PointerEnters \/ PointerLeaves \/ PressRow \/ PressInsight \/ PressTipPeer
    \/ PressTipClose \/ PressRectClose \/ PressSegment \/ PressOverview
    \/ PressBack \/ PressMini \/ PressExit \/ PressChip \/ PressClear \/ PressMap
    \/ PressMapBlank \/ PressGroupPeer \/ PressGroupClose \/ PressTablePeer
    \/ PressPopupClose \/ Escape \/ PanelOpens \/ PeerPicked \/ PopupOpens \/ PanelHides
    \/ DonutHides \/ Refresh
NetworksSpec == NetworksInit /\ [][NetworksNext]_networksVars

-----------------------------------------------------------------------------
\* A timer of a transition that was replaced changes nothing: the panel that is open in
\* the mode is not hidden by an earlier close, and no timer opens it outside the mode.
TimersServeTheMode ==
    /\ ui.opens # None \/ ui.picks # None => ui.mode
    /\ ui.mode /\ ui.panel.shown /\ ui.opens = None => ~ui.hidden
    /\ ui.mode => ui.hides \cap {"mode", "donut"} = {}

\* One poll brings every view of the mode to the new peers: the panel shows the network
\* selected, the pinned list, its lines and the table agree, and nobody who is gone is left.
\* It navigates nowhere: the mode, the network, the filter and the pinned list stay, and of
\* what is selected only what is gone is dropped.
PollingSettles == \A P \in Snapshots : LET s == applyPeerSnapshot(ui, P) IN
    /\ s.mode => /\ s.panel.shown => s.panel.net = s.selNet /\ s.panel.peers = P
                 /\ s.pinned => s.tip = LinesTo(s) /\ s.tip = TableRows(s)
                 /\ s.popup # None => s.popup.peer \in P
                 /\ s.ins # None => s.ins.peer \in P /\ (s.pinned \/ s.preview = {s.ins.peer})
                 /\ applyPeerSnapshot(s, P) = s
    /\ s.mode = ui.mode \/ ui.initial
    /\ ~ui.initial => s.selNet = ui.selNet /\ s.filter = ui.filter /\ s.pinned = ui.pinned
    /\ ui.popup # None /\ ui.popup.peer \in P => s.popup = ui.popup
    /\ ui.sel # None /\ ui.sel \in P => s.sel = ui.sel

=============================================================================
