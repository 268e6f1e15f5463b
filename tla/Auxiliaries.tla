---------------------------- MODULE Auxiliaries ----------------------------
(* The auxiliary relays: which of them the hub has a device for, under what  *)
(* label, and where it heard of them.  Four sources report relays (the       *)
(* serial adapter's replies, the IAQ status, and the OneTouch pages that     *)
(* list and label them), a cache restores them after a restart, the panel's  *)
(* model says which can exist, and the operator may overrule all of it.      *)
(* They meet in the devices graph, whose devices are found by a stable id    *)
(* and refused by type and label.                                            *)
EXTENDS Integers, Sequences

CONSTANTS Aux,            \* the relays the sources report, of 0 .. 31
          Names,          \* the owner's own labels
          Models,         \* the panels a version page can show
          Legacy,         \* the devices an old cache can restore
          MaxReports      \* bound on the steps of a behaviour

VARIABLES graph,          \* the devices, in the order they were added
          model,          \* what the panel's version page said
          presence,       \* the operator's overrides
          listed,         \* history: relays the panel listed since the version page
          seen,           \* history: relays reported on the wire
          excused,        \* history: relays a prune or a refused Add left out
          reports

auxVars == <<graph, model, presence, listed, seen, excused, reports>>

-----------------------------------------------------------------------------
(* JandyAuxillaryIds: 0 is ExtraAux, and four banks follow.                  *)
NoAux == -1
Banks == <<"A", "B", "C", "D">>
FirstOf(bank) == CASE bank = "A" -> 1 [] bank = "B" -> 8 [] bank = "C" -> 16 [] bank = "D" -> 24
SizeOf(bank)  == IF bank = "A" THEN 7 ELSE 8

BankValueOffByOne(bank, n) ==
    IF n \in 1 .. SizeOf(bank) THEN 8 * (CHOOSE i \in 1 .. 4 : Banks[i] = bank) - 8 + n ELSE NoAux
BankValue(bank, n) == IF n \in 1 .. SizeOf(bank) THEN FirstOf(bank) + n - 1 ELSE NoAux

(* A text as the parser takes it apart: a relay's own name, or words.        *)
ParseAuxId(text) ==
    CASE Len(text) = 3       -> BankValue(text[2], text[3])
      [] text = <<"Extra">>  -> 0
      [] OTHER               -> NoAux

EnumName(a) ==
    IF a = 0 THEN <<"Extra">>
    ELSE LET bank == CHOOSE b \in {"A", "B", "C", "D"} : a \in FirstOf(b) .. FirstOf(b) + SizeOf(b) - 1
         IN  <<"Aux", bank, a - FirstOf(bank) + 1>>

(* The power centre of a relay, 0 for A; ExtraAux has none.                  *)
PowerCenterForAuxId(a) == CHOOSE c \in 0 .. 3 : a \in FirstOf(Banks[c + 1]) .. FirstOf(Banks[c + 1]) + SizeOf(Banks[c + 1]) - 1

-----------------------------------------------------------------------------
(* A device: its id (the relay's number, or another for a device an old      *)
(* cache gave a random one), the relay it says it is, the label the panel    *)
(* gave the relay and the one it has now.                                    *)
Device(id, aux, hw, label, synth, status) ==
    [id |-> id, aux |-> aux, hw |-> hw, label |-> label, synth |-> synth, status |-> status]

SerialAdapterDevice_CreateDevice(a, status) == Device(a, a, EnumName(a), EnumName(a), FALSE, status)

DevicesOf(devs) == {devs[i] : i \in DOMAIN devs}

(* What a cache of an earlier version brings back: ids of its own, a label of *)
(* the owner's or that of the relay the hardware label, if any, names too.   *)
LegacyDevice(d) ==
    /\ d.id \in Nat \ (0 .. 31)
    /\ \E a \in 0 .. 31 : \E hw \in {<<>>, EnumName(a)}, label \in Names \cup {EnumName(a)} :
          d = Device(d.id, NoAux, hw, label, FALSE, "unknown")

(* The owner's names are not those the panel gives its relays.               *)
ASSUME AuxConstants ==
    /\ Aux \subseteq 0 .. 31 /\ MaxReports \in Nat
    /\ \A n \in Names : n # <<>> /\ ParseAuxId(n) = NoAux
    /\ \A devs \in Legacy :
          /\ devs \in Seq(DevicesOf(devs)) /\ \A d \in DevicesOf(devs) : LegacyDevice(d)
          /\ \A i, j \in DOMAIN devs : i # j => devs[i].id # devs[j].id /\ devs[i].label # devs[j].label

(* Those of the devices that are to stay, in their order.                    *)
Keeping(devs, staying) ==
    LET kept[n \in 0 .. Len(devs)] ==
          IF n = 0 THEN <<>>
          ELSE IF devs[n] \in staying THEN Append(kept[n - 1], devs[n]) ELSE kept[n - 1]
    IN  kept[Len(devs)]

FindById(devs, id) == CHOOSE d \in DevicesOf(devs) : d.id = id
Has(devs, id)      == \E i \in DOMAIN devs : devs[i].id = id

(* Two auxiliaries are the same device when their labels are.                *)
GraphContains(devs, dev) == \E i \in DOMAIN devs : devs[i].label = dev.label
GraphAdd(devs, dev)      == IF GraphContains(devs, dev) THEN devs ELSE Append(devs, dev)
GraphRemove(devs, id)    == Keeping(devs, {d \in DevicesOf(devs) : d.id # id})
GraphPut(devs, dev)      == [i \in DOMAIN devs |-> IF devs[i].id = dev.id THEN dev ELSE devs[i]]

ResolveAuxId(dev) ==
    IF dev.aux # NoAux THEN dev.aux
    ELSE IF ParseAuxId(dev.hw) # NoAux THEN ParseAuxId(dev.hw)
    ELSE ParseAuxId(dev.label)
HasCustomLabel(dev) == ParseAuxId(dev.label) = NoAux

-----------------------------------------------------------------------------
(* AuxillaryModelSpan: a panel that is not known may have any relay, one     *)
(* with a single power centre has as many as its model number says.          *)
IsKnown == model.centers # 0
SpanContains(a) ==
    ~IsKnown \/ a = 0
    \/ /\ PowerCenterForAuxId(a) < model.centers
       /\ model.centers = 1 /\ model.count # 0 => a <= model.count

IsForcedAbsent(a)  == presence[a] = "absent"
IsForcedPresent(a) == presence[a] = "present"

-----------------------------------------------------------------------------
EnsureAuxIdentity(dev, a) ==
    [dev EXCEPT !.aux = IF @ = NoAux THEN a ELSE @, !.hw = IF @ = <<>> THEN EnumName(a) ELSE @]

OrphanBelongsByLabel(orphan, label, a) == ParseAuxId(orphan.label) = a \/ orphan.label = label
OrphanBelongsToAux(orphan, label, a) ==
    ParseAuxId(orphan.label) = a \/ ParseAuxId(orphan.hw) = a \/ orphan.label = label

(* One device of the graph held against the one that stays.                  *)
CollapseDropsLabel(r, orphan, a) ==
    IF \/ orphan.id = r.keep.id \/ orphan.aux # NoAux
       \/ ~OrphanBelongsToAux(orphan, r.keep.label, a)
    THEN r ELSE [r EXCEPT !.devs = GraphRemove(@, orphan.id)]
Collapse(r, orphan, a) ==
    IF \/ orphan.id = r.keep.id \/ orphan.aux # NoAux
       \/ ~OrphanBelongsToAux(orphan, r.keep.label, a)
    THEN r
    ELSE LET keep == IF ~HasCustomLabel(r.keep) /\ HasCustomLabel(orphan)
                     THEN [r.keep EXCEPT !.label = orphan.label] ELSE r.keep
         IN  [keep |-> keep, devs |-> GraphPut(GraphRemove(r.devs, orphan.id), keep)]

RemoveOrphanAuxPlaceholders(devs, a, keep) ==
    LET collapsed[n \in 0 .. Len(devs)] ==
          IF n = 0 THEN [keep |-> keep, devs |-> GraphPut(devs, keep)]
          ELSE Collapse(collapsed[n - 1], devs[n], a)
    IN  collapsed[Len(devs)]

(* The device a report is about: the one with the relay's id, or a new one,  *)
(* which the graph may refuse; it is written to all the same.                *)
FindOrCreateByLabel(devs, a, status) ==
    LET found == {d \in DevicesOf(devs) : d.label = EnumName(a)}
    IN  IF found # {} THEN EnsureAuxIdentity(CHOOSE d \in found : TRUE, a)
        ELSE SerialAdapterDevice_CreateDevice(a, status)
FindOrCreate(devs, a, status) ==
    IF Has(devs, a) THEN EnsureAuxIdentity(FindById(devs, a), a)
    ELSE SerialAdapterDevice_CreateDevice(a, status)

Touch(devs, a, dev) ==
    RemoveOrphanAuxPlaceholders(IF Has(devs, a) THEN devs ELSE GraphAdd(devs, dev), a, dev)

(* The relays a report on relay a may leave without a device: a itself, when *)
(* the graph refused it, and those whose label the kept device bears.        *)
AtRisk(keep, a) == {a} \cup {graph[i].id : i \in {j \in DOMAIN graph : graph[j].label = keep.label}}

(* Every step; left are the relays it may leave without a device.            *)
Become(devs, left) ==
    /\ reports < MaxReports
    /\ reports' = reports + 1
    /\ graph' = devs
    /\ excused' = {a \in excused \cup left : ~Has(devs, a)}

-----------------------------------------------------------------------------
(* Command_SerialAdapter_AuxillaryStatus.                                    *)
AdapterStatusUnbounded(a, status) ==
    /\ ~IsForcedAbsent(a)
    /\ LET dev == [FindOrCreate(graph, a, status) EXCEPT !.status = status, !.synth = FALSE]
       IN  Become(Touch(graph, a, dev).devs, AtRisk(dev, a))
    /\ seen' = seen \cup {a}
    /\ UNCHANGED <<model, presence, listed>>
AdapterStatus(a, status) ==
    /\ SpanContains(a) /\ ~IsForcedAbsent(a)
    /\ LET dev == [FindOrCreate(graph, a, status) EXCEPT !.status = status, !.synth = FALSE]
       IN  Become(Touch(graph, a, dev).devs, AtRisk(dev, a))
    /\ seen' = seen \cup {a}
    /\ UNCHANGED <<model, presence, listed>>

(* ProcessAuxStatus, for one relay of the message: a forced-absent device    *)
(* that another source made goes; a name replaces the label afterwards.      *)
IaqStatus(a, status, name) ==
    /\ SpanContains(a)
    /\ IF IsForcedAbsent(a) THEN Become(GraphRemove(graph, a), {}) /\ UNCHANGED seen
       ELSE LET dev  == [FindOrCreate(graph, a, status) EXCEPT !.status = status, !.synth = FALSE]
                done == Touch(graph, a, dev)
            IN  /\ Become(IF name = <<>> THEN done.devs
                          ELSE GraphPut(done.devs, [done.keep EXCEPT !.label = name]), AtRisk(dev, a))
                /\ seen' = seen \cup {a}
    /\ UNCHANGED <<model, presence, listed>>

(* PageProcessor_EquipmentOnOff, for one row of the page: the row of a       *)
(* relay the owner has named is not recognised, and the model is not asked.  *)
EquipmentOnOffUnchecked(text, status) ==
    \E a \in {ParseAuxId(text)} \ {NoAux} :
        /\ LET dev == [FindOrCreate(graph, a, status) EXCEPT !.status = status, !.synth = FALSE]
           IN  Become(Touch(graph, a, dev).devs, AtRisk(dev, a))
        /\ seen' = seen \cup {a} /\ listed' = listed \cup {a}
        /\ UNCHANGED <<model, presence>>
EquipmentOnOff(text, status) ==
    \E a \in {ParseAuxId(text)} \ {NoAux} :
        /\ IF IsForcedAbsent(a) THEN Become(GraphRemove(graph, a), {}) /\ UNCHANGED <<seen, listed>>
           ELSE LET dev == [FindOrCreate(graph, a, status) EXCEPT !.status = status, !.synth = FALSE]
                IN  /\ Become(Touch(graph, a, dev).devs, AtRisk(dev, a))
                    /\ seen' = seen \cup {a} /\ listed' = listed \cup {a}
        /\ UNCHANGED <<model, presence>>

(* PageProcessor_LabelAux: the page's title has no place for ExtraAux.       *)
LabelAux(a, label) ==
    /\ a # 0 /\ SpanContains(a)
    /\ IF IsForcedAbsent(a) THEN Become(GraphRemove(graph, a), {}) /\ UNCHANGED seen
       ELSE LET dev == [FindOrCreate(graph, a, "unknown") EXCEPT !.label = label, !.synth = FALSE]
            IN  /\ Become(Touch(graph, a, dev).devs, AtRisk(dev, a))
                /\ seen' = seen \cup {a}
    /\ UNCHANGED <<model, presence, listed>>

(* The version page: the model is known, and what it cannot have goes unless *)
(* the owner named it.                                                       *)
Outside(m, dev) ==
    LET a == ResolveAuxId(dev)
    IN  /\ m.centers # 0 /\ a \notin {NoAux, 0}
        /\ ~(/\ PowerCenterForAuxId(a) < m.centers
             /\ m.centers = 1 /\ m.count # 0 => a <= m.count)
PruneAuxillariesOutsideSpan(m) == Keeping(graph, {d \in DevicesOf(graph) : ~Outside(m, d) \/ HasCustomLabel(d)})
DecodePanelConfiguration(m) ==
    /\ model' = m
    /\ Become(PruneAuxillariesOutsideSpan(m),
              {ResolveAuxId(graph[i]) : i \in {j \in DOMAIN graph : Outside(m, graph[j]) /\ ~HasCustomLabel(graph[j])}})
    /\ listed' = {}
    /\ UNCHANGED <<presence, seen>>

(* RequestFullRediscovery: what no override keeps is forgotten, and the      *)
(* model with it.                                                            *)
ClearAutoDetectedEverything == <<>>
ClearAutoDetectedAuxillaries ==
    Keeping(graph, {d \in DevicesOf(graph) : ResolveAuxId(d) \in Aux /\ IsForcedPresent(ResolveAuxId(d))})
RequestFullRediscovery ==
    /\ Become(ClearAutoDetectedAuxillaries, {})
    /\ model' = [centers |-> 0, count |-> 0]
    /\ listed' = {}
    /\ UNCHANGED <<presence, seen>>

-----------------------------------------------------------------------------
(* The overrides in the order of their keys: Aux B1 to Aux D8, Aux1 to Aux7  *)
(* and Extra Aux.                                                            *)
Keys == [n \in 1 .. 32 |-> IF n <= 24 THEN n + 7 ELSE IF n <= 31 THEN n - 24 ELSE 0]

Synthesized(a) == Device(a, a, EnumName(a), EnumName(a), TRUE, "unknown")

ApplyOverride(devs, a, over) ==
    IF a \notin Aux THEN devs
    ELSE IF over[a] = "present" /\ ~Has(devs, a)
         THEN GraphAdd(devs, Synthesized(a))
    ELSE IF over[a] = "absent" THEN GraphRemove(devs, a)
    ELSE devs

ApplyPresenceOverrides(devs, over) ==
    LET applied[n \in 0 .. Len(Keys)] == IF n = 0 THEN devs ELSE ApplyOverride(applied[n - 1], Keys[n], over)
    IN  applied[Len(Keys)]

(* PUT of an auxiliary slot: the override is stored, then applied.           *)
HandlePut(a, requested) ==
    /\ presence' = [presence EXCEPT ![a] = requested]
    /\ Become(ApplyPresenceOverrides(graph, presence'), {})
    /\ UNCHANGED <<model, listed, seen>>

(* What the cache brings back of a device: not which relay it said it was    *)
(* nor that it was made up, and the board but not its power centres.         *)
RestoreDeviceFromSnapshot(devs, dev) ==
    IF dev.hw = <<>> \/ Has(devs, dev.id) THEN devs
    ELSE GraphAdd(devs, Device(dev.id, NoAux, dev.hw, dev.label, FALSE, "unknown"))
ApplySnapshot(devs) ==
    LET restored[n \in 0 .. Len(devs)] ==
          IF n = 0 THEN <<>> ELSE RestoreDeviceFromSnapshot(restored[n - 1], devs[n])
    IN  restored[Len(devs)]
Restart ==
    /\ Become(ApplyPresenceOverrides(ApplySnapshot(graph), presence), {})
    /\ model' = [centers |-> 0, count |-> 0] /\ listed' = {}
    /\ UNCHANGED <<presence, seen>>

-----------------------------------------------------------------------------
AuxInit ==
    /\ graph \in Legacy
    /\ model = [centers |-> 0, count |-> 0]
    /\ presence = [a \in Aux |-> "auto"]
    /\ listed = {} /\ seen = {} /\ excused = {} /\ reports = 0

AuxNext ==
    \/ \E a \in Aux, status \in {"off", "on"} :
          \/ AdapterStatus(a, status)
          \/ \E name \in Names \cup {<<>>} : IaqStatus(a, status, name)
          \/ EquipmentOnOff(EnumName(a), status)
    \/ \E a \in Aux : \E label \in Names \cup {EnumName(a)} : LabelAux(a, label)
    \/ \E m \in Models : DecodePanelConfiguration(m)
    \/ RequestFullRediscovery
    \/ \E a \in Aux, requested \in {"auto", "present", "absent"} : HandlePut(a, requested)
    \/ Restart

AuxSpec == AuxInit /\ [][AuxNext]_auxVars

-----------------------------------------------------------------------------
(* The devices have the shape the code gives them and every id names one     *)
(* device: AddDevice looks by label, so only FindById before every creation  *)
(* keeps the ids apart.                                                      *)
AuxTypeOK ==
    /\ \A i \in DOMAIN graph :
          /\ graph[i].aux \in {NoAux} \cup Aux
          /\ graph[i].aux # NoAux => graph[i].id = graph[i].aux /\ graph[i].hw = EnumName(graph[i].aux)
    /\ \A i, j \in DOMAIN graph : i # j => graph[i].id # graph[j].id
    /\ presence \in [Aux -> {"auto", "present", "absent"}]

(* Every relay's name parses back to the relay, also where a bank begins and *)
(* ends, and its power centre is the bank in its name: the overrides and the *)
(* cached hardware labels are keyed by these names.                          *)
NamesParse ==
    \A a \in 0 .. 31 :
        /\ ParseAuxId(EnumName(a)) = a
        /\ a # 0 => Banks[PowerCenterForAuxId(a) + 1] = EnumName(a)[2]

(* A relay that was reported has one device: no placeholder of an old cache  *)
(* is left beside it (RemoveOrphanAuxPlaceholders).  One that the operator   *)
(* only declared may have.                                                   *)
OneDevicePerAux ==
    \A i, j \in DOMAIN graph :
        i # j /\ graph[i].aux # NoAux /\ ~graph[i].synth => ResolveAuxId(graph[j]) # graph[i].aux

(* A relay the operator declared absent has no device, whichever of the four *)
(* sources reports it and whatever the cache restores.                       *)
ForcedAbsentGone == \A a \in Aux : IsForcedAbsent(a) => ~Has(graph, a)

(* While the panel's model is known, a device the model cannot have is one   *)
(* the owner named, the operator declared or the panel itself listed.        *)
PhantomsGone ==
    \A i \in DOMAIN graph :
        Outside(model, graph[i]) =>
            HasCustomLabel(graph[i]) \/ graph[i].synth \/ ResolveAuxId(graph[i]) \in listed

(* A relay the operator declared present has a device, or one under its      *)
(* name, or the version page, a refused Add or a device with the same label  *)
(* has taken it since.                                                       *)
ForcedPresentStays ==
    \A a \in Aux : IsForcedPresent(a) =>
        Has(graph, a) \/ a \in excused \/ \E i \in DOMAIN graph : graph[i].label = EnumName(a)

(* A relay the owner named keeps a name of the owner's through reports, the  *)
(* version page and a restart, also when the name is on an old placeholder.  *)
(* A name two devices share may be taken for a duplicate, and of two devices *)
(* of an old cache for one relay the named one may not be taken over.        *)
Named(devs) == {ResolveAuxId(devs[i]) : i \in {j \in DOMAIN devs : HasCustomLabel(devs[j])}} \ {NoAux}
Twins(d, e) == d.label = e.label \/ (d.aux = NoAux /\ e.aux = NoAux /\ ResolveAuxId(d) = ResolveAuxId(e))
Sharing(devs) == {ResolveAuxId(devs[i]) : i \in {j \in DOMAIN devs : \E k \in DOMAIN devs \ {j} : Twins(devs[j], devs[k])}}
LabelsNotLost ==
    [][\/ \E a \in Aux, status \in {"off", "on"} : AdapterStatus(a, status) \/ EquipmentOnOff(EnumName(a), status)
       \/ \E m \in Models : DecodePanelConfiguration(m)
       \/ Restart
       => \A a \in Named(graph) : a \in Named(graph') \cup Sharing(graph) \/ IsForcedAbsent(a)]_auxVars

(* "Only an organically-detected device ... counts as detected"              *)
(* (json_equipment_auxslots.cpp): the slot of a relay nothing ever reported  *)
(* does not read as detected.                                                *)
DetectedMeansSeen ==
    \A i \in DOMAIN graph : graph[i].id \in Aux /\ ~graph[i].synth => graph[i].id \in seen

(* The device graph after any sequence of reports, prunings, overrides and   *)
(* restarts.                                                                 *)
AuxSafe ==
    /\ AuxTypeOK /\ NamesParse /\ OneDevicePerAux
    /\ ForcedAbsentGone /\ PhantomsGone /\ ForcedPresentStays
=============================================================================
