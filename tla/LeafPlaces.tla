----------------------------- MODULE LeafPlaces -----------------------------
(***************************************************************************)
(* Where a localization has its leaves (model/xcstrings/paths.rs), and     *)
(* which leaf of the source stands for one (service/assessment.rs).        *)
(*                                                                         *)
(* A localization is a function from the places of its stringUnits.  A     *)
(* place is a root, a device or a substitution, and below it a plural      *)
(* category or none; these are the chains the format supports, and         *)
(* device.other with plurals below it, which it does not.  An axis or a    *)
(* substitution exists when it has a leaf.                                 *)
(***************************************************************************)
EXTENDS Naturals, Sequences

CONSTANTS
    Root, Whole,       \* the root of a localization; no plural category
    Devices,           \* DeviceCategory
    Names,             \* names of substitutions
    Plurals,           \* plural categories
    AnyDevice,         \* the device category other
    AnyPlural          \* the plural category other

ASSUME PlacesAssumption ==
    /\ Root \notin Devices \cup Names /\ Whole \notin Plurals /\ Devices \cap Names = {}
    /\ AnyDevice \in Devices /\ AnyPlural \in Plurals

Place == [at : {Root} \cup Devices, plural : {Whole} \cup Plurals] \cup [at : Names, plural : Plurals]
RootPlace == [at |-> Root, plural |-> Whole]

Supported(p) == p.at = AnyDevice => p.plural = Whole

HasPlural(loc, at) == \E p \in DOMAIN loc : p.at = at /\ p.plural # Whole
HasDevice(loc) == \E p \in DOMAIN loc : p.at \in Devices

(* Where source_unit looks for the text of a place, in order: a category,  *)
(* else other; without the axis, the node's own unit or its defaults.      *)
SourcePlaces(loc, p) ==
    LET In(at, c) == [at |-> at, plural |-> c]
        Within(at) ==
            IF p.plural # Whole /\ HasPlural(loc, at)
            THEN <<In(at, p.plural), In(at, AnyPlural)>>
            ELSE <<In(at, Whole), In(at, AnyPlural)>>
                 \o (IF at = Root THEN <<In(AnyDevice, Whole), In(AnyDevice, AnyPlural)>> ELSE <<>>)
    IN  IF p.at \in Names THEN <<p, In(p.at, AnyPlural)>>
        ELSE IF p.at = Root \/ ~HasDevice(loc) THEN Within(Root)
        ELSE IF \E q \in DOMAIN loc : q.at = p.at THEN Within(p.at)
        ELSE Within(AnyDevice)
=============================================================================
