------------------------------- MODULE DeviceProfile -------------------------------
(* The descriptive columns of devices: what a device is, who said so (manual over    *)
(* report over inferred), and its alias.  Three parties write them: operators through *)
(* the profile and alias handlers, devices through heartbeats, and the inference     *)
(* rules through the same heartbeats.  One action per handler, as in DevicesService. *)
EXTENDS FiniteSets, Naturals

CONSTANTS
    Device,           \* device ids
    Seeded,           \* the devices seedDefaults inserts
    Text,             \* texts of a column
    Unknown,          \* what an empty column holds: "unknown" or null; a text like others
    NoText,           \* blank or null in a request
    Alias,            \* aliases
    NoAlias,          \* no alias
    FingerprintRule,  \* FINGERPRINT_RULES: vendor and model of a fingerprint, or NoText
    OuiVendor,        \* OUI_VENDOR_MAP: vendor of a MAC address, or NoText
    ProfileInput,     \* requests of operators, see ProfileInputAssumption
    DeviceReport      \* bodies of heartbeats, see DeviceReportAssumption

ManualField == {"hostname", "vendor", "model", "location", "macAddress"}
ReportedField == {"hostname", "vendor", "model", "macAddress", "fingerprint"}
InferredField == {"vendor", "model"}
Field == ManualField \cup ReportedField

Said == Text \cup {NoText}
ASSUME SentinelAssumption == NoText \notin Text /\ Unknown # NoText /\ NoAlias \notin Alias
ASSUME ProfileSeededAssumption == Seeded \subseteq Device
ASSUME RulesAssumption ==
    /\ FingerprintRule \in [Text -> [InferredField -> Said]]
    /\ OuiVendor \in [Text -> Said]
(* A request names the fields its body has; a field it lacks is not in the domain.   *)
ASSUME ProfileInputAssumption ==
    \A input \in ProfileInput :
        DOMAIN input \subseteq ManualField /\ input \in [DOMAIN input -> Said]
(* A heartbeat that lacks a field and one that has it blank are the same.            *)
ASSUME DeviceReportAssumption == DeviceReport \subseteq [ReportedField -> Said]

Source == {"manual", "report", "inferred", "unknown"}
Column == [value : Text \cup {Unknown}, source : Source]
EmptyColumn == [value |-> Unknown, source |-> "unknown"]

VARIABLES
    inventory,  \* ids with a row in devices
    profile,    \* the columns of Field, with their entry in profile_sources_json
    alias,      \* devices.alias
    told,       \* the alias in the latest row of enrollment_logs that tells one
    rewritten,  \* history: devices given another alias by createPlaceholder since
    named       \* history: the fields the latest operator's request named

profileVars == <<inventory, profile, alias, told, rewritten, named>>

ProfileTypeOK ==
    /\ inventory \subseteq Device
    /\ profile \in [Device -> [Field -> Column]]
    /\ alias \in [Device -> Alias \cup {NoAlias}]
    /\ told \in [Device -> Alias \cup {NoAlias}]
    /\ rewritten \subseteq Device
    /\ named \subseteq ManualField

-----------------------------------------------------------------------------------
(* What a request makes of one column.                                               *)

(* Mutant: a cleared column keeps its text.                                          *)
ManualClearingSource(column, input, f) ==
    IF f \notin DOMAIN input THEN column
    ELSE IF input[f] = NoText THEN [column EXCEPT !.source = "unknown"]
    ELSE [value |-> input[f], source |-> "manual"]
Manual(column, input, f) ==
    IF f \notin DOMAIN input THEN column
    ELSE IF input[f] = NoText THEN EmptyColumn
    ELSE [value |-> input[f], source |-> "manual"]

(* Mutant: what the device says last wins.                                           *)
ReportedLast(column, text) ==
    IF text = NoText THEN column ELSE [value |-> text, source |-> "report"]
Reported(column, text) ==
    IF column.source = "manual" \/ text = NoText THEN column
    ELSE [value |-> text, source |-> "report"]

Inferred(column, text) ==
    IF column.source \in {"manual", "report"} \/ text = NoText THEN column
    ELSE [value |-> text, source |-> "inferred"]

(* The fingerprint is asked first, the MAC address only for a vendor it did not give. *)
(* Both are those of this heartbeat, not those of the row.                           *)
Infer(report) ==
    LET rule == IF report.fingerprint = NoText THEN [f \in InferredField |-> NoText]
                ELSE FingerprintRule[report.fingerprint]
        oui == IF report.macAddress = NoText THEN NoText ELSE OuiVendor[report.macAddress]
    IN  [rule EXCEPT !.vendor = IF @ = NoText THEN oui ELSE @]

ManualProfile(d, input) == [f \in Field |-> Manual(profile[d][f], input, f)]

ReportedProfile(d, report) ==
    [f \in Field |->
        IF f \notin ReportedField THEN profile[d][f]
        ELSE IF f \notin InferredField THEN Reported(profile[d][f], report[f])
        ELSE Inferred(Reported(profile[d][f], report[f]), Infer(report)[f])]

-----------------------------------------------------------------------------------
(* A file that this version created and seeded; README says what an upgraded one may *)
(* hold instead.                                                                     *)
ProfileInit ==
    /\ inventory = Seeded
    /\ profile = [d \in Device |-> [f \in Field |-> EmptyColumn]]
    /\ alias = [d \in Device |-> NoAlias]
    /\ told = [d \in Device |-> NoAlias]
    /\ rewritten = {}
    /\ named = {}

(* The enrollment log gets a row that tells the alias.                               *)
Tell(d) ==
    /\ told' = [told EXCEPT ![d] = alias'[d]]
    /\ rewritten' = rewritten \ {d}

(* createPlaceholder hands over all five fields, blank where the body has none, so a *)
(* device that exists loses what the body does not repeat.  Without an alias in the  *)
(* body a device keeps its own.  Only a new device is logged.                        *)
CreatePlaceholder(d, input, a) ==
    /\ DOMAIN input = ManualField
    /\ inventory' = inventory \cup {d}
    /\ profile' = [profile EXCEPT ![d] = ManualProfile(d, input)]
    /\ alias' = [alias EXCEPT ![d] = a]
    /\ IF d \notin inventory THEN Tell(d)
       ELSE /\ rewritten' = IF a = alias[d] THEN rewritten ELSE rewritten \cup {d}
            /\ UNCHANGED told
    /\ named' = ManualField

UpdateProfile(d, input) ==
    /\ d \in inventory
    /\ UNCHANGED <<inventory, alias>>
    /\ profile' = [profile EXCEPT ![d] = ManualProfile(d, input)]
    /\ IF profile' # profile THEN Tell(d) ELSE UNCHANGED <<told, rewritten>>
    /\ named' = DOMAIN input

(* The alias is written and, when it differs from the one before, told.              *)
SetAlias(d, a) ==
    /\ alias' = [alias EXCEPT ![d] = a]
    /\ IF a # alias[d] THEN Tell(d) ELSE UNCHANGED <<told, rewritten>>

UpdateAlias(d, a) ==
    /\ d \in inventory
    /\ SetAlias(d, a)
    /\ named' = {}
    /\ UNCHANGED <<inventory, profile>>

(* Mutant: the row is rewritten with the alias, and no alias is logged.              *)
UpsertIdentityKeyUntold(d, a) ==
    /\ inventory' = inventory \cup {d}
    /\ alias' = [alias EXCEPT ![d] = a]
    /\ named' = {}
    /\ UNCHANGED <<profile, told, rewritten>>
(* A new device gets its row first; either way an alias in the body is stored.       *)
UpsertIdentityKey(d, a) ==
    /\ inventory' = inventory \cup {d}
    /\ IF d \in inventory THEN SetAlias(d, a)
       ELSE alias' = [alias EXCEPT ![d] = a] /\ Tell(d)
    /\ named' = {}
    /\ UNCHANGED profile

(* A heartbeat whose header names the device describes it, whether its signature and *)
(* token hold or not (devices.service.ts:583, :635, :680).                           *)
Report(d, report) ==
    /\ d \in inventory
    /\ profile' = [profile EXCEPT ![d] = ReportedProfile(d, report)]
    /\ named' = {}
    /\ UNCHANGED <<inventory, alias, told, rewritten>>

ProfileNext ==
    \E d \in Device :
        \/ \E input \in ProfileInput, a \in Alias \cup {NoAlias} : CreatePlaceholder(d, input, a)
        \/ \E input \in ProfileInput : UpdateProfile(d, input)
        \/ \E a \in Alias \cup {NoAlias} : UpdateAlias(d, a) \/ UpsertIdentityKey(d, a)
        \/ \E report \in DeviceReport : Report(d, report)

ProfileSpec == ProfileInit /\ [][ProfileNext]_profileVars

-----------------------------------------------------------------------------------
Rules == {FingerprintRule[t] : t \in Text}
CanInfer(f) ==
    {rule[f] : rule \in Rules} \cup (IF f = "vendor" THEN {OuiVendor[t] : t \in Text} ELSE {})

(* The source next to a value is one that could have given it: no source claims a    *)
(* value that was cleared, and an inferred value is one the rules infer.             *)
SourceBacksValue ==
    \A d \in Device, f \in Field :
        LET column == profile[d][f] IN
        /\ column.source = "unknown" => column.value = Unknown
        /\ column.source = "manual" => f \in ManualField
        /\ column.source = "report" => f \in ReportedField
        /\ column.source = "inferred" => f \in InferredField /\ column.value \in CanInfer(f)

Rank(source) ==
    CASE source = "manual" -> 3
      [] source = "report" -> 2
      [] source = "inferred" -> 1
      [] source = "unknown" -> 0

(* Only an operator's request that names a column changes a manual value or lets a   *)
(* weaker source in: no heartbeat, valid or not, and no request about another column *)
(* (buildReportedProfileUpdate and buildManualProfileUpdate).                        *)
PrecedenceHolds ==
    [][\A d \in Device, f \in Field :
        LET before == profile[d][f]
            after == profile'[d][f]
        IN  f \notin named' =>
                /\ Rank(after.source) >= Rank(before.source)
                /\ before.source = "manual" => after = before]_profileVars

(* The history tells the alias a device has, unless the device was created once more *)
(* with another: createPlaceholder is the one handler that changes one unlogged.     *)
AliasTold == \A d \in Device \ rewritten : alias[d] = told[d]
=============================================================================
