---------------------------- MODULE DeviceProfileProofs ----------------------------
(* Proofs about DeviceProfile.                                                       *)
EXTENDS DeviceProfile, TLAPS

(* A column stays one, whatever is said about it.                                    *)
LEMMA ManualType ==
    ASSUME NEW column \in Column, NEW input \in ProfileInput, NEW f \in Field
    PROVE  Manual(column, input, f) \in Column
<1>1. CASE f \notin DOMAIN input
  BY <1>1 DEF Manual
<1>2. CASE f \in DOMAIN input
  <2>1. input[f] \in Said
    BY <1>2, ProfileInputAssumption
  <2>2. QED
    BY <1>2, <2>1 DEF Manual, Said, EmptyColumn, Column, Source
<1>3. QED
  BY <1>1, <1>2

LEMMA ReportedType ==
    ASSUME NEW column \in Column, NEW text \in Said
    PROVE  Reported(column, text) \in Column
BY DEF Reported, Said, Column, Source

LEMMA InferredType ==
    ASSUME NEW column \in Column, NEW text \in Said
    PROVE  Inferred(column, text) \in Column
BY DEF Inferred, Said, Column, Source

LEMMA ReportType ==
    ASSUME NEW report \in DeviceReport
    PROVE  \A f \in ReportedField : report[f] \in Said
BY DeviceReportAssumption

(* What a heartbeat has inferred is nothing or a value the rules infer.              *)
LEMMA InferType ==
    ASSUME NEW report \in DeviceReport, NEW f \in InferredField
    PROVE  Infer(report)[f] \in Said /\ (Infer(report)[f] = NoText \/ Infer(report)[f] \in CanInfer(f))
<1>1. report.fingerprint \in Said /\ report.macAddress \in Said
  BY ReportType DEF ReportedField
<1> DEFINE
  rule == IF report.fingerprint = NoText THEN [g \in InferredField |-> NoText]
          ELSE FingerprintRule[report.fingerprint]
  oui == IF report.macAddress = NoText THEN NoText ELSE OuiVendor[report.macAddress]
<1>2. rule \in [InferredField -> Said]
  BY <1>1, RulesAssumption DEF Said
<1>3. oui \in Said /\ (oui = NoText \/ oui \in {OuiVendor[t] : t \in Text})
  BY <1>1, RulesAssumption DEF Said
<1>4. rule[f] = NoText \/ rule[f] \in {r[f] : r \in Rules}
  BY <1>1 DEF Said, Rules
<1>5. Infer(report) = [rule EXCEPT !.vendor = IF @ = NoText THEN oui ELSE @]
  BY DEF Infer
<1>6. CASE f = "vendor"
  <2>1. Infer(report)[f] = IF rule[f] = NoText THEN oui ELSE rule[f]
    BY <1>2, <1>5, <1>6 DEF InferredField
  <2>2. QED
    BY <1>2, <1>3, <1>4, <1>6, <2>1 DEF CanInfer
<1>7. CASE f # "vendor"
  <2>1. Infer(report)[f] = rule[f]
    BY <1>2, <1>5, <1>7
  <2>2. QED
    BY <1>2, <1>4, <1>7, <2>1 DEF CanInfer
<1>8. QED
  BY <1>6, <1>7

-----------------------------------------------------------------------------------
(* The columns, aliases and histories keep their shape under every handler.          *)
THEOREM ProfileTypeCorrect == ProfileSpec => []ProfileTypeOK
<1>1. ProfileInit => ProfileTypeOK
  BY ProfileSeededAssumption
  DEF ProfileInit, ProfileTypeOK, EmptyColumn, Column, Source
<1>2. ProfileTypeOK /\ [ProfileNext]_profileVars => ProfileTypeOK'
  <2> SUFFICES ASSUME ProfileTypeOK, [ProfileNext]_profileVars
               PROVE  ProfileTypeOK'
    OBVIOUS
  <2> USE DEF ProfileTypeOK
  <2>1. ASSUME NEW d \in Device, NEW input \in ProfileInput
        PROVE  ManualProfile(d, input) \in [Field -> Column]
    BY ManualType DEF ManualProfile
  <2>2. ASSUME NEW d \in Device, NEW input \in ProfileInput, NEW a \in Alias \cup {NoAlias},
               CreatePlaceholder(d, input, a)
        PROVE  ProfileTypeOK'
    BY <2>1, <2>2 DEF CreatePlaceholder, Tell
  <2>3. ASSUME NEW d \in Device, NEW input \in ProfileInput, UpdateProfile(d, input)
        PROVE  ProfileTypeOK'
    <3>1. DOMAIN input \subseteq ManualField
      BY ProfileInputAssumption
    <3>2. QED
      BY <2>1, <2>3, <3>1 DEF UpdateProfile, Tell
  <2>4. ASSUME NEW d \in Device, NEW a \in Alias \cup {NoAlias}, UpdateAlias(d, a)
        PROVE  ProfileTypeOK'
    BY <2>4 DEF UpdateAlias, SetAlias, Tell
  <2>5. ASSUME NEW d \in Device, NEW a \in Alias \cup {NoAlias}, UpsertIdentityKey(d, a)
        PROVE  ProfileTypeOK'
    BY <2>5 DEF UpsertIdentityKey, SetAlias, Tell
  <2>6. ASSUME NEW d \in Device, NEW report \in DeviceReport, Report(d, report)
        PROVE  ProfileTypeOK'
    <3>1. ReportedProfile(d, report) \in [Field -> Column]
      BY ReportType, InferType, ReportedType, InferredType DEF ReportedProfile
    <3>2. QED
      BY <2>6, <3>1 DEF Report
  <2>7. CASE UNCHANGED profileVars
    BY <2>7 DEF profileVars
  <2>8. QED
    BY <2>2, <2>3, <2>4, <2>5, <2>6, <2>7 DEF ProfileNext
<1>3. QED
  BY <1>1, <1>2, PTL DEF ProfileSpec

-----------------------------------------------------------------------------------
(* SourceBacksValue of one column of field f.                                        *)
Backs(column, f) ==
    /\ column.source = "unknown" => column.value = Unknown
    /\ column.source = "manual" => f \in ManualField
    /\ column.source = "report" => f \in ReportedField
    /\ column.source = "inferred" => f \in InferredField /\ column.value \in CanInfer(f)

LEMMA ManualBacks ==
    ASSUME NEW f \in Field, NEW column \in Column, Backs(column, f), NEW input \in ProfileInput
    PROVE  Backs(Manual(column, input, f), f)
<1>1. DOMAIN input \subseteq ManualField /\ (f \in DOMAIN input => input[f] \in Said)
  BY ProfileInputAssumption
<1>2. QED
  BY <1>1 DEF Backs, Manual, EmptyColumn, Column, Said

LEMMA ReportBacks ==
    ASSUME ProfileTypeOK, NEW d \in Device, NEW report \in DeviceReport, NEW f \in Field,
           Backs(profile[d][f], f)
    PROVE  Backs(ReportedProfile(d, report)[f], f)
<1> DEFINE
  reported == Reported(profile[d][f], report[f])
<1>1. profile[d][f] \in Column
  BY DEF ProfileTypeOK
<1>2. CASE f \notin ReportedField
  BY <1>2 DEF ReportedProfile
<1>3. CASE f \in ReportedField
  <2>1. reported \in Column /\ Backs(reported, f)
    BY <1>1, <1>3, ReportType, ReportedType DEF Backs, Reported, Said, Column
  <2>2. CASE f \notin InferredField
    BY <1>3, <2>1, <2>2 DEF ReportedProfile
  <2>3. CASE f \in InferredField
    <3>1. ReportedProfile(d, report)[f] = Inferred(reported, Infer(report)[f])
      BY <1>3, <2>3 DEF ReportedProfile
    <3>2. Infer(report)[f] = NoText \/ Infer(report)[f] \in CanInfer(f)
      BY <2>3, InferType
    <3> HIDE DEF reported
    <3>3. QED
      BY <2>1, <2>3, <3>1, <3>2 DEF Backs, Inferred, Column
  <2>4. QED
    BY <2>2, <2>3
<1>4. QED
  BY <1>2, <1>3

(* A source next to a value could have given it, in every state.                     *)
THEOREM SourcesBackValues == ProfileSpec => []SourceBacksValue
<1>1. ProfileInit => SourceBacksValue
  BY DEF ProfileInit, SourceBacksValue, EmptyColumn
<1>2. ProfileTypeOK /\ SourceBacksValue /\ [ProfileNext]_profileVars => SourceBacksValue'
  <2> SUFFICES ASSUME ProfileTypeOK, SourceBacksValue, [ProfileNext]_profileVars
               PROVE  SourceBacksValue'
    OBVIOUS
  <2>1. \A d \in Device, f \in Field : Backs(profile[d][f], f)
    BY DEF SourceBacksValue, Backs
  <2>2. (\A d \in Device, f \in Field : Backs(profile'[d][f], f)) => SourceBacksValue'
    BY DEF SourceBacksValue, Backs, CanInfer, Rules
  <2>3. ASSUME NEW d \in Device, NEW input \in ProfileInput,
               profile' = [profile EXCEPT ![d] = ManualProfile(d, input)]
        PROVE  SourceBacksValue'
    <3>1. \A f \in Field : Backs(ManualProfile(d, input)[f], f)
      BY <2>1, ManualBacks DEF ManualProfile, ProfileTypeOK
    <3>2. QED
      BY <2>1, <2>2, <2>3, <3>1 DEF ProfileTypeOK
  <2>4. ASSUME NEW d \in Device, NEW report \in DeviceReport, Report(d, report)
        PROVE  SourceBacksValue'
    <3>1. \A f \in Field : Backs(ReportedProfile(d, report)[f], f)
      BY <2>1, ReportBacks
    <3>2. QED
      BY <2>1, <2>2, <2>4, <3>1 DEF Report, ProfileTypeOK
  <2>5. CASE UNCHANGED profile
    BY <2>1, <2>2, <2>5
  <2>6. QED
    BY <2>3, <2>4, <2>5
    DEF ProfileNext, CreatePlaceholder, UpdateProfile, UpdateAlias, UpsertIdentityKey, profileVars
<1>3. QED
  BY <1>1, <1>2, ProfileTypeCorrect, PTL DEF ProfileSpec

LEMMA Ranks ==
    /\ Rank("manual") = 3 /\ Rank("report") = 2 /\ Rank("inferred") = 1 /\ Rank("unknown") = 0
    /\ \A source \in Source : Rank(source) \in Nat
<1>1. Rank("manual") = 3
  BY DEF Rank
<1>2. Rank("report") = 2
  BY DEF Rank
<1>3. Rank("inferred") = 1
  BY DEF Rank
<1>4. Rank("unknown") = 0
  BY DEF Rank
<1>5. QED
  BY <1>1, <1>2, <1>3, <1>4 DEF Source

(* Only a request that names a column overrules a manual value or a stronger source. *)
THEOREM PrecedenceAlwaysHolds == ProfileSpec => PrecedenceHolds
<1> DEFINE
  Keeps(d, f) ==
    f \notin named' =>
        /\ Rank(profile'[d][f].source) >= Rank(profile[d][f].source)
        /\ profile[d][f].source = "manual" => profile'[d][f] = profile[d][f]
<1>1. ASSUME ProfileTypeOK, [ProfileNext]_profileVars, NEW d \in Device, NEW f \in Field
      PROVE  Keeps(d, f)
  <2>1. profile[d][f] \in Column /\ Rank(profile[d][f].source) \in Nat
    BY <1>1, Ranks DEF ProfileTypeOK, Column
  <2>2. CASE profile'[d][f] = profile[d][f]
    BY <2>1, <2>2
  <2>3. ASSUME NEW e \in Device, NEW input \in ProfileInput,
               profile' = [profile EXCEPT ![e] = ManualProfile(e, input)],
               DOMAIN input \subseteq named'
        PROVE  Keeps(d, f)
    <3>1. f \notin named' => profile'[d][f] = profile[d][f]
      BY <1>1, <2>3 DEF ManualProfile, Manual, ProfileTypeOK
    <3>2. QED
      BY <2>1, <3>1
  <2>4. ASSUME NEW e \in Device, NEW report \in DeviceReport, Report(e, report)
        PROVE  Keeps(d, f)
    <3>1. CASE e # d \/ f \notin ReportedField
      BY <1>1, <2>2, <2>4, <3>1 DEF Report, ReportedProfile, ProfileTypeOK
    <3>2. CASE e = d /\ f \in ReportedField
      <4> DEFINE
        reported == Reported(profile[d][f], report[f])
        inferred == Inferred(reported, Infer(report)[f])
      <4>1. profile'[d][f] = IF f \in InferredField THEN inferred ELSE reported
        <5>1. profile'[d] = ReportedProfile(d, report)
          BY <1>1, <2>4, <3>2 DEF Report, ProfileTypeOK
        <5>2. QED
          BY <3>2, <5>1 DEF ReportedProfile
      <4>2. /\ reported \in Column
            /\ reported = profile[d][f] \/ (reported.source = "report"
                                               /\ profile[d][f].source # "manual")
        BY <2>1, <3>2, ReportType, ReportedType DEF Reported
      <4> HIDE DEF reported
      <4>3. inferred = reported \/ (/\ inferred.source = "inferred"
                                    /\ reported.source \notin {"manual", "report"})
        BY <4>2 DEF Inferred
      <4> HIDE DEF inferred
      <4>4. QED
        BY <2>1, <4>1, <4>2, <4>3, Ranks DEF Column, Source
    <3>3. QED
      BY <3>1, <3>2
  <2> HIDE DEF Keeps
  <2>5. ASSUME NEW e \in Device, NEW input \in ProfileInput, NEW a \in Alias \cup {NoAlias},
               CreatePlaceholder(e, input, a)
        PROVE  Keeps(d, f)
    BY <2>3, <2>5 DEF CreatePlaceholder
  <2>6. ASSUME NEW e \in Device, NEW input \in ProfileInput, UpdateProfile(e, input)
        PROVE  Keeps(d, f)
    BY <2>3, <2>6 DEF UpdateProfile
  <2>7. CASE UNCHANGED profile
    BY <2>2, <2>7
  <2>8. QED
    BY <1>1, <2>4, <2>5, <2>6, <2>7 DEF ProfileNext, UpdateAlias, UpsertIdentityKey, profileVars
<1>2. ProfileTypeOK /\ [ProfileNext]_profileVars
        => [\A d \in Device, f \in Field :
              LET before == profile[d][f]
                  after == profile'[d][f]
              IN  f \notin named' =>
                    /\ Rank(after.source) >= Rank(before.source)
                    /\ before.source = "manual" => after = before]_profileVars
  BY <1>1
<1>3. QED
  BY <1>2, ProfileTypeCorrect, PTL DEF ProfileSpec, PrecedenceHolds

(* The enrollment log tells the alias of every device not created once more.         *)
THEOREM AliasesTold == ProfileSpec => []AliasTold
<1>1. ProfileInit => AliasTold
  BY DEF ProfileInit, AliasTold
<1>2. ProfileTypeOK /\ AliasTold /\ [ProfileNext]_profileVars => AliasTold'
  <2> SUFFICES ASSUME ProfileTypeOK, AliasTold, [ProfileNext]_profileVars
               PROVE  AliasTold'
    OBVIOUS
  <2> USE DEF AliasTold, ProfileTypeOK
  <2>1. ASSUME NEW d \in Device, NEW input \in ProfileInput, NEW a \in Alias \cup {NoAlias},
               CreatePlaceholder(d, input, a)
        PROVE  AliasTold'
    BY <2>1 DEF CreatePlaceholder, Tell
  <2>2. ASSUME NEW d \in Device, NEW input \in ProfileInput, UpdateProfile(d, input)
        PROVE  AliasTold'
    BY <2>2 DEF UpdateProfile, Tell
  <2>3. ASSUME NEW d \in Device, NEW a \in Alias \cup {NoAlias}, UpdateAlias(d, a)
        PROVE  AliasTold'
    BY <2>3 DEF UpdateAlias, SetAlias, Tell
  <2>4. ASSUME NEW d \in Device, NEW a \in Alias \cup {NoAlias}, UpsertIdentityKey(d, a)
        PROVE  AliasTold'
    BY <2>4 DEF UpsertIdentityKey, SetAlias, Tell
  <2>5. CASE UNCHANGED <<alias, told, rewritten>>
    BY <2>5
  <2>6. QED
    BY <2>1, <2>2, <2>3, <2>4, <2>5 DEF ProfileNext, Report, profileVars
<1>3. QED
  BY <1>1, <1>2, ProfileTypeCorrect, PTL DEF ProfileSpec
=============================================================================
