-------------------------- MODULE CommissionConfig --------------------------
(***************************************************************************)
(* commission.utils.ts: the metadata of a participant, the defaults of its *)
(* commissionConfig, and the merge of an update into it.                   *)
(*                                                                         *)
(* A commissionConfig is a function from the paths of its fields: the      *)
(* objects rules and paymentInfo differ from their absence in no way the   *)
(* code can tell.  Unset is a field that is not there, Null an explicit    *)
(* null, Preset the default of a field that has one. (A stored undefined   *)
(* may come back as null; in what is stored nothing tells the two apart.)  *)
(***************************************************************************)

CONSTANTS Amounts, Preset, Unset, Null

Rules == {"calculationBase", "deductAsaasFees",
          "transferClientAfterInactivation", "notifyBeforeInactivation"}
PaymentInfo == {"account", "gateway"}
Defaulted == {"type"} \cup Rules

\* "unknown" stands for any key the interface CommissionConfig does not have.
Paths == {"baseCommission", "newClientCommission", "penalties", "unknown"}
           \cup Defaulted \cup PaymentInfo

Configs == [Paths -> Amounts \cup {Preset, Null, Unset}]

EmptyConfig == [p \in Paths |-> Unset]

\* All else in the metadata is one key, note.
Metadata ==
  [commissionConfig : Configs \cup {Null, Unset}, note : Amounts \cup {Null, Unset}]

ASSUME CommissionAssumption ==
  /\ Preset \notin Amounts \cup {Unset, Null}
  /\ Unset \notin Amounts \cup Configs \cup Metadata \cup {Null}
  /\ Null \notin Amounts \cup Configs

EmptyMetadata == [commissionConfig |-> Unset, note |-> Unset]

\* The config of metadata that has one, and the empty one otherwise.
ConfigOf(metadata) ==
  IF metadata = Unset \/ metadata.commissionConfig \in {Null, Unset}
    THEN EmptyConfig ELSE metadata.commissionConfig

WithDefaults(config) ==
  [p \in Paths |-> IF p = "unknown" THEN Unset
                   ELSE IF p \in Defaulted /\ config[p] \in {Unset, Null} THEN Preset
                   ELSE config[p]]

\* Mutant of applyCommissionDefaults: the other keys are not spread.
applyCommissionDefaultsOnly(metadata) ==
  IF metadata = Unset \/ metadata.commissionConfig \in {Null, Unset} THEN metadata
  ELSE [commissionConfig |-> WithDefaults(metadata.commissionConfig)]

applyCommissionDefaults(metadata) ==
  IF metadata = Unset \/ metadata.commissionConfig \in {Null, Unset} THEN metadata
  ELSE [metadata EXCEPT !.commissionConfig = WithDefaults(@)]

\* The spread { ...old, ...new } of one field.
Over(old, new) == IF new = Unset THEN old ELSE new

\* Mutant of MergedConfig: a rules object that is sent replaces the stored one.
MergedConfigShallow(old, new) ==
  [p \in Paths |-> IF p \in Rules /\ \E q \in Rules : new[q] # Unset THEN new[p]
                   ELSE Over(old[p], new[p])]

MergedConfig(old, new) == [p \in Paths |-> Over(old[p], new[p])]

mergeMetadata(existing, new) ==
  IF new = Unset THEN existing
  ELSE IF existing = Unset THEN applyCommissionDefaults(new)
  ELSE LET note == Over(existing.note, new.note)
       IN IF new.commissionConfig \in {Null, Unset}
            THEN [commissionConfig |-> Over(existing.commissionConfig, new.commissionConfig),
                  note |-> note]
            ELSE [commissionConfig |->
                    WithDefaults(MergedConfig(ConfigOf(existing), new.commissionConfig)),
                  note |-> note]

=============================================================================
